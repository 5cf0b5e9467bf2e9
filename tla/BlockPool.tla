------------------------------ MODULE BlockPool ------------------------------
(***************************************************************************)
(* What the image-block pool of queue/queue.c promises its users, without  *)
(* the ring, the mutex or the condition variable: a block belongs to at    *)
(* most one thread, a thread is only ever given a block nobody owns, and   *)
(* only the owner gives it back.                                           *)
(***************************************************************************)
CONSTANTS Blocks,   \* the memory blocks of the pool
          Threads,  \* the threads that allocate and release
          Nobody    \* the "owner" of a free block

VARIABLE owner

PoolInit == owner = [b \in Blocks |-> Nobody]

Take(t, b) ==
    /\ owner[b] = Nobody
    /\ owner' = [owner EXCEPT ![b] = t]

Give(t, b) ==
    /\ owner[b] = t
    /\ owner' = [owner EXCEPT ![b] = Nobody]

PoolNext == \E t \in Threads, b \in Blocks : Take(t, b) \/ Give(t, b)

PoolSpec == PoolInit /\ [][PoolNext]_owner
=============================================================================
