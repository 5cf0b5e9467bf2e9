------------------------------ MODULE ImageQueue ------------------------------
(***************************************************************************)
(* The image-block pool of queue/queue.c: a ring of QUEUE_SIZE malloc'ed   *)
(* blocks, each with an in_use flag, handed out by queue_allocate in ring  *)
(* order and given back by queue_release in any order, under one mutex     *)
(* and one condition variable.                                             *)
(*                                                                         *)
(* A block's address never changes after queue_init, so an address is the  *)
(* index of its element; Foreign is an address that no element has.        *)
(***************************************************************************)
EXTENDS Naturals, FiniteSets

CONSTANTS
    QUEUE_SIZE,   \* number of blocks (5 in the code)
    Threads,      \* threads that call queue_allocate and queue_release
    NoThread,     \* "nobody": the mutex is free, a block has no owner
    Foreign,      \* an address that is not one of the pool's
    MaxHold,      \* most blocks one thread holds at a time
    Rounds,       \* bound: queue_allocate calls per thread
    MaxForeign,   \* bound: releases of a foreign address, all threads
    MaxSpurious   \* bound: spurious returns of pthread_cond_wait

ASSUME QueueAssumption ==
    /\ QUEUE_SIZE \in Nat \ {0}
    /\ NoThread \notin Threads
    /\ Foreign \notin Nat
    /\ MaxHold \in Nat /\ Rounds \in Nat
    /\ MaxForeign \in Nat /\ MaxSpurious \in Nat

Blocks == 0 .. (QUEUE_SIZE - 1)

VARIABLES
    in_use,    \* elements[i].in_use
    head,      \* index of the next block to hand out
    tail,      \* advanced once per block given back
    mutex,     \* the thread inside the critical section, or NoThread
    alive,     \* FALSE once queue_destroy has freed the blocks
    pc,        \* where each thread is
    held,      \* the addresses each thread got and has not given back
    arg,       \* the addr argument of the queue_release call under way
    todo,      \* queue_allocate calls left to each thread
    foreigns,  \* releases of a foreign address so far
    spurious   \* spurious wake-ups so far

vars == <<in_use, head, tail, mutex, alive, pc, held, arg, todo, foreigns,
          spurious>>

(***************************************************************************)
(* Control points.  "asleep" is inside pthread_cond_wait, the mutex given  *)
(* up; "woken" has left the wait set and wants the mutex back.             *)
(***************************************************************************)
Critical == {"check", "taken", "mark", "signal", "leave"}

Points == Critical \cup {"idle", "asleep", "woken"}

Asleep == {t \in Threads : pc[t] = "asleep"}

Goto(t, p) == pc' = [pc EXCEPT ![t] = p]

Init ==
    /\ in_use = [i \in Blocks |-> 0]
    /\ head = 0
    /\ tail = 0
    /\ mutex = NoThread
    /\ alive = TRUE
    /\ pc = [t \in Threads |-> "idle"]
    /\ held = [t \in Threads |-> {}]
    /\ arg = [t \in Threads |-> Foreign]
    /\ todo = [t \in Threads |-> Rounds]
    /\ foreigns = 0
    /\ spurious = 0

(***************************************************************************)
(* Helpers, each with the plausible slips the runs are tried against.      *)
(***************************************************************************)

NextIndex(i) == (i + 1) % QUEUE_SIZE

Lock(t) == mutex = NoThread /\ mutex' = t

Unlock == mutex' = NoThread

HeadFreeAny == \E i \in Blocks : in_use[i] = 0

HeadFree == in_use[head] = 0

\* pthread_cond_signal: one waiter, whichever the library picks, is made
\* runnable; with no waiter the signal is lost.
SignalWithout(t) == pc' = [pc EXCEPT ![t] = "leave"]

SignalThen(t) ==
    \/ /\ Asleep = {}
       /\ Goto(t, "leave")
    \/ \E w \in Asleep : pc' = [pc EXCEPT ![t] = "leave", ![w] = "woken"]

-----------------------------------------------------------------------------
(* unsigned char *queue_allocate(ImageQueue *queue)                        *)

\* pthread_mutex_lock.
AllocLock(t) ==
    /\ alive
    /\ pc[t] = "idle"
    /\ todo[t] > 0
    /\ Cardinality(held[t]) < MaxHold
    /\ Lock(t)
    /\ Goto(t, "check")
    /\ todo' = [todo EXCEPT ![t] = @ - 1]
    /\ UNCHANGED <<in_use, head, tail, alive, held, arg, foreigns, spurious>>

\* elements[head] is in use: pthread_cond_wait gives the mutex up and sleeps,
\* atomically.
AllocWait(t) ==
    /\ pc[t] = "check"
    /\ ~HeadFree
    /\ Unlock
    /\ Goto(t, "asleep")
    /\ UNCHANGED <<in_use, head, tail, alive, held, arg, todo, foreigns,
                   spurious>>

\* pthread_cond_wait returns with the mutex; the while condition is tested
\* again.
AllocRecheck(t) ==
    /\ pc[t] = "woken"
    /\ Lock(t)
    /\ Goto(t, "check")
    /\ UNCHANGED <<in_use, head, tail, alive, held, arg, todo, foreigns,
                   spurious>>

\* A wake-up nobody asked for, which POSIX allows.
SpuriousWakeup(t) ==
    /\ pc[t] = "asleep"
    /\ spurious < MaxSpurious
    /\ Goto(t, "woken")
    /\ spurious' = spurious + 1
    /\ UNCHANGED <<in_use, head, tail, mutex, alive, held, arg, todo, foreigns>>

AllocTakeUnmarked(t) ==
    /\ pc[t] = "check"
    /\ HeadFree
    /\ held' = [held EXCEPT ![t] = @ \cup {head}]
    /\ head' = NextIndex(head)
    /\ Goto(t, "taken")
    /\ UNCHANGED <<in_use, tail, mutex, alive, arg, todo, foreigns, spurious>>

\* The free block at head is marked in use and becomes the result.
AllocTake(t) ==
    /\ pc[t] = "check"
    /\ HeadFree
    /\ held' = [held EXCEPT ![t] = @ \cup {head}]
    /\ in_use' = [in_use EXCEPT ![head] = 1]
    /\ head' = NextIndex(head)
    /\ Goto(t, "taken")
    /\ UNCHANGED <<tail, mutex, alive, arg, todo, foreigns, spurious>>

\* pthread_mutex_unlock, return addr.
AllocReturn(t) ==
    /\ pc[t] = "taken"
    /\ Unlock
    /\ Goto(t, "idle")
    /\ UNCHANGED <<in_use, head, tail, alive, held, arg, todo, foreigns,
                   spurious>>

-----------------------------------------------------------------------------
(* void queue_release(ImageQueue *queue, unsigned char *addr)              *)

\* pthread_mutex_lock; addr is a block of the caller's ...
ReleaseLock(t, b) ==
    /\ alive
    /\ pc[t] = "idle"
    /\ b \in held[t]
    /\ Lock(t)
    /\ arg' = [arg EXCEPT ![t] = b]
    /\ Goto(t, "mark")
    /\ UNCHANGED <<in_use, head, tail, alive, held, todo, foreigns, spurious>>

\* ... or an address the pool does not know.
ReleaseLockForeign(t) ==
    /\ alive
    /\ pc[t] = "idle"
    /\ foreigns < MaxForeign
    /\ Lock(t)
    /\ arg' = [arg EXCEPT ![t] = Foreign]
    /\ foreigns' = foreigns + 1
    /\ Goto(t, "mark")
    /\ UNCHANGED <<in_use, head, tail, alive, held, todo, spurious>>

MarkUnfound(t) ==
    /\ in_use' = [i \in Blocks |-> IF i = arg[t] THEN 0 ELSE in_use[i]]
    /\ tail' = NextIndex(tail)

\* The for loop: the element with this address is freed and tail advances;
\* an address no element has changes nothing.
Mark(t) ==
    /\ in_use' = [i \in Blocks |-> IF i = arg[t] THEN 0 ELSE in_use[i]]
    /\ tail' = IF arg[t] \in Blocks THEN NextIndex(tail) ELSE tail

ReleaseMark(t) ==
    /\ pc[t] = "mark"
    /\ Mark(t)
    /\ held' = [held EXCEPT ![t] = @ \ {arg[t]}]
    /\ Goto(t, "signal")
    /\ UNCHANGED <<head, mutex, alive, arg, todo, foreigns, spurious>>

\* pthread_cond_signal, whether or not a block was found.
ReleaseSignal(t) ==
    /\ pc[t] = "signal"
    /\ SignalThen(t)
    /\ UNCHANGED <<in_use, head, tail, mutex, alive, held, arg, todo, foreigns,
                   spurious>>

\* pthread_mutex_unlock.
ReleaseReturn(t) ==
    /\ pc[t] = "leave"
    /\ Unlock
    /\ Goto(t, "idle")
    /\ UNCHANGED <<in_use, head, tail, alive, held, arg, todo, foreigns,
                   spurious>>

-----------------------------------------------------------------------------
(* void queue_destroy(ImageQueue *queue): main's last call, after the      *)
(* last block is given back.                                               *)

Finished(t) == pc[t] = "idle" /\ todo[t] = 0 /\ held[t] = {}

Destroy ==
    /\ alive
    /\ \A t \in Threads : Finished(t)
    /\ alive' = FALSE
    /\ UNCHANGED <<in_use, head, tail, mutex, pc, held, arg, todo, foreigns,
                   spurious>>

Stopped == ~alive /\ UNCHANGED vars

-----------------------------------------------------------------------------
Allocate(t) == AllocLock(t) \/ AllocWait(t) \/ AllocRecheck(t) \/ AllocTake(t)
               \/ AllocReturn(t)

Release(t) == (\E b \in Blocks : ReleaseLock(t, b)) \/ ReleaseMark(t)
              \/ ReleaseSignal(t) \/ ReleaseReturn(t)

Next ==
    \/ \E t \in Threads : Allocate(t) \/ Release(t) \/ ReleaseLockForeign(t)
                          \/ SpuriousWakeup(t)
    \/ Destroy
    \/ Stopped

Spec == Init /\ [][Next]_vars

(***************************************************************************)
(* Every thread is scheduled, leaves the critical section it is in, and    *)
(* gives back what it holds.  Nothing is assumed of spurious wake-ups or   *)
(* of foreign releases.                                                    *)
(***************************************************************************)
FairSpec ==
    /\ Spec
    /\ \A t \in Threads : WF_vars(Allocate(t) \/ Release(t))
    /\ WF_vars(Destroy)

-----------------------------------------------------------------------------
(* Properties.                                                             *)

\* The type invariant.
TypeOK ==
    /\ in_use \in [Blocks -> {0, 1}]
    /\ head \in Blocks
    /\ tail \in Blocks
    /\ mutex \in Threads \cup {NoThread}
    /\ alive \in BOOLEAN
    /\ pc \in [Threads -> Points]
    /\ held \in [Threads -> SUBSET Blocks]
    /\ arg \in [Threads -> Blocks \cup {Foreign}]
    /\ todo \in [Threads -> 0 .. Rounds]
    /\ foreigns \in 0 .. MaxForeign
    /\ spurious \in 0 .. MaxSpurious

\* At most one thread is between pthread_mutex_lock and pthread_mutex_unlock
\* of either function, pthread_cond_wait included, and it owns the mutex.
MutualExclusion ==
    \A t \in Threads : pc[t] \in Critical <=> mutex = t

\* No block is ever in the hands of two threads: an address returned by
\* queue_allocate is not returned again before queue_release is given it.
ExclusiveBlocks ==
    \A t, u \in Threads : t # u => held[t] \cap held[u] = {}

\* The in_use flags are exactly the blocks the threads hold: no block is lost
\* to the pool and none is offered while somebody still uses it.
FlagsAreHolders ==
    \A b \in Blocks : in_use[b] = 1 <=> \E t \in Threads : b \in held[t]

\* The ring indices count: head ran ahead of tail by the number of blocks in
\* use, modulo the ring size, whatever the order blocks come back in and
\* whatever foreign addresses are released.
HeadTailCount ==
    (head + QUEUE_SIZE - tail) % QUEUE_SIZE =
        Cardinality({b \in Blocks : in_use[b] = 1}) % QUEUE_SIZE

\* A sleeping thread can always still be woken: somebody holds a block it
\* will release, is about to signal, or was woken and will pass it on.  With
\* one signal per release and no broadcast this is what prevents a lost
\* wake-up from stopping the pool for good.
NoStrandedSleeper ==
    Asleep # {} =>
        \E t \in Threads :
            held[t] # {} \/ pc[t] \in {"check", "woken", "mark", "signal"}

\* The pool implements the abstract one: a block goes from nobody to one
\* thread and back, and never from thread to thread.
OwnerOf(b) ==
    IF \E t \in Threads : b \in held[t]
    THEN CHOOSE t \in Threads : b \in held[t]
    ELSE NoThread

Pool == INSTANCE BlockPool
    WITH owner <- [b \in Blocks |-> OwnerOf(b)], Nobody <- NoThread

ImplementsPool == Pool!PoolSpec

\* Every thread that takes one block at a time makes all its calls and ends:
\* a single signal per release is enough, although it may wake a thread that
\* finds elements[head] still in use and goes back to sleep.
AllFinish == <>~alive
=============================================================================
