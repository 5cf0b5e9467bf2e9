--------------------------- MODULE ImageQueueProofs ---------------------------
(***************************************************************************)
(* Proofs about ImageQueue for any ring size, any set of threads and any   *)
(* bounds.  Ownership is not inductive alone: it needs the mutex (nobody   *)
(* else moves while a thread is between its test and its mark) and that    *)
(* the address being released is the releasing thread's own.               *)
(***************************************************************************)
EXTENDS ImageQueue, FiniteSetTheorems, TLAPS

\* The address under release belongs to the thread releasing it.
OwnArgument ==
    \A t \in Threads : pc[t] = "mark" => arg[t] \in held[t] \cup {Foreign}

IInv == /\ TypeOK
        /\ MutualExclusion
        /\ ExclusiveBlocks
        /\ FlagsAreHolders
        /\ OwnArgument

-----------------------------------------------------------------------------
\* The ring's successor stays in the ring.
LEMMA NextIndexInRing ==
    ASSUME NEW i \in Blocks
    PROVE  NextIndex(i) \in Blocks
  BY QueueAssumption DEF NextIndex, Blocks

\* The type invariant holds of every behaviour.
THEOREM TypeCorrect == Spec => []TypeOK
<1> USE QueueAssumption DEF TypeOK
<1>1. Init => TypeOK
  BY DEF Init, Blocks, Points
<1>2. TypeOK /\ [Next]_vars => TypeOK'
  <2> SUFFICES ASSUME TypeOK, [Next]_vars PROVE TypeOK'
    OBVIOUS
  <2>1. ASSUME NEW t \in Threads, Allocate(t) PROVE TypeOK'
    <3>1. CASE AllocLock(t)
      BY <3>1 DEF AllocLock, Lock, Goto, Points, Critical
    <3>2. CASE AllocWait(t)
      BY <3>2 DEF AllocWait, Unlock, Goto, Points
    <3>3. CASE AllocRecheck(t)
      BY <3>3 DEF AllocRecheck, Lock, Goto, Points, Critical
    <3>4. CASE AllocTake(t)
      BY <3>4, NextIndexInRing DEF AllocTake, Goto, Points, Critical
    <3>5. CASE AllocReturn(t)
      BY <3>5 DEF AllocReturn, Unlock, Goto, Points
    <3> QED
      BY <2>1, <3>1, <3>2, <3>3, <3>4, <3>5 DEF Allocate
  <2>2. ASSUME NEW t \in Threads, Release(t) PROVE TypeOK'
    <3>1. ASSUME NEW b \in Blocks, ReleaseLock(t, b) PROVE TypeOK'
      BY <3>1 DEF ReleaseLock, Lock, Goto, Points, Critical
    <3>2. CASE ReleaseMark(t)
      BY <3>2, NextIndexInRing DEF ReleaseMark, Mark, Goto, Points, Critical
    <3>3. CASE ReleaseSignal(t)
      BY <3>3 DEF ReleaseSignal, SignalThen, Goto, Points, Critical
    <3>4. CASE ReleaseReturn(t)
      BY <3>4 DEF ReleaseReturn, Unlock, Goto, Points
    <3> QED
      BY <2>2, <3>1, <3>2, <3>3, <3>4 DEF Release
  <2>3. ASSUME NEW t \in Threads, ReleaseLockForeign(t) PROVE TypeOK'
    BY <2>3 DEF ReleaseLockForeign, Lock, Goto, Points, Critical
  <2>4. ASSUME NEW t \in Threads, SpuriousWakeup(t) PROVE TypeOK'
    BY <2>4 DEF SpuriousWakeup, Goto, Points
  <2>5. CASE Destroy
    BY <2>5 DEF Destroy
  <2>6. CASE UNCHANGED vars
    BY <2>6 DEF vars
  <2> QED
    BY <2>1, <2>2, <2>3, <2>4, <2>5, <2>6 DEF Next, Stopped
<1> QED
  BY <1>1, <1>2, PTL DEF Spec

-----------------------------------------------------------------------------
\* The mutex, ownership and release-argument parts are inductive together.
LEMMA StepKeepsOwnership ==
    ASSUME IInv, TypeOK', [Next]_vars
    PROVE  /\ MutualExclusion'
           /\ ExclusiveBlocks'
           /\ FlagsAreHolders'
           /\ OwnArgument'
<1> DEFINE Kept == /\ MutualExclusion'
                   /\ ExclusiveBlocks'
                   /\ FlagsAreHolders'
                   /\ OwnArgument'
<1> USE QueueAssumption DEF IInv, TypeOK, MutualExclusion, ExclusiveBlocks,
        FlagsAreHolders, OwnArgument
<1>1. ASSUME NEW t \in Threads, AllocLock(t) PROVE Kept
  BY <1>1 DEF AllocLock, Lock, Goto, Critical
<1>2. ASSUME NEW t \in Threads, AllocWait(t) PROVE Kept
  BY <1>2 DEF AllocWait, Unlock, Goto, Critical
<1>3. ASSUME NEW t \in Threads, AllocRecheck(t) PROVE Kept
  BY <1>3 DEF AllocRecheck, Lock, Goto, Critical
<1>4. ASSUME NEW t \in Threads, AllocTake(t) PROVE Kept
  <2> USE DEF AllocTake, Goto, HeadFree
  <2>1. \A u \in Threads : head \notin held[u]
    BY <1>4
  <2>2. MutualExclusion'
    BY <1>4 DEF Critical
  <2>3. ExclusiveBlocks'
    BY <1>4, <2>1
  <2>4. FlagsAreHolders'
    BY <1>4, <2>1
  <2>5. OwnArgument'
    BY <1>4 DEF Critical
  <2> QED
    BY <2>2, <2>3, <2>4, <2>5
<1>5. ASSUME NEW t \in Threads, AllocReturn(t) PROVE Kept
  BY <1>5 DEF AllocReturn, Unlock, Goto, Critical
<1>6. ASSUME NEW t \in Threads, NEW b \in Blocks, ReleaseLock(t, b) PROVE Kept
  BY <1>6 DEF ReleaseLock, Lock, Goto, Critical
<1>7. ASSUME NEW t \in Threads, ReleaseLockForeign(t) PROVE Kept
  BY <1>7 DEF ReleaseLockForeign, Lock, Goto, Critical
<1>8. ASSUME NEW t \in Threads, ReleaseMark(t) PROVE Kept
  <2> USE DEF ReleaseMark, Mark, Goto
  <2>1. MutualExclusion'
    BY <1>8 DEF Critical
  <2>2. ExclusiveBlocks'
    BY <1>8
  <2>3. FlagsAreHolders'
    <3>1. CASE arg[t] = Foreign
      BY <1>8, <3>1 DEF Blocks
    <3>2. CASE arg[t] \in held[t]
      <4>1. \A u \in Threads : u # t => arg[t] \notin held[u]
        BY <3>2
      <4>2. arg[t] \in Blocks /\ in_use'[arg[t]] = 0
        BY <1>8, <3>2
      <4>3. \A u \in Threads : arg[t] \notin held'[u]
        BY <1>8, <4>1
      <4>4. ASSUME NEW b \in Blocks, b # arg[t]
            PROVE  in_use'[b] = 1 <=> \E u \in Threads : b \in held'[u]
        BY <1>8, <4>4
      <4> QED
        BY <4>2, <4>3, <4>4
    <3> QED
      BY <1>8, <3>1, <3>2
  <2>4. OwnArgument'
    BY <1>8 DEF Critical
  <2> QED
    BY <2>1, <2>2, <2>3, <2>4
<1>9. ASSUME NEW t \in Threads, ReleaseSignal(t) PROVE Kept
  BY <1>9 DEF ReleaseSignal, SignalThen, Goto, Asleep, Critical
<1>10. ASSUME NEW t \in Threads, ReleaseReturn(t) PROVE Kept
  BY <1>10 DEF ReleaseReturn, Unlock, Goto, Critical
<1>11. ASSUME NEW t \in Threads, SpuriousWakeup(t) PROVE Kept
  BY <1>11 DEF SpuriousWakeup, Goto, Critical
<1>12. CASE Destroy
  BY <1>12 DEF Destroy
<1>13. CASE UNCHANGED vars
  BY <1>13 DEF vars
<1> QED
  BY <1>1, <1>2, <1>3, <1>4, <1>5, <1>6, <1>7, <1>8, <1>9, <1>10, <1>11,
     <1>12, <1>13 DEF Next, Allocate, Release, Stopped

\* The inductive invariant of the pool.
THEOREM Inductive == Spec => []IInv
<1>1. Init => IInv
  BY QueueAssumption DEF Init, IInv, TypeOK, MutualExclusion, ExclusiveBlocks,
     FlagsAreHolders, OwnArgument, Blocks, Points, Critical
<1>2. IInv /\ TypeOK' /\ [Next]_vars => IInv'
  BY StepKeepsOwnership DEF IInv
<1> QED
  BY <1>1, <1>2, TypeCorrect, PTL DEF Spec

\* queue_allocate never returns a block another thread still holds.
THEOREM Exclusive == Spec => []ExclusiveBlocks
BY Inductive, PTL DEF IInv

\* The in_use flags are exactly the blocks held, whatever is released.
THEOREM FlagsExact == Spec => []FlagsAreHolders
BY Inductive, PTL DEF IInv

-----------------------------------------------------------------------------
\* Whoever sleeps can be woken: the single signal per release is never the
\* last chance of a thread that stays asleep.
THEOREM SleepersWakeable == Spec => []NoStrandedSleeper
<1>1. Init => NoStrandedSleeper
  BY DEF Init, NoStrandedSleeper, Asleep
<1>2. IInv /\ NoStrandedSleeper /\ [Next]_vars => NoStrandedSleeper'
  <2> SUFFICES ASSUME IInv, NoStrandedSleeper, [Next]_vars
               PROVE  NoStrandedSleeper'
    OBVIOUS
  <2> USE DEF IInv, TypeOK, NoStrandedSleeper, Asleep, Goto
  <2>1. ASSUME NEW t \in Threads, AllocLock(t) PROVE NoStrandedSleeper'
    BY <2>1 DEF AllocLock
  <2>2. ASSUME NEW t \in Threads, AllocWait(t) PROVE NoStrandedSleeper'
    <3>1. in_use[head] = 1
      BY <2>2 DEF AllocWait, HeadFree
    <3>2. PICK u \in Threads : head \in held[u]
      BY <3>1 DEF FlagsAreHolders
    <3>3. held'[u] # {}
      BY <2>2, <3>2 DEF AllocWait
    <3> QED
      BY <3>3
  <2>3. ASSUME NEW t \in Threads, AllocRecheck(t) PROVE NoStrandedSleeper'
    BY <2>3 DEF AllocRecheck
  <2>4. ASSUME NEW t \in Threads, AllocTake(t) PROVE NoStrandedSleeper'
    <3>1. held'[t] # {}
      BY <2>4 DEF AllocTake
    <3> QED
      BY <3>1
  <2>5. ASSUME NEW t \in Threads, AllocReturn(t) PROVE NoStrandedSleeper'
    BY <2>5 DEF AllocReturn
  <2>6. ASSUME NEW t \in Threads, NEW b \in Blocks, ReleaseLock(t, b)
        PROVE  NoStrandedSleeper'
    BY <2>6 DEF ReleaseLock
  <2>7. ASSUME NEW t \in Threads, ReleaseLockForeign(t)
        PROVE  NoStrandedSleeper'
    BY <2>7 DEF ReleaseLockForeign
  <2>8. ASSUME NEW t \in Threads, ReleaseMark(t) PROVE NoStrandedSleeper'
    <3>1. pc'[t] = "signal"
      BY <2>8 DEF ReleaseMark
    <3> QED
      BY <3>1
  <2>9. ASSUME NEW t \in Threads, ReleaseSignal(t) PROVE NoStrandedSleeper'
    <3>1. CASE Asleep = {} /\ Goto(t, "leave")
      BY <2>9, <3>1 DEF ReleaseSignal
    <3>2. ASSUME NEW w \in Asleep,
                 pc' = [pc EXCEPT ![t] = "leave", ![w] = "woken"]
          PROVE  NoStrandedSleeper'
      <4>1. w \in Threads /\ pc'[w] = "woken"
        BY <3>2
      <4> QED
        BY <4>1
    <3> QED
      BY <2>9, <3>1, <3>2 DEF ReleaseSignal, SignalThen
  <2>10. ASSUME NEW t \in Threads, ReleaseReturn(t) PROVE NoStrandedSleeper'
    BY <2>10 DEF ReleaseReturn
  <2>11. ASSUME NEW t \in Threads, SpuriousWakeup(t) PROVE NoStrandedSleeper'
    BY <2>11 DEF SpuriousWakeup
  <2>12. CASE Destroy
    BY <2>12 DEF Destroy
  <2>13. CASE UNCHANGED vars
    BY <2>13 DEF vars
  <2> QED
    BY <2>1, <2>2, <2>3, <2>4, <2>5, <2>6, <2>7, <2>8, <2>9, <2>10, <2>11,
       <2>12, <2>13 DEF Next, Allocate, Release, Stopped
<1> QED
  BY <1>1, <1>2, Inductive, PTL DEF Spec

-----------------------------------------------------------------------------
(* The ring indices: head and tail differ by the number of blocks in use.  *)

InUse == {b \in Blocks : in_use[b] = 1}

\* What % does within two laps of the ring.
LEMMA ModOneLap ==
    ASSUME NEW q \in Nat \ {0}, NEW x \in 0 .. (2 * q - 1)
    PROVE  x % q = IF x < q THEN x ELSE x - q
<1>1. CASE x < q
  <2>1. x \in 0 .. (q - 1)
    BY <1>1
  <2> QED
    BY <1>1, <2>1
<1>2. CASE x >= q
  BY <1>2
<1> QED
  BY <1>1, <1>2

\* The blocks in use can be counted, and there are never more than blocks.
LEMMA InUseCount ==
    ASSUME in_use \in [Blocks -> {0, 1}]
    PROVE  /\ IsFiniteSet(InUse)
           /\ Cardinality(InUse) \in 0 .. QUEUE_SIZE
<1>1. IsFiniteSet(Blocks) /\ Cardinality(Blocks) = QUEUE_SIZE
  BY FS_Interval, QueueAssumption DEF Blocks
<1>2. InUse \in SUBSET Blocks
  BY DEF InUse
<1>3. IsFiniteSet(InUse) /\ Cardinality(InUse) <= Cardinality(Blocks)
  BY <1>1, <1>2, FS_Subset
<1>4. Cardinality(InUse) \in Nat
  BY <1>3, FS_CardinalityType
<1> QED
  BY <1>1, <1>3, <1>4, QueueAssumption

\* The distance of two indices, written without %.
LEMMA CountLinear ==
    ASSUME NEW h \in Blocks, NEW t \in Blocks, NEW n \in 0 .. QUEUE_SIZE
    PROVE  (h + QUEUE_SIZE - t) % QUEUE_SIZE = n % QUEUE_SIZE
              <=> \/ h - t = n /\ n < QUEUE_SIZE
                  \/ h - t + QUEUE_SIZE = n /\ n < QUEUE_SIZE
                  \/ h = t /\ n = QUEUE_SIZE
<1> DEFINE q == QUEUE_SIZE
<1>1. q \in Nat \ {0}
  BY QueueAssumption
<1>2. h \in Nat /\ t \in Nat /\ n \in Nat /\ h < q /\ t < q /\ n <= q
  BY <1>1 DEF Blocks
<1>3. (h + q - t) \in 0 .. (2 * q - 1)
  BY <1>1, <1>2
<1>4. n \in 0 .. (2 * q - 1)
  BY <1>1, <1>2
<1>5. (h + q - t) % q = IF h + q - t < q THEN h + q - t ELSE h - t
  <2> DEFINE x == h + q - t
  <2>1. x \in 0 .. (2 * q - 1)
    BY <1>3
  <2> HIDE DEF x
  <2>2. x % q = IF x < q THEN x ELSE x - q
    BY <1>1, <2>1, ModOneLap
  <2>3. x - q = h - t
    BY <1>1, <1>2 DEF x
  <2> QED
    BY <2>2, <2>3 DEF x
<1>6. n % q = IF n < q THEN n ELSE n - q
  BY <1>1, <1>4, ModOneLap
<1> HIDE DEF q
<1>7. (h + q - t) % q = n % q
              <=> \/ h - t = n /\ n < q
                  \/ h - t + q = n /\ n < q
                  \/ h = t /\ n = q
  BY <1>1, <1>2, <1>5, <1>6
<1> QED
  BY <1>7 DEF q

\* The successor, written without %.
LEMMA NextIndexLinear ==
    ASSUME NEW i \in Blocks
    PROVE  NextIndex(i) = IF i + 1 = QUEUE_SIZE THEN 0 ELSE i + 1
<1> DEFINE x == i + 1
<1>1. QUEUE_SIZE \in Nat \ {0} /\ x \in 0 .. (2 * QUEUE_SIZE - 1) /\ x <= QUEUE_SIZE
  BY QueueAssumption DEF Blocks
<1> HIDE DEF x
<1>2. x % QUEUE_SIZE = IF x < QUEUE_SIZE THEN x ELSE x - QUEUE_SIZE
  BY <1>1, ModOneLap
<1>3. x % QUEUE_SIZE = IF x = QUEUE_SIZE THEN 0 ELSE x
  BY <1>1, <1>2
<1> QED
  BY <1>3 DEF NextIndex, x

\* head runs ahead of tail by the number of blocks in use, modulo the ring:
\* a block taken advances head and adds one to the set, a block of the pool
\* released advances tail and takes one away, a foreign address does neither.
THEOREM IndicesCount == Spec => []HeadTailCount
<1>1. Init => HeadTailCount
  <2> SUFFICES ASSUME Init PROVE HeadTailCount
    OBVIOUS
  <2>1. {b \in Blocks : in_use[b] = 1} = {}
    BY DEF Init
  <2>2. head = 0 /\ tail = 0 /\ QUEUE_SIZE \in Nat \ {0}
    BY QueueAssumption DEF Init
  <2>3. 0 \in Blocks /\ 0 \in 0 .. QUEUE_SIZE
    BY QueueAssumption DEF Blocks
  <2>4. (0 + QUEUE_SIZE - 0) % QUEUE_SIZE = 0 % QUEUE_SIZE
    BY <2>2, <2>3, CountLinear
  <2> QED
    BY <2>1, <2>2, <2>4, FS_EmptySet DEF HeadTailCount
<1>2. IInv /\ HeadTailCount /\ IInv' /\ [Next]_vars => HeadTailCount'
  <2> SUFFICES ASSUME IInv, HeadTailCount, IInv', [Next]_vars
               PROVE  HeadTailCount'
    OBVIOUS
  <2> DEFINE n == Cardinality(InUse)
             q == QUEUE_SIZE
             Apart(h, t, k) == \/ h - t = k /\ k < q
                               \/ h - t + q = k /\ k < q
                               \/ h = t /\ k = q
  <2>1. q \in Nat \ {0}
    BY QueueAssumption
  <2>2. head \in Blocks /\ tail \in Blocks /\ head' \in Blocks /\ tail' \in Blocks
    BY DEF IInv, TypeOK
  <2>3. IsFiniteSet(InUse) /\ n \in 0 .. q
    BY InUseCount DEF IInv, TypeOK
  <2>4. in_use' \in [Blocks -> {0, 1}]
    BY DEF IInv, TypeOK
  <2>5. n' \in 0 .. q
    <3> DEFINE S == {b \in Blocks : in_use'[b] = 1}
    <3>1. IsFiniteSet(Blocks) /\ Cardinality(Blocks) = QUEUE_SIZE
      BY FS_Interval, QueueAssumption DEF Blocks
    <3>2. S \in SUBSET Blocks
      OBVIOUS
    <3>3. IsFiniteSet(S) /\ Cardinality(S) <= Cardinality(Blocks)
      BY <3>1, <3>2, FS_Subset
    <3>4. Cardinality(S) \in Nat
      BY <3>3, FS_CardinalityType
    <3>5. Cardinality(S) \in 0 .. q
      BY <3>1, <3>3, <3>4, <2>1
    <3> QED
      BY <3>5 DEF InUse
  <2>6. Apart(head, tail, n)
    BY <2>2, <2>3, CountLinear DEF HeadTailCount, InUse
  <2>7. SUFFICES Apart(head', tail', n')
    BY <2>2, <2>5, CountLinear DEF HeadTailCount, InUse
  <2>8. head \in Nat /\ tail \in Nat /\ head < q /\ tail < q
    BY <2>1, <2>2 DEF Blocks
  <2>9. ASSUME in_use' = in_use, head' = head, tail' = tail
        PROVE  Apart(head', tail', n')
    BY <2>6, <2>9 DEF InUse
  <2>10. ASSUME NEW t \in Threads, AllocTake(t) PROVE Apart(head', tail', n')
    <3>1. InUse' = InUse \cup {head} /\ head \notin InUse
      BY <2>10, <2>2 DEF AllocTake, HeadFree, InUse, IInv, TypeOK
    <3>2. n' = n + 1
      BY <2>3, <3>1, FS_AddElement
    <3>3. head' = (IF head + 1 = q THEN 0 ELSE head + 1) /\ tail' = tail
      BY <2>10, <2>2, NextIndexLinear DEF AllocTake
    <3> HIDE DEF n, q
    <3>4. n + 1 \in 0 .. q
      BY <2>5, <3>2
    <3> QED
      BY <2>1, <2>3, <2>6, <2>8, <3>2, <3>3, <3>4
  <2>11. ASSUME NEW t \in Threads, ReleaseMark(t)
         PROVE  Apart(head', tail', n')
    <3>1. CASE arg[t] = Foreign
      <4>1. arg[t] \notin Blocks
        BY <3>1, QueueAssumption DEF Blocks
      <4>2. in_use' = in_use /\ head' = head /\ tail' = tail
        BY <2>11, <4>1 DEF ReleaseMark, Mark, IInv, TypeOK
      <4> QED
        BY <2>9, <4>2
    <3>2. CASE arg[t] \in held[t]
      <4>1. arg[t] \in Blocks /\ in_use[arg[t]] = 1
        BY <3>2 DEF IInv, TypeOK, FlagsAreHolders
      <4>2. InUse' = InUse \ {arg[t]} /\ arg[t] \in InUse
        BY <2>11, <4>1 DEF ReleaseMark, Mark, InUse, IInv, TypeOK
      <4>3. n' = n - 1
        BY <2>3, <4>2, FS_RemoveElement
      <4>4. tail' = (IF tail + 1 = q THEN 0 ELSE tail + 1) /\ head' = head
        BY <2>11, <2>2, <4>1, NextIndexLinear DEF ReleaseMark, Mark
      <4> HIDE DEF n, q
      <4>5. n - 1 \in 0 .. q
        BY <2>5, <4>3
      <4> QED
        BY <2>1, <2>3, <2>6, <2>8, <4>3, <4>4, <4>5
    <3> QED
      BY <2>11, <3>1, <3>2 DEF IInv, OwnArgument, ReleaseMark
  <2>12. ASSUME NEW t \in Threads,
                \/ AllocLock(t) \/ AllocWait(t) \/ AllocRecheck(t)
                \/ AllocReturn(t) \/ ReleaseLockForeign(t)
                \/ ReleaseSignal(t) \/ ReleaseReturn(t) \/ SpuriousWakeup(t)
                \/ \E b \in Blocks : ReleaseLock(t, b)
         PROVE  in_use' = in_use /\ head' = head /\ tail' = tail
    BY <2>12 DEF AllocLock, AllocWait, AllocRecheck, AllocReturn,
       ReleaseLockForeign, ReleaseSignal, ReleaseReturn, SpuriousWakeup,
       ReleaseLock
  <2>13. CASE Destroy \/ UNCHANGED vars
    BY <2>9, <2>13 DEF Destroy, vars
  <2> QED
    BY <2>9, <2>10, <2>11, <2>12, <2>13 DEF Next, Allocate, Release, Stopped
<1> QED
  BY <1>1, <1>2, Inductive, PTL DEF Spec

-----------------------------------------------------------------------------
(* Refinement: the ring implements the abstract pool.                      *)

\* With exclusive ownership the mapped owner of a held block is its holder.
LEMMA OwnerIsHolder ==
    ASSUME ExclusiveBlocks, NEW t \in Threads, NEW b \in held[t]
    PROVE  OwnerOf(b) = t
<1>1. \E u \in Threads : b \in held[u]
  OBVIOUS
<1>2. (CHOOSE u \in Threads : b \in held[u]) \in Threads
      /\ b \in held[CHOOSE u \in Threads : b \in held[u]]
  BY <1>1
<1>3. (CHOOSE u \in Threads : b \in held[u]) = t
  BY <1>2 DEF ExclusiveBlocks
<1> QED
  BY <1>1, <1>3 DEF OwnerOf

\* A block nobody holds is mapped to no owner.
LEMMA OwnerOfFree ==
    ASSUME NEW b, \A u \in Threads : b \notin held[u]
    PROVE  OwnerOf(b) = NoThread
BY DEF OwnerOf

\* Every behaviour of queue_allocate and queue_release is a behaviour of the
\* abstract pool: AllocTake is Take, ReleaseMark of an own block is Give and
\* every other step leaves the owners alone.
THEOREM Refinement == Spec => ImplementsPool
<1> DEFINE own == [b \in Blocks |-> OwnerOf(b)]
<1>1. Init => Pool!PoolInit
  BY OwnerOfFree DEF Init, Pool!PoolInit
<1>2. IInv /\ IInv' /\ [Next]_vars => [Pool!PoolNext]_own
  <2> SUFFICES ASSUME IInv, IInv', [Next]_vars PROVE [Pool!PoolNext]_own
    OBVIOUS
  <2> USE DEF IInv
  <2>1. ASSUME held' = held PROVE own' = own
    BY <2>1 DEF OwnerOf
  <2>2. ASSUME NEW t \in Threads, AllocTake(t) PROVE Pool!PoolNext
    <3>1. head \in Blocks /\ \A u \in Threads : head \notin held[u]
      BY <2>2 DEF AllocTake, HeadFree, TypeOK, FlagsAreHolders
    <3>2. own[head] = NoThread
      BY <3>1, OwnerOfFree
    <3>3. head \in held'[t]
      BY <2>2 DEF AllocTake, TypeOK
    <3>4. own'[head] = t
      <4>1. \E u \in Threads : head \in held'[u]
        BY <3>3
      <4>2. \A u \in Threads : head \in held'[u] => u = t
        BY <3>3 DEF ExclusiveBlocks
      <4>3. (CHOOSE u \in Threads : head \in held'[u]) = t
        BY <4>1, <4>2
      <4> QED
        BY <3>1, <4>1, <4>3 DEF OwnerOf
    <3>5. ASSUME NEW b \in Blocks, b # head PROVE own'[b] = own[b]
      <4>1. \A u \in Threads : b \in held'[u] <=> b \in held[u]
        BY <2>2, <3>5 DEF AllocTake, TypeOK
      <4>2. (\E u \in Threads : b \in held'[u])
                <=> (\E u \in Threads : b \in held[u])
        BY <4>1
      <4>3. (CHOOSE u \in Threads : b \in held'[u])
                = (CHOOSE u \in Threads : b \in held[u])
        BY <4>1
      <4> QED
        BY <4>2, <4>3 DEF OwnerOf
    <3>6. own' = [own EXCEPT ![head] = t]
      BY <3>1, <3>4, <3>5
    <3>7. Pool!Take(t, head)
      BY <3>1, <3>2, <3>6 DEF Pool!Take
    <3> QED
      BY <3>1, <3>7 DEF Pool!PoolNext
  <2>3. ASSUME NEW t \in Threads, ReleaseMark(t)
        PROVE  Pool!PoolNext \/ own' = own
    <3>1. CASE arg[t] = Foreign
      <4>1. held' = held
        BY <2>3, <3>1, QueueAssumption DEF ReleaseMark, TypeOK, Blocks
      <4> QED
        BY <2>1, <4>1
    <3>2. CASE arg[t] \in held[t]
      <4> DEFINE a == arg[t]
      <4>1. a \in Blocks
        BY <3>2 DEF TypeOK
      <4>2. own[a] = t
        BY <3>2, <4>1, OwnerIsHolder
      <4>3. \A u \in Threads : a \notin held'[u]
        BY <2>3, <3>2 DEF ReleaseMark, TypeOK, ExclusiveBlocks
      <4>4. own'[a] = NoThread
        BY <4>1, <4>3 DEF OwnerOf
      <4>5. ASSUME NEW b \in Blocks, b # a PROVE own'[b] = own[b]
        <5>1. \A u \in Threads : b \in held'[u] <=> b \in held[u]
          BY <2>3, <4>5 DEF ReleaseMark, TypeOK
        <5>2. (\E u \in Threads : b \in held'[u])
                  <=> (\E u \in Threads : b \in held[u])
          BY <5>1
        <5>3. (CHOOSE u \in Threads : b \in held'[u])
                  = (CHOOSE u \in Threads : b \in held[u])
          BY <5>1
        <5> QED
          BY <5>2, <5>3 DEF OwnerOf
      <4>6. own' = [own EXCEPT ![a] = NoThread]
        BY <4>1, <4>4, <4>5
      <4>7. Pool!Give(t, a)
        BY <4>1, <4>2, <4>6 DEF Pool!Give
      <4> QED
        BY <4>1, <4>7 DEF Pool!PoolNext
    <3> QED
      BY <2>3, <3>1, <3>2 DEF OwnArgument, ReleaseMark
  <2>4. ASSUME NEW t \in Threads,
               \/ AllocLock(t) \/ AllocWait(t) \/ AllocRecheck(t)
               \/ AllocReturn(t) \/ ReleaseLockForeign(t)
               \/ ReleaseSignal(t) \/ ReleaseReturn(t) \/ SpuriousWakeup(t)
               \/ \E b \in Blocks : ReleaseLock(t, b)
        PROVE  held' = held
    BY <2>4 DEF AllocLock, AllocWait, AllocRecheck, AllocReturn,
       ReleaseLockForeign, ReleaseSignal, ReleaseReturn, SpuriousWakeup,
       ReleaseLock
  <2>5. CASE Destroy \/ UNCHANGED vars
    BY <2>1, <2>5 DEF Destroy, vars
  <2> QED
    BY <2>1, <2>2, <2>3, <2>4, <2>5 DEF Next, Allocate, Release, Stopped
<1> QED
  BY <1>1, <1>2, Inductive, PTL DEF Spec, ImplementsPool, Pool!PoolSpec
=============================================================================
