------------------------------ MODULE AudioProofs ------------------------------
(***************************************************************************)
(* Proofs about Pcm for every ring size, every INT_MAX, every set of       *)
(* flags and every threshold.  What the wrap point of the pointers is      *)
(* comes first, then the invariant of the calls, then the one of the ring. *)
(* The last part is about DoubleBuffer, the player on top of the library:  *)
(* the two volatile flags alone keep main and the player out of each       *)
(* other's buffer, and a player that has caught up stays silent, for every *)
(* buffer size, frame size and number of frames.                           *)
(***************************************************************************)
EXTENDS Pcm, DoubleBuffer, FiniteSetTheorems, TLAPS

-----------------------------------------------------------------------------
(* The wrap point.                                                         *)

Doublings == {k \in 0 .. IntMax : k = 0 \/ BufferSize * 2 ^ k <= IntMax - BufferSize}

\* A power of two counts the subsets of a set.
LEMMA PowerOfTwo ==
    ASSUME NEW k \in Nat
    PROVE  /\ 2 ^ k \in Nat \ {0}
           /\ k > 0 => 2 ^ k >= 2
<1>1. IsFiniteSet(1 .. k) /\ Cardinality(1 .. k) = k
  BY FS_Interval
<1>2. IsFiniteSet(SUBSET (1 .. k)) /\ Cardinality(SUBSET (1 .. k)) = 2 ^ k
  BY <1>1, FS_SUBSET
<1>3. 2 ^ k \in Nat
  BY <1>2, FS_CardinalityType
<1>4. IsFiniteSet({{}}) /\ Cardinality({{}}) = 1
  BY FS_Singleton
<1>5. {{}} \in SUBSET (SUBSET (1 .. k))
  OBVIOUS
<1>6. 1 <= 2 ^ k
  BY <1>2, <1>4, <1>5, FS_Subset
<1>7. ASSUME k > 0 PROVE 2 ^ k >= 2
  <2>1. {1} \notin {{}} /\ {{}} \cup {{1}} \in SUBSET (SUBSET (1 .. k))
    BY <1>7
  <2>2. Cardinality({{}} \cup {{1}}) = 2
    <3> DEFINE E == {{}}
               x == {1}
    <3>1. IsFiniteSet(E) /\ Cardinality(E) = 1 /\ x \notin E
      BY <1>4, <2>1
    <3> HIDE DEF E, x
    <3>2. Cardinality(E \cup {x}) = 1 + 1
      BY <3>1, FS_AddElement
    <3>3. Cardinality(E \cup {x}) = 2
      BY ONLY <3>2
    <3> QED
      BY ONLY <3>3, Zenon DEF E, x
  <2>3. 2 <= 2 ^ k
    BY <1>2, <2>1, <2>2, FS_Subset
  <2> QED
    BY <1>3, <2>3
<1> QED
  BY <1>3, <1>6, <1>7

\* A bounded set of naturals that holds zero has a greatest element.
LEMMA GreatestExists ==
    ASSUME NEW n \in Nat, NEW S \in SUBSET (0 .. n), 0 \in S
    PROVE  \E k \in S : \A j \in S : j <= k
<1> DEFINE T == {m \in Nat : \A j \in S : j <= m}
<1>1. n \in T
  OBVIOUS
<1>2. PICK m \in T : \A y \in T : ~ (<<y, m>> \in OpToRel(<, Nat))
  BY <1>1, WFMin, NatLessThanWellFounded
<1>3. m \in Nat /\ \A j \in S : j <= m
  BY <1>2
<1>4. \A y \in T : ~ (y < m)
  BY <1>2, <1>3 DEF OpToRel
<1>5. m \in S
  <2>1. SUFFICES ASSUME m \notin S PROVE FALSE
    OBVIOUS
  <2>2. m # 0
    BY <2>1
  <2>3. ASSUME NEW j \in S PROVE j <= m - 1
    <3>1. j \in Nat /\ j <= m /\ j # m
      BY <1>3, <2>1
    <3> QED
      BY <1>3, <3>1
  <2>4. m - 1 \in Nat /\ m - 1 < m
    BY <1>3, <2>2
  <2>5. m - 1 \in T
    BY <2>3, <2>4
  <2> QED
    BY <1>4, <2>4, <2>5
<1> QED
  BY <1>3, <1>5

\* The loop of pcm_open ends with the ring or a doubling of it, and doubles at
\* least once for a ring that fits three times in an int.
LEMMA BoundaryFacts ==
    /\ boundary \in Nat
    /\ boundary >= BufferSize
    /\ 3 * BufferSize <= IntMax => boundary >= 2 * BufferSize
<1> DEFINE most == CHOOSE k \in Doublings : \A j \in Doublings : j <= k
<1>1. BufferSize \in Nat \ {0} /\ IntMax \in Nat /\ 2 * BufferSize < IntMax
  BY PcmAssumption
<1>2. 0 \in Doublings /\ Doublings \in SUBSET (0 .. IntMax)
  BY <1>1 DEF Doublings
<1>3. \E k \in Doublings : \A j \in Doublings : j <= k
  BY <1>1, <1>2, GreatestExists
<1>4. most \in Doublings /\ \A j \in Doublings : j <= most
  BY <1>3
<1>5. boundary = BufferSize * 2 ^ most
  BY DEF boundary, Doublings
<1> HIDE DEF most
<1>6. most \in Nat
  BY <1>1, <1>2, <1>4
<1>7. 2 ^ most \in Nat \ {0}
  BY <1>6, PowerOfTwo
<1>8. boundary \in Nat /\ boundary >= BufferSize
  <2> DEFINE p == 2 ^ most
  <2>1. p \in Nat \ {0}
    BY <1>7
  <2> HIDE DEF p
  <2>2. BufferSize * p \in Nat /\ BufferSize * p >= BufferSize
    BY <1>1, <2>1
  <2> QED
    BY <1>5, <2>2 DEF p
<1>9. ASSUME 3 * BufferSize <= IntMax PROVE boundary >= 2 * BufferSize
  <2>1. 2 ^ 1 = 2
    OBVIOUS
  <2>2. 1 \in 0 .. IntMax /\ BufferSize * 2 <= IntMax - BufferSize
    BY <1>1, <1>9
  <2>3. 1 \in Doublings
    BY <2>1, <2>2 DEF Doublings
  <2>4. most > 0
    BY <1>4, <1>6, <2>3
  <2> DEFINE p == 2 ^ most
  <2>5. p \in Nat /\ p >= 2
    BY <1>6, <1>7, <2>4, PowerOfTwo
  <2> HIDE DEF p
  <2>6. BufferSize * p >= BufferSize * 2
    BY <1>1, <2>5
  <2> QED
    BY <1>1, <1>5, <2>6 DEF p
<1> QED
  BY <1>8, <1>9

-----------------------------------------------------------------------------
(* Arithmetic of the pointers.                                             *)

\* What % does within one lap below zero and two laps above.
LEMMA ModNearby ==
    ASSUME NEW q \in Nat \ {0}, NEW x \in Int, -q <= x, x < 2 * q
    PROVE  x % q = IF x < 0 THEN x + q ELSE IF x < q THEN x ELSE x - q
<1>1. CASE x < 0
  BY <1>1
<1>2. CASE 0 <= x /\ x < q
  BY <1>2
<1>3. CASE x >= q
  BY <1>3
<1> QED
  BY <1>1, <1>2, <1>3

\* A remainder lies below its divisor.
LEMMA ModRange ==
    ASSUME NEW q \in Nat \ {0}, NEW x \in Int
    PROVE  x % q \in Int /\ 0 <= x % q /\ x % q < q
OBVIOUS

\* The counts of pcm_mmap_playback_avail and pcm_mmap_capture_avail are never
\* negative.
LEMMA AvailNatural ==
    ASSUME TypeOK
    PROVE  mmap_avail \in Nat
<1>1. BufferSize \in Nat /\ boundary \in Nat /\ boundary >= BufferSize
  BY PcmAssumption, BoundaryFacts
<1>2. /\ hw_ptr \in Int /\ 0 <= hw_ptr /\ hw_ptr < boundary
      /\ appl_ptr \in Int /\ 0 <= appl_ptr /\ appl_ptr <= boundary
  BY <1>1 DEF TypeOK
<1>3. playback_avail \in Nat
  BY <1>1, <1>2 DEF playback_avail
<1>4. capture_avail \in Nat
  BY <1>1, <1>2 DEF capture_avail
<1> QED
  BY <1>3, <1>4 DEF mmap_avail

\* pcm_mmap_begin's area is no larger than asked for and ends in the ring.
LEMMA AreaBounds ==
    ASSUME TypeOK, NEW n \in Nat
    PROVE  /\ Area(n) \in Nat /\ Area(n) <= n
           /\ Area(n) <= mmap_avail
           /\ (appl_ptr % BufferSize) + Area(n) <= BufferSize
<1> DEFINE c == appl_ptr % BufferSize
<1>1. BufferSize \in Nat \ {0} /\ appl_ptr \in Int
  BY PcmAssumption, BoundaryFacts DEF TypeOK
<1>2. c \in Int /\ 0 <= c /\ c < BufferSize
  BY <1>1, ModRange
<1>3. mmap_avail \in Nat
  BY AvailNatural
<1> HIDE DEF c
<1> DEFINE m == mmap_avail
<1>4. Area(n) = Lesser(Lesser(n, Lesser(m, BufferSize)), BufferSize - c)
  BY DEF Area, c
<1>5. m \in Nat
  BY <1>3
<1> HIDE DEF m
<1>6. /\ Area(n) \in Nat /\ Area(n) <= n /\ Area(n) <= m
      /\ c + Area(n) <= BufferSize
  BY <1>1, <1>2, <1>4, <1>5 DEF Lesser
<1> QED
  BY <1>6 DEF c, m

-----------------------------------------------------------------------------
(* Opening and closing.                                                    *)

\* What a handle owns, and how pcm_close will find the ring: only a pcm_open
\* that failed with the ring mapped leaves it unmapped already.
OwnInv ==
    /\ own \in [mem : BOOLEAN, fd : BOOLEAN, buf : {"null", "failed", "mapped", "gone"},
                stat : {"none", "page", "sync"}, late : BOOLEAN, twice : BOOLEAN]
    /\ handle = "ready" => ~own.late
    /\ (handle = "failed" /\ Mmap) => (own.buf = "gone" <=> own.late)
    /\ OwnsWhatItSays

\* Every exit of pcm_open before the ring is mapped.
LEMMA EarlyOwns ==
    ASSUME NEW f, flags' = f, OpenFailsEarly(f)
    PROVE  OwnInv'
<1> DEFINE alloced == [Nothing EXCEPT !.mem = TRUE]
           opened == [alloced EXCEPT !.fd = TRUE]
           unmapped == [opened EXCEPT !.buf = "failed"]
<1>1. \/ handle' = "bad" /\ own' \in {Nothing, alloced}
      \/ /\ handle' = "failed"
         /\ own' \in {alloced, FailClose(opened), Fail(opened), FailClose(unmapped)}
  BY DEF OpenFailsEarly
<1>2. ASSUME \/ handle' = "bad" /\ own'.mem \in BOOLEAN
             \/ handle' = "failed" /\ own'.mem = TRUE,
             own' \in [mem : BOOLEAN, fd : {FALSE}, buf : {"null", "failed"},
                       stat : {"none"}, late : {FALSE}, twice : {FALSE}]
      PROVE  OwnInv'
  BY <1>2 DEF OwnInv, OwnsWhatItSays
<1>3. CASE handle' = "bad" /\ own' = Nothing
  BY <1>2, <1>3 DEF Nothing
<1>4. CASE handle' \in {"bad", "failed"} /\ own' = alloced
  BY <1>2, <1>4 DEF Nothing
<1>5. CASE handle' = "failed" /\ own' = FailClose(opened)
  BY <1>2, <1>5 DEF Nothing, FailClose
<1>6. CASE handle' = "failed" /\ own' = Fail(opened)
  BY <1>2, <1>6 DEF Nothing, Fail
<1>7. CASE handle' = "failed" /\ own' = FailClose(unmapped)
  BY <1>2, <1>7 DEF Nothing, FailClose
<1> QED
  BY <1>1, <1>3, <1>4, <1>5, <1>6, <1>7

\* Every exit after it, and success.
LEMMA LateOwns ==
    ASSUME NEW f, flags' = f, OpenFailsLate(f) \/ OpenSucceeds(f)
    PROVE  OwnInv'
<1> DEFINE buf == IF "MMAP" \in f THEN "mapped" ELSE "null"
           gone == IF "MMAP" \in f THEN "gone" ELSE "null"
<1>1. CASE OpenFailsLate(f)
  <2> DEFINE mapped == [Nothing EXCEPT !.mem = TRUE, !.fd = TRUE, !.late = TRUE, !.buf = buf]
             Left == [mem : {TRUE}, fd : {FALSE}, buf : {gone},
                      stat : {"none", "page", "sync"}, late : {TRUE}, twice : {FALSE}]
  <2>3. \/ own' = Fail(mapped)
        \/ \E s \in {"page", "sync"} : own' = Fail([mapped EXCEPT !.stat = s])
    BY <1>1 DEF OpenFailsLate, hw_mmap_status
  <2>4. ASSUME own' = Fail(mapped) PROVE own' \in Left
    BY <2>4 DEF Fail, Nothing
  <2>5. ASSUME NEW s \in {"page", "sync"}, own' = Fail([mapped EXCEPT !.stat = s])
        PROVE  own' \in Left
    BY <2>5 DEF Fail, Nothing
  <2>1. own' \in Left
    BY <2>3, <2>4, <2>5
  <2>2. handle' = "failed"
    BY <1>1 DEF OpenFailsLate
  <2> QED
    BY <2>1, <2>2 DEF OwnInv, OwnsWhatItSays, Mmap
<1>2. CASE OpenSucceeds(f)
  <2>1. \E s \in {"page", "sync"} :
           own' = [mem |-> TRUE, fd |-> TRUE, buf |-> buf, stat |-> s,
                   late |-> FALSE, twice |-> FALSE]
    BY <1>2 DEF OpenSucceeds, Nothing, hw_mmap_status
  <2>2. handle' = "ready"
    BY <1>2 DEF OpenSucceeds
  <2> QED
    BY <2>1, <2>2 DEF OwnInv, OwnsWhatItSays, Mmap
<1> QED
  BY <1>1, <1>2

\* pcm_close finds the ring as OwnInv says.
LEMMA CloseOwns ==
    ASSUME OwnInv, pcm_close
    PROVE  OwnInv'
<1>1. /\ handle \in {"ready", "failed"} /\ handle' = "closed"
      /\ flags' = flags /\ own' = CloseOwned(own)
  BY DEF pcm_close
<1>2. own' = [mem |-> FALSE, fd |-> FALSE, stat |-> "none", late |-> own.late,
              buf |-> IF Mmap /\ own.buf = "mapped" THEN "gone" ELSE own.buf,
              twice |-> Mmap /\ own.buf = "gone"]
  BY <1>1 DEF CloseOwned, OwnInv
<1>3. (Mmap' <=> Mmap) /\ Mmap \in BOOLEAN
  BY <1>1 DEF Mmap
<1>4. Mmap => (own.buf = "gone" <=> own.late)
  BY <1>1 DEF OwnInv, OwnsWhatItSays
<1>5. own.buf \in {"null", "failed", "mapped", "gone"} /\ own.late \in BOOLEAN
      /\ (own.buf = "mapped" => Mmap)
  BY DEF OwnInv, OwnsWhatItSays
<1>6. own' \in [mem : BOOLEAN, fd : BOOLEAN, buf : {"null", "failed", "mapped", "gone"},
                stat : {"none", "page", "sync"}, late : BOOLEAN, twice : BOOLEAN]
  BY <1>2, <1>3, <1>5
<1>7. /\ ~own'.mem /\ ~own'.fd /\ own'.stat = "none" /\ own'.buf # "mapped"
      /\ own'.twice <=> (Mmap' /\ own'.late)
  BY <1>2, <1>3, <1>4, <1>5
<1> QED
  BY <1>1, <1>6, <1>7 DEF OwnInv, OwnsWhatItSays

\* Whatever exit pcm_open takes the handle owns what its state says, pcm_close
\* leaves nothing allocated, open or mapped, and it unmaps the ring a second
\* time exactly after a pcm_open that failed with the ring mapped.
THEOREM HandleOwns == Spec => []OwnsWhatItSays
<1>1. Init => OwnInv
  BY DEF Init, OwnInv, OwnsWhatItSays, Nothing
<1>2. OwnInv /\ [Next]_vars => OwnInv'
  <2> SUFFICES ASSUME OwnInv, [Next]_vars PROVE OwnInv'
    OBVIOUS
  <2>1. ASSUME NEW f \in FlagSets, pcm_open(f) PROVE OwnInv'
    BY <2>1, EarlyOwns, LateOwns DEF pcm_open
  <2>2. CASE pcm_close
    BY <2>2, CloseOwns
  <2>3. ASSUME UNCHANGED <<handle, flags, own>> PROVE OwnInv'
    BY <2>3 DEF OwnInv, OwnsWhatItSays, Mmap
  <2>4. CASE pcm_start \/ pcm_stop \/ pcm_get_htimestamp \/ HwTick \/ KernelStops
    BY <2>3, <2>4 DEF pcm_start, pcm_stop, pcm_get_htimestamp, HwTick, KernelStops,
       stream, device
  <2>5. ASSUME NEW a \in AvailMins, pcm_set_avail_min(a) PROVE OwnInv'
    BY <2>3, <2>5 DEF pcm_set_avail_min
  <2>6. ASSUME NEW op, NEW n, Call(op, n) PROVE OwnInv'
    BY <2>3, <2>6 DEF Call, stream, device
  <2>7. CASE UserStep \/ WaitInterrupted
    BY <2>3, <2>7 DEF UserStep, WaitInterrupted, XferRunning, XferStart, XferSome,
       XferCut, XferXrun, XferFails, TransferTop, TransferDone, DecideWait,
       DecideCopy, WaitReady, WaitBroken, WaitFails, mmap_begin, mmap_commit,
       stream, device
  <2>8. CASE UNCHANGED vars
    BY <2>3, <2>8 DEF vars
  <2> QED
    BY <2>1, <2>2, <2>4, <2>5, <2>6, <2>7, <2>8 DEF Next
<1>3. OwnInv => OwnsWhatItSays
  BY DEF OwnInv
<1> QED
  BY <1>1, <1>2, <1>3, PTL DEF Spec

-----------------------------------------------------------------------------
(* The invariant of the calls.                                             *)

\* The stream as opened.
Device ==
    /\ handle \in {"none", "bad", "ready", "failed", "closed"}
    /\ flags \in SUBSET {"IN", "MMAP", "NOIRQ", "NORESTART", "MONOTONIC"}
    /\ thr \in Nat \ {0} /\ amin \in Nat
    /\ handle = "ready" => flags \in FlagSets

\* The pointers lie below the wrap point or on it, and only an open stream runs.
Pointers ==
    /\ kst \in {"setup", "prepared", "running", "xrun", "suspended", "disconnected"}
    /\ hw_ptr \in 0 .. (boundary - 1)
    /\ appl_ptr \in 0 .. boundary
    /\ kappl \in 0 .. boundary
    /\ running \in BOOLEAN /\ wait_for_avail_min \in BOOLEAN /\ stale \in BOOLEAN
    /\ kst = "running" => handle = "ready"

\* The call under way: what is asked for in one round is part of what is left,
\* and no area is open outside pcm_mmap_transfer_areas.
Shape ==
    /\ pc \in {"idle", "xfer", "ioctl", "top", "decide", "wait", "begin", "commit"}
    /\ call \in [op : {"none", "write", "read", "mmap_write", "mmap_read"},
                 count : Nat, left : Nat, avail : Int, size : Nat, frames : Nat]
    /\ call.left <= call.count
    /\ call.size <= call.left
    /\ call.frames <= call.size
    /\ pc # "idle" => call.op # "none" /\ handle = "ready"
    /\ pc \notin {"begin", "commit"} => call.size = 0
    /\ pc # "commit" => call.frames = 0

\* After the top of the loop the stream runs, or too few frames are there to
\* start it.
Decided ==
    pc = "decide" =>
        /\ call.left > 0 /\ call.avail >= 0
        /\ running \/ ~ReachesThreshold(call.avail)

\* The area about to be copied ends in the ring.
AreaInRing ==
    pc = "commit" => (appl_ptr % BufferSize) + call.frames <= BufferSize

CallInv == Device /\ Pointers /\ Shape /\ Decided /\ AreaInRing

\* The type invariant is part of it.
LEMMA CallInvTypes == CallInv => TypeOK
BY DEF CallInv, Device, Pointers, Shape, TypeOK

\* Only pcm_open, pcm_close and pcm_set_avail_min touch the stream as opened.
LEMMA DeviceStep ==
    ASSUME CallInv, [Next]_vars
    PROVE  Device'
<1> USE PcmAssumption DEF CallInv, Device
<1>1. ASSUME NEW f \in FlagSets, pcm_open(f) PROVE Device'
  <2>1. flags' = f /\ thr' \in Nat \ {0} /\ amin' \in Nat
    BY <1>1 DEF pcm_open
  <2>2. handle' \in {"bad", "failed", "ready"}
    BY <1>1 DEF pcm_open, OpenFailsEarly, OpenFailsLate, OpenSucceeds
  <2>3. flags' \in SUBSET {"IN", "MMAP", "NOIRQ", "NORESTART", "MONOTONIC"}
    BY <2>1
  <2> QED
    BY <2>1, <2>2, <2>3
<1>2. CASE pcm_close
  BY <1>2 DEF pcm_close
<1>3. ASSUME UNCHANGED <<handle, flags, thr, amin>> PROVE Device'
  BY <1>3
<1>4. CASE pcm_start \/ pcm_stop \/ pcm_get_htimestamp \/ HwTick \/ KernelStops
  BY <1>3, <1>4 DEF pcm_start, pcm_stop, pcm_get_htimestamp, HwTick, KernelStops,
     stream, device
<1>5. ASSUME NEW a \in AvailMins, pcm_set_avail_min(a) PROVE Device'
  BY <1>5 DEF pcm_set_avail_min
<1>6. ASSUME NEW op, NEW n, Call(op, n) PROVE Device'
  BY <1>3, <1>6 DEF Call, stream, device
<1>7. CASE UserStep \/ WaitInterrupted
  BY <1>3, <1>7 DEF UserStep, WaitInterrupted, XferRunning, XferStart, XferSome,
     XferCut, XferXrun, XferFails, TransferTop, TransferDone, DecideWait,
     DecideCopy, WaitReady, WaitBroken, WaitFails, mmap_begin, mmap_commit,
     stream, device
<1>8. CASE UNCHANGED vars
  BY <1>3, <1>8 DEF vars
<1> QED
  BY <1>1, <1>2, <1>4, <1>5, <1>6, <1>7, <1>8 DEF Next

\* A restart puts hw_ptr at zero and appl_ptr at zero or where it was.
LEMMA PreparePointers ==
    ASSUME CallInv, NEW kept \in BOOLEAN, Prepare(kept)
    PROVE  /\ hw_ptr' \in 0 .. (boundary - 1)
           /\ appl_ptr' \in 0 .. boundary /\ kappl' = appl_ptr'
           /\ stale' \in BOOLEAN
<1>1. boundary \in Nat /\ boundary > 0
  BY PcmAssumption, BoundaryFacts
<1>2. hw_ptr' = 0 /\ (appl_ptr' = 0 \/ appl_ptr' = appl_ptr) /\ kappl' = appl_ptr'
  BY DEF Prepare, Appl
<1>3. stale' \in BOOLEAN
  BY DEF Prepare
<1> QED
  BY <1>1, <1>2, <1>3 DEF CallInv, Pointers

\* So do both outcomes of pcm_start.
LEMMA StartPointers ==
    ASSUME CallInv, handle = "ready", handle' = handle,
           NEW told \in 0 .. boundary, Started \/ StartFails(told),
           wait_for_avail_min' \in BOOLEAN
    PROVE  Pointers'
<1>1. Keeps \in BOOLEAN
  BY DEF Keeps, Mmap
<1>2. CASE Started
  BY <1>1, <1>2, PreparePointers DEF Started, Pointers
<1>3. CASE UNCHANGED <<kernel, appl_ptr, stale, running>> /\ kappl' = told
  BY <1>3 DEF CallInv, Pointers, kernel
<1>4. CASE Prepare(Keeps) /\ kst' = "prepared" /\ UNCHANGED running
  BY <1>1, <1>4, PreparePointers DEF Pointers, CallInv
<1> QED
  BY <1>2, <1>3, <1>4 DEF StartFails

\* pcm_mmap_appl_forward stays below the wrap point or on it.
LEMMA ForwardPointer ==
    ASSUME CallInv, pc = "commit"
    PROVE  appl_forward(call.frames) \in 0 .. boundary
<1> DEFINE c == appl_ptr % BufferSize
           n == call.frames
<1>1. BufferSize \in Nat \ {0} /\ boundary \in Nat /\ boundary >= BufferSize
  BY PcmAssumption, BoundaryFacts
<1>2. appl_ptr \in Int /\ 0 <= appl_ptr /\ appl_ptr <= boundary
  BY <1>1 DEF CallInv, Pointers
<1>3. c \in Int /\ 0 <= c
  BY <1>1, <1>2, ModRange
<1>4. n \in Nat
  BY DEF CallInv, Shape
<1>5. c + n <= BufferSize
  BY DEF CallInv, AreaInRing
<1> HIDE DEF c, n
<1>6. n <= boundary
  BY <1>1, <1>3, <1>4, <1>5
<1>7. appl_forward(n) \in 0 .. boundary
  BY <1>1, <1>2, <1>4, <1>6 DEF appl_forward
<1> QED
  BY <1>7 DEF n

\* Every step keeps the pointers in range, hardware steps included.
LEMMA PointersStep ==
    ASSUME CallInv, [Next]_vars
    PROVE  Pointers'
<1>1. /\ BufferSize \in Nat \ {0} /\ boundary \in Nat \ {0}
      /\ 0 \in 0 .. (boundary - 1) /\ 0 \in 0 .. boundary
  BY PcmAssumption, BoundaryFacts
<1>2. CASE pcm_close \/ \E f \in FlagSets : pcm_open(f)
  BY <1>1, <1>2 DEF pcm_close, pcm_open, Appl, Pointers
<1>3. ASSUME handle' = handle, UNCHANGED <<kernel, appl, stale>>,
             running' \in BOOLEAN, wait_for_avail_min' \in BOOLEAN
      PROVE  Pointers'
  BY <1>3 DEF CallInv, Pointers, kernel, appl
<1>4. kappl \in 0 .. boundary /\ appl_ptr \in 0 .. boundary
      /\ running \in BOOLEAN /\ wait_for_avail_min \in BOOLEAN
  BY DEF CallInv, Pointers
<1>5. pc # "idle" => handle = "ready"
  BY DEF CallInv, Shape
<1>6. CASE pcm_start
  BY <1>4, <1>6, StartPointers DEF pcm_start, device
<1>7. CASE pcm_stop
  BY <1>7 DEF pcm_stop, CallInv, Pointers, stream, device, appl
<1>8. CASE pcm_get_htimestamp
  BY <1>8 DEF pcm_get_htimestamp, CallInv, Pointers, stream, device, kernel
<1>9. CASE HwTick
  <2> DEFINE hw == (hw_ptr + 1) % boundary
  <2>1. hw_ptr \in Int
    BY DEF CallInv, Pointers
  <2>2. hw \in Int /\ 0 <= hw /\ hw < boundary
    BY <1>1, <2>1, ModRange
  <2>3. hw \in 0 .. (boundary - 1)
    BY <1>1, <2>2
  <2>4. hw_ptr' = hw /\ kst' \in {"xrun", "running"} /\ kst = "running"
    BY <1>9 DEF HwTick
  <2> HIDE DEF hw
  <2> QED
    BY <1>9, <2>3, <2>4 DEF HwTick, CallInv, Pointers, stream, device, appl
<1>10. ASSUME NEW a, NEW op, NEW n, pcm_set_avail_min(a) \/ Call(op, n)
       PROVE  Pointers'
  BY <1>3, <1>4, <1>10 DEF pcm_set_avail_min, Call, stream, device
<1>11. CASE XferRunning \/ XferCut \/ XferXrun \/ XferFails \/ TransferDone
            \/ DecideWait \/ WaitReady \/ mmap_begin
  BY <1>3, <1>4, <1>11 DEF XferRunning, XferCut, XferXrun, XferFails,
     TransferDone, DecideWait, WaitReady, mmap_begin, stream, device
<1>12. CASE DecideCopy
  BY <1>3, <1>4, <1>12 DEF DecideCopy, stream, device
<1>13. CASE XferStart
  <2>1. handle = "ready" /\ handle' = handle /\ wait_for_avail_min' \in BOOLEAN
    BY <1>4, <1>5, <1>13 DEF XferStart, device
  <2>2. CASE Prepare(FALSE) /\ kst' = "prepared" /\ UNCHANGED running
    BY <1>4, <2>1, <2>2, PreparePointers DEF Pointers
  <2>3. CASE Started \/ StartFails(kappl)
    BY <1>4, <2>1, <2>3, StartPointers
  <2> QED
    BY <1>13, <2>2, <2>3 DEF XferStart
<1>14. CASE TransferTop
  <2>1. handle = "ready" /\ handle' = handle
    BY <1>5, <1>14 DEF TransferTop, device
  <2>2. CASE Started /\ wait_for_avail_min' = FALSE
    BY <1>4, <2>1, <2>2, StartPointers
  <2>3. CASE StartFails(appl_ptr) /\ UNCHANGED wait_for_avail_min
    BY <1>4, <2>1, <2>3, StartPointers
  <2>4. CASE Appl(appl_ptr) /\ UNCHANGED <<kernel, running, wait_for_avail_min, stale>>
    BY <2>1, <2>4 DEF Appl, CallInv, Pointers, kernel
  <2> QED
    BY <1>14, <2>2, <2>3, <2>4 DEF TransferTop
<1>15. CASE XferSome
  <2> DEFINE k == Lesser(call.left, Room)
             ap == (appl_ptr + k) % boundary
  <2>1. /\ call.left \in Int /\ appl_ptr \in Int /\ kappl \in Int /\ hw_ptr \in Int
    BY DEF CallInv, Shape, Pointers
  <2>2. Room \in Int
    <3>1. CASE In
      BY <1>1, <2>1, <3>1, ModRange DEF Room, RoomAt
    <3>2. CASE ~In
      BY <1>1, <2>1, <3>2, ModRange DEF Room, RoomAt
    <3> QED
      BY <3>1, <3>2
  <2>3. k \in Int
    BY <2>1, <2>2 DEF Lesser
  <2>4. ap \in Int /\ 0 <= ap /\ ap < boundary
    <3> HIDE DEF k
    <3> QED
      BY <1>1, <2>1, <2>3, ModRange
  <2>5. ap \in 0 .. boundary
    <3> HIDE DEF ap
    <3> QED
      BY <1>1, <2>4
  <2>6. /\ appl_ptr' = ap /\ kappl' = ap /\ hw_ptr' = hw_ptr
        /\ kst' \in {"running", kst} /\ handle' = handle /\ handle = "ready"
        /\ UNCHANGED <<stale, wait_for_avail_min>>
        /\ running' \in {TRUE, running}
    BY <1>5, <1>15 DEF XferSome, Appl, stream, device
  <2> HIDE DEF ap
  <2> QED
    BY <2>5, <2>6 DEF CallInv, Pointers
<1>16. CASE WaitBroken \/ WaitInterrupted
  <2>1. PICK e : WaitFails(e)
    BY <1>16 DEF WaitBroken, WaitInterrupted
  <2>2. kappl' = kappl \/ kappl' = 0
    BY <2>1 DEF WaitFails
  <2> QED
    BY <1>1, <2>1, <2>2 DEF WaitFails, CallInv, Pointers, device, kernel
<1>17. CASE mmap_commit
  <2>1. /\ appl_ptr' \in 0 .. boundary /\ kappl' = appl_ptr'
        /\ stale' \in BOOLEAN
    BY <1>17, ForwardPointer DEF mmap_commit, Appl
  <2> QED
    BY <1>17, <2>1 DEF mmap_commit, CallInv, Pointers, device, kernel
<1>18. CASE UNCHANGED vars
  BY <1>3, <1>4, <1>18 DEF vars, kernel, appl
<1>19. CASE KernelStops
  BY <1>19 DEF KernelStops, CallInv, Pointers, stream, device, appl
<1> QED
  BY <1>2, <1>6, <1>7, <1>8, <1>9, <1>10, <1>11, <1>12, <1>13, <1>14, <1>15,
     <1>16, <1>17, <1>18, <1>19 DEF Next, UserStep

\* Every step keeps the counts of the call in order.
LEMMA ShapeStep ==
    ASSUME CallInv, [Next]_vars
    PROVE  Shape'
<1>1. Shape /\ TypeOK
  BY CallInvTypes DEF CallInv
<1>2. ASSUME call' = NoCall, pc' = "idle" PROVE Shape'
  BY <1>2 DEF Shape, NoCall
<1>3. CASE pcm_close \/ \E f \in FlagSets : pcm_open(f)
  BY <1>2, <1>3 DEF pcm_close, pcm_open
<1>4. ASSUME UNCHANGED <<call, pc, handle>> PROVE Shape'
  BY <1>1, <1>4 DEF Shape
<1>5. CASE pcm_start \/ pcm_stop \/ pcm_get_htimestamp \/ HwTick \/ KernelStops
           \/ \E a \in AvailMins : pcm_set_avail_min(a)
  BY <1>4, <1>5 DEF pcm_start, pcm_stop, pcm_get_htimestamp, HwTick, KernelStops,
     pcm_set_avail_min, stream, device
<1>6. ASSUME NEW op \in {"write", "read", "mmap_write", "mmap_read"},
             NEW n \in 1 .. MaxCount, Call(op, n)
      PROVE  Shape'
  <2>1. call' = [op |-> op, count |-> n, left |-> n, avail |-> 0,
                 size |-> 0, frames |-> 0]
    BY <1>6 DEF Call, NoCall
  <2>2. pc' \in {"top", "xfer"} /\ handle' = "ready"
    BY <1>6 DEF Call, stream, device
  <2>3. n \in Nat
    BY PcmAssumption
  <2> QED
    BY <2>1, <2>2, <2>3 DEF Shape
<1>7. CASE XferCut \/ XferFails \/ TransferDone \/ WaitBroken \/ WaitInterrupted
  BY <1>2, <1>7 DEF XferCut, XferFails, TransferDone, WaitBroken, WaitInterrupted,
     WaitFails, Return
<1>8. ASSUME NEW p \in {"xfer", "ioctl", "top", "wait"}, Goto(p), handle' = handle,
             pc \in {"xfer", "ioctl", "decide", "wait"}
      PROVE  Shape'
  BY <1>1, <1>8 DEF Shape, Goto
<1>9. CASE XferRunning \/ DecideWait \/ WaitReady
  BY <1>8, <1>9 DEF XferRunning, DecideWait, WaitReady, stream, device
<1>10. CASE XferStart
  BY <1>2, <1>8, <1>10 DEF XferStart, Return, device
<1>11. CASE XferXrun
  BY <1>2, <1>8, <1>11 DEF XferXrun, Broken, Restart, Return, stream, device
<1>12. CASE XferSome
  <2> DEFINE k == Lesser(call.left, Room)
  <2>1. CASE call.left = k
    BY <1>2, <1>12, <2>1 DEF XferSome, Return
  <2>2. CASE call.left # k
    <3>1. call' = [call EXCEPT !.left = @ - k] /\ pc' = pc /\ handle' = handle
          /\ pc = "ioctl"
      BY <1>12, <2>2 DEF XferSome, stream, device
    <3>2. call.left \in Nat /\ call.count \in Nat /\ call.left <= call.count
          /\ call.size = 0 /\ call.frames = 0
      BY <1>1, <3>1 DEF Shape
    <3>3. boundary \in Nat \ {0} /\ Room > 0
      BY <1>12, PcmAssumption, BoundaryFacts DEF XferSome
    <3>4. Room \in Int
      <4>1. hw_ptr \in Int /\ kappl \in Int /\ BufferSize \in Int
        BY <1>1, PcmAssumption DEF TypeOK
      <4>2. CASE In
        BY <3>3, <4>1, <4>2, ModRange DEF Room, RoomAt
      <4>3. CASE ~In
        BY <3>3, <4>1, <4>3, ModRange DEF Room, RoomAt
      <4> QED
        BY <4>2, <4>3
    <3>5. k \in Nat /\ k <= call.left
      BY <3>2, <3>3, <3>4 DEF Lesser
    <3> HIDE DEF k
    <3>6. call.left - k \in Nat /\ call.left - k <= call.count
      BY <3>2, <3>5
    <3> QED
      BY <1>1, <3>1, <3>2, <3>6 DEF Shape
  <2> QED
    BY <2>1, <2>2
<1>13. CASE TransferTop
  <2>1. CASE call' = NoCall /\ pc' = "idle"
    BY <1>2, <2>1
  <2>2. CASE call' = [call EXCEPT !.avail = mmap_avail] /\ pc' = "decide"
    <3>1. pc = "top" /\ handle' = handle
      BY <1>13 DEF TransferTop, device
    <3>2. mmap_avail \in Int
      BY <1>1, AvailNatural
    <3> QED
      BY <1>1, <2>2, <3>1, <3>2 DEF Shape
  <2> QED
    BY <1>13, <2>1, <2>2 DEF TransferTop, Return
<1>14. CASE DecideCopy
  <2> DEFINE n == Lesser(call.left, call.avail)
  <2>1. CASE n = 0
    BY <1>2, <1>14, <2>1 DEF DecideCopy, Return
  <2>2. CASE n # 0
    <3>1. /\ call' = [call EXCEPT !.size = n, !.avail = 0] /\ pc' = "begin"
          /\ pc = "decide" /\ handle' = handle
      BY <1>14, <2>2 DEF DecideCopy, stream, device
    <3>2. call.left \in Nat /\ call.avail \in Int /\ call.avail >= 0 /\ call.frames = 0
      BY <3>1 DEF CallInv, Shape, Decided
    <3>3. n \in Nat /\ n <= call.left
      BY <3>2 DEF Lesser
    <3> HIDE DEF n
    <3>4. call' = [op |-> call.op, count |-> call.count, left |-> call.left,
                   avail |-> 0, size |-> n, frames |-> call.frames]
      BY <1>1, <3>1 DEF Shape
    <3> QED
      BY <1>1, <3>1, <3>2, <3>3, <3>4 DEF Shape
  <2> QED
    BY <2>1, <2>2
<1>15. CASE mmap_begin
  <2> DEFINE n == Area(call.size)
             m == mmap_avail
  <2>1. /\ call' = [call EXCEPT !.frames = n, !.avail = m] /\ pc' = "commit"
        /\ pc = "begin" /\ handle' = handle
    BY <1>15 DEF mmap_begin, stream, device
  <2>2. call.size \in Nat
    BY <1>1 DEF Shape
  <2>3. n \in Nat /\ n <= call.size
    BY <1>1, <2>2, AreaBounds
  <2>4. m \in Int
    BY <1>1, AvailNatural
  <2> HIDE DEF n, m
  <2> QED
    BY <1>1, <2>1, <2>3, <2>4 DEF Shape
<1>16. CASE mmap_commit
  <2>1. /\ call' = [call EXCEPT !.left = @ - call.frames, !.size = @ - call.frames,
                                !.frames = 0, !.avail = 0]
        /\ pc' = (IF call.size = call.frames THEN "top" ELSE "begin")
        /\ pc = "commit" /\ handle' = handle
    BY <1>16 DEF mmap_commit, device
  <2>2. /\ call.left \in Nat /\ call.size \in Nat /\ call.frames \in Nat
        /\ call.count \in Nat /\ call.left <= call.count
        /\ call.size <= call.left /\ call.frames <= call.size
    BY <1>1 DEF Shape
  <2>3. /\ call'.left = call.left - call.frames
        /\ call'.size = call.size - call.frames
        /\ call'.frames = 0 /\ call'.count = call.count /\ call'.op = call.op
    BY <1>1, <2>1 DEF Shape
  <2>4. /\ call.left - call.frames \in Nat /\ call.size - call.frames \in Nat
        /\ call.left - call.frames <= call.count
        /\ call.size - call.frames <= call.left - call.frames
        /\ 0 <= call.size - call.frames
        /\ call.size = call.frames => call.size - call.frames = 0
    BY <2>2
  <2>5. call' \in [op : {"none", "write", "read", "mmap_write", "mmap_read"},
                   count : Nat, left : Nat, avail : Int, size : Nat, frames : Nat]
    <3> DEFINE l == call.left - call.frames
               z == call.size - call.frames
    <3>1. call' = [op |-> call.op, count |-> call.count, left |-> l,
                   avail |-> 0, size |-> z, frames |-> 0]
      BY <1>1, <2>1 DEF Shape
    <3>2. l \in Nat /\ z \in Nat
      BY <2>4
    <3> HIDE DEF l, z
    <3> QED
      BY <1>1, <3>1, <3>2 DEF Shape
  <2> QED
    BY <1>1, <2>1, <2>3, <2>4, <2>5 DEF Shape
<1>17. CASE UNCHANGED vars
  BY <1>4, <1>17 DEF vars
<1> QED
  BY <1>3, <1>5, <1>6, <1>7, <1>9, <1>10, <1>11, <1>12, <1>13, <1>14, <1>15,
     <1>16, <1>17 DEF Next, UserStep

\* Where a step can lead: "decide" and "commit" are entered at one place each,
\* and only the hardware moves while the call is there.
LEMMA EnterDecideOrCommit ==
    ASSUME CallInv, [Next]_vars, pc' \in {"decide", "commit"}
    PROVE  \/ pc' = "decide" /\ TransferTop
           \/ pc' = "commit" /\ mmap_begin
           \/ HwTick /\ pc' = pc
           \/ KernelStops /\ pc' = pc
           \/ UNCHANGED vars
<1>1. CASE pcm_close \/ (\E f \in FlagSets : pcm_open(f)) \/ pcm_start \/ pcm_stop
           \/ pcm_get_htimestamp \/ (\E a \in AvailMins : pcm_set_avail_min(a))
  BY <1>1 DEF pcm_close, pcm_open, pcm_start, pcm_stop, pcm_get_htimestamp,
     pcm_set_avail_min
<1>2. ASSUME NEW op, NEW n, Call(op, n) PROVE FALSE
  BY <1>2 DEF Call
<1>3. CASE XferRunning \/ XferStart \/ XferSome \/ XferCut \/ XferXrun \/ XferFails
  BY <1>3 DEF XferRunning, XferStart, XferSome, XferCut, XferXrun, XferFails,
     Broken, Restart, Goto, Return
<1>4. CASE TransferDone \/ DecideWait \/ WaitReady \/ WaitBroken \/ WaitInterrupted
           \/ mmap_commit
  BY <1>4 DEF TransferDone, DecideWait, WaitReady, WaitBroken, WaitInterrupted,
     WaitFails, mmap_commit, Goto, Return
<1>5. CASE DecideCopy
  BY <1>5 DEF DecideCopy, Return
<1>6. CASE TransferTop
  BY <1>6 DEF TransferTop, Return
<1>7. CASE mmap_begin
  BY <1>7 DEF mmap_begin
<1>8. CASE HwTick \/ KernelStops
  BY <1>8 DEF HwTick, KernelStops
<1> QED
  BY <1>1, <1>2, <1>3, <1>4, <1>5, <1>6, <1>7, <1>8 DEF Next, UserStep

\* The decision whether to start the stream is taken on the count it was
\* computed from.
LEMMA DecidedStep ==
    ASSUME CallInv, [Next]_vars
    PROVE  Decided'
<1> SUFFICES ASSUME pc' = "decide"
             PROVE  /\ call'.left > 0 /\ call'.avail >= 0
                    /\ running' \/ ~ReachesThreshold(call.avail)'
  BY DEF Decided
<1>1. CASE UNCHANGED <<pc, call, running, thr>>
  BY <1>1 DEF CallInv, Decided, ReachesThreshold
<1>2. CASE TransferTop
  <2> DEFINE m == mmap_avail
  <2>1. m \in Nat
    BY CallInvTypes, AvailNatural
  <2>2. /\ call' = [call EXCEPT !.avail = m] /\ call.left > 0 /\ thr' = thr
        /\ running' = TRUE \/ (running' = running /\ (running \/ ~ReachesThreshold(m)))
    BY <1>2 DEF TransferTop, Return, Started, device
  <2> HIDE DEF m
  <2>3. call'.left = call.left /\ call'.avail = m
    BY <2>2 DEF CallInv, Shape
  <2>4. running' \/ ~ReachesThreshold(call.avail)'
    BY <2>2, <2>3 DEF ReachesThreshold
  <2> QED
    BY <2>1, <2>2, <2>3, <2>4
<1>3. CASE mmap_begin
  BY <1>3 DEF mmap_begin
<1> QED
  BY <1>1, <1>2, <1>3, EnterDecideOrCommit DEF HwTick, KernelStops, stream, device, vars

\* The hardware does not move the area pcm_mmap_begin has chosen.
LEMMA AreaInRingStep ==
    ASSUME CallInv, [Next]_vars
    PROVE  AreaInRing'
<1> SUFFICES ASSUME pc' = "commit"
             PROVE  ((appl_ptr % BufferSize) + call.frames <= BufferSize)'
  BY DEF AreaInRing
<1>1. CASE UNCHANGED <<pc, call, appl_ptr>>
  BY <1>1 DEF CallInv, AreaInRing
<1>2. CASE mmap_begin
  <2>1. call'.frames = Area(call.size) /\ appl_ptr' = appl_ptr /\ call.size \in Nat
    BY <1>2 DEF mmap_begin, CallInv, Shape, appl
  <2> QED
    BY <2>1, CallInvTypes, AreaBounds
<1> QED
  BY <1>1, <1>2, EnterDecideOrCommit DEF HwTick, KernelStops, appl, vars

\* The invariant of the calls.
THEOREM CallsInductive == Spec => []CallInv
<1>1. Init => CallInv
  <2>1. boundary \in Nat \ {0} /\ 0 \in 0 .. (boundary - 1) /\ 0 \in 0 .. boundary
    BY PcmAssumption, BoundaryFacts
  <2> SUFFICES ASSUME Init PROVE CallInv
    OBVIOUS
  <2>2. Device
    BY DEF Init, Device
  <2>3. Pointers
    BY <2>1 DEF Init, Pointers
  <2>4. Shape
    BY DEF Init, Shape, NoCall
  <2>5. Decided /\ AreaInRing
    BY DEF Init, Decided, AreaInRing
  <2> QED
    BY <2>2, <2>3, <2>4, <2>5 DEF CallInv
<1>2. CallInv /\ [Next]_vars => CallInv'
  BY DeviceStep, PointersStep, ShapeStep, DecidedStep, AreaInRingStep DEF CallInv
<1> QED
  BY <1>1, <1>2, PTL DEF Spec

\* Both pointers stay between zero and the wrap point and the counts of a
\* transfer in order, for every ring and every INT_MAX.
THEOREM PcmTypeCorrect == Spec => []TypeOK
BY CallsInductive, CallInvTypes, PTL

-----------------------------------------------------------------------------
(* What the answer of a transfer means.                                    *)

\* A transfer that answers 0 with frames missing was cut short by the kernel,
\* or its thresholds let a full ring neither start nor wait.  The latter needs
\* the count of the decision: a stream that does not run was not started
\* because start_threshold is more than the ring holds.
THEOREM AnswerIsWhole == Spec => []TransferWhole
<1>1. Init => TransferWhole
  BY DEF Init, TransferWhole
<1>2. CallInv /\ TransferWhole /\ [Next]_vars => TransferWhole'
  <2> SUFFICES ASSUME CallInv, TransferWhole, [Next]_vars PROVE TransferWhole'
    OBVIOUS
  <2>1. ASSUME ret' = ret \/ ret' = [op |-> "none"] PROVE TransferWhole'
    BY <2>1 DEF TransferWhole
  <2>2. ASSUME NEW r, NEW m, NEW c, Return(r, m, c),
               r # "ok" \/ m = 0 \/ c = TRUE \/ thr > BufferSize \/ amin = 0
        PROVE  TransferWhole'
    <3> DEFINE st == thr > BufferSize \/ amin = 0
    <3>1. ret' = [op |-> call.op, val |-> r, missing |-> m, cut |-> c, stalled |-> st]
      BY <2>2 DEF Return
    <3>2. ret'.val = r /\ ret'.missing = m /\ ret'.cut = c /\ ret'.stalled = st
      BY <3>1
    <3>3. CASE r # "ok" \/ c = TRUE \/ st
      BY <3>2, <3>3 DEF TransferWhole
    <3>4. CASE m = 0
      BY <3>2, <3>4 DEF TransferWhole
    <3> QED
      BY <2>2, <3>3, <3>4
  <2>3. CASE pcm_close \/ (\E f \in FlagSets : pcm_open(f)) \/ pcm_start \/ pcm_stop
             \/ pcm_get_htimestamp \/ (\E a \in AvailMins : pcm_set_avail_min(a))
             \/ HwTick \/ KernelStops \/ UNCHANGED vars
    <3>1. ret' = ret \/ ret' = [op |-> "none"]
      BY <2>3 DEF pcm_close, pcm_open, pcm_start, pcm_stop, pcm_get_htimestamp,
         pcm_set_avail_min, HwTick, KernelStops, vars
    <3> QED
      BY <2>1, <3>1
  <2>4. ASSUME NEW op, NEW n, Call(op, n) PROVE TransferWhole'
    BY <2>1, <2>4 DEF Call
  <2>5. CASE XferRunning \/ DecideWait \/ WaitReady \/ mmap_begin \/ mmap_commit
    BY <2>1, <2>5 DEF XferRunning, DecideWait, WaitReady, mmap_begin, mmap_commit, Goto
  <2>6. CASE XferStart
    BY <2>1, <2>2, <2>6 DEF XferStart, Goto
  <2>7. CASE XferSome
    BY <2>1, <2>2, <2>7 DEF XferSome
  <2>8. CASE XferCut \/ XferFails \/ TransferDone
    BY <2>2, <2>8 DEF XferCut, XferFails, TransferDone
  <2>9. CASE XferXrun
    BY <2>1, <2>2, <2>9 DEF XferXrun, Restart, Goto
  <2>10. CASE WaitBroken \/ WaitInterrupted
    <3>1. PICK e : WaitFails(e) /\ e # "ok"
      BY <2>10 DEF WaitBroken, WaitInterrupted, StateError
    <3> QED
      BY <2>2, <3>1 DEF WaitFails
  <2>11. CASE TransferTop
    BY <2>1, <2>2, <2>11 DEF TransferTop
  <2>12. CASE DecideCopy
    <3> DEFINE n == Lesser(call.left, call.avail)
    <3>1. CASE n # 0
      BY <2>1, <2>12, <3>1 DEF DecideCopy
    <3>2. CASE n = 0
      <4>1. Return("ok", call.left, FALSE) /\ pc = "decide" /\ ~MustWait
        BY <2>12, <3>2 DEF DecideCopy
      <4>2. /\ call.left \in Nat /\ call.left > 0
            /\ call.avail \in Int /\ call.avail >= 0
        BY <4>1 DEF CallInv, Shape, Decided
      <4>3. call.avail = 0
        BY <3>2, <4>2 DEF Lesser
      <4>4. CASE running
        <5>1. ~(call.avail < amin)
          BY <4>1, <4>2, <4>3, <4>4 DEF MustWait, WantsWait
        <5>2. amin = 0
          BY <4>3, <5>1 DEF CallInv, Device
        <5> QED
          BY <2>2, <4>1, <5>2
      <4>5. CASE ~running
        <5>1. ~ReachesThreshold(0)
          BY <4>1, <4>3, <4>5 DEF CallInv, Decided
        <5> DEFINE w == 2 * (IntMax + 1)
        <5>2. /\ BufferSize \in Nat /\ w \in Nat \ {0} /\ BufferSize < w
              /\ BufferSize - 0 = BufferSize
          BY PcmAssumption
        <5> HIDE DEF w
        <5>3. BufferSize % w = BufferSize
          BY <5>2, ModNearby
        <5>4. ~(BufferSize >= thr)
          BY <5>1, <5>2, <5>3 DEF ReachesThreshold, Unsigned, w
        <5>5. thr > BufferSize
          BY <5>2, <5>4 DEF CallInv, Device
        <5> QED
          BY <2>2, <4>1, <5>5
      <4> QED
        BY <4>4, <4>5
    <3> QED
      BY <3>1, <3>2
  <2> QED
    BY <2>3, <2>4, <2>5, <2>6, <2>7, <2>8, <2>9, <2>10, <2>11, <2>12
    DEF Next, UserStep
<1> QED
  BY <1>1, <1>2, CallsInductive, PTL DEF Spec

-----------------------------------------------------------------------------
(* The ring: what is copied, against what the hardware may touch.          *)

\* Room for given pointers.
RoomOf(in, hw, ap) == (IF in THEN hw - ap ELSE hw + BufferSize - ap) % boundary

\* It is the distance of the pointers, corrected by one lap.
LEMMA RoomLinear ==
    ASSUME NEW hw \in 0 .. (boundary - 1), NEW ap \in 0 .. boundary
    PROVE  /\ RoomOf(TRUE, hw, ap) = IF hw < ap THEN hw - ap + boundary ELSE hw - ap
           /\ RoomOf(FALSE, hw, ap)
                = IF hw + BufferSize < ap THEN hw + BufferSize - ap + boundary
                  ELSE IF hw + BufferSize - ap < boundary THEN hw + BufferSize - ap
                  ELSE hw + BufferSize - ap - boundary
<1> DEFINE x == hw - ap
           y == hw + BufferSize - ap
<1>1. BufferSize \in Nat /\ boundary \in Nat \ {0} /\ BufferSize <= boundary
  BY PcmAssumption, BoundaryFacts
<1>2. /\ hw \in Int /\ 0 <= hw /\ hw < boundary
      /\ ap \in Int /\ 0 <= ap /\ ap <= boundary
  BY <1>1
<1>3. /\ x \in Int /\ -boundary <= x /\ x < 2 * boundary
      /\ y \in Int /\ -boundary <= y /\ y < 2 * boundary
  BY <1>1, <1>2
<1> HIDE DEF x, y
<1>4. /\ x % boundary = IF x < 0 THEN x + boundary ELSE IF x < boundary THEN x ELSE x - boundary
      /\ y % boundary = IF y < 0 THEN y + boundary ELSE IF y < boundary THEN y ELSE y - boundary
  BY <1>1, <1>3, ModNearby
<1>5. RoomOf(TRUE, hw, ap) = x % boundary /\ RoomOf(FALSE, hw, ap) = y % boundary
  BY DEF RoomOf, x, y
<1> DEFINE r == RoomOf(TRUE, hw, ap)
           s == RoomOf(FALSE, hw, ap)
<1>6. /\ r = IF x < 0 THEN x + boundary ELSE IF x < boundary THEN x ELSE x - boundary
      /\ s = IF y < 0 THEN y + boundary ELSE IF y < boundary THEN y ELSE y - boundary
  BY <1>4, <1>5
<1> HIDE DEF r, s
<1>7. r = IF hw < ap THEN hw - ap + boundary ELSE hw - ap
  BY <1>1, <1>2, <1>6 DEF x
<1>8. s = IF hw + BufferSize < ap THEN hw + BufferSize - ap + boundary
          ELSE IF hw + BufferSize - ap < boundary THEN hw + BufferSize - ap
          ELSE hw + BufferSize - ap - boundary
  BY <1>1, <1>2, <1>6 DEF y
<1> QED
  BY <1>7, <1>8 DEF r, s

\* Room is a natural number below the wrap point.
LEMMA RoomNatural ==
    ASSUME NEW in \in BOOLEAN, NEW hw \in 0 .. (boundary - 1), NEW ap \in 0 .. boundary
    PROVE  RoomOf(in, hw, ap) \in Nat /\ RoomOf(in, hw, ap) < boundary
<1>1. BufferSize \in Nat /\ boundary \in Nat \ {0} /\ BufferSize <= boundary
  BY PcmAssumption, BoundaryFacts
<1> DEFINE x == IF in THEN hw - ap ELSE hw + BufferSize - ap
<1>2. x \in Int
  BY <1>1
<1> HIDE DEF x
<1>3. x % boundary \in Int /\ 0 <= x % boundary /\ x % boundary < boundary
  BY <1>1, <1>2, ModRange
<1>4. RoomOf(in, hw, ap) = x % boundary
  BY DEF RoomOf, x
<1> QED
  BY <1>3, <1>4

\* Moving appl_ptr over n free frames takes n away, across the wrap.
LEMMA RoomForward ==
    ASSUME NEW in \in BOOLEAN, NEW hw \in 0 .. (boundary - 1), NEW ap \in 0 .. boundary,
           NEW n \in Nat, n <= RoomOf(in, hw, ap),
           NEW to \in 0 .. boundary, to = ap + n \/ to = ap + n - boundary
    PROVE  RoomOf(in, hw, to) = RoomOf(in, hw, ap) - n
<1>1. BufferSize \in Nat /\ boundary \in Nat \ {0} /\ BufferSize <= boundary
  BY PcmAssumption, BoundaryFacts
<1>2. /\ hw \in Int /\ 0 <= hw /\ hw < boundary
      /\ ap \in Int /\ 0 <= ap /\ ap <= boundary
      /\ to \in Int /\ 0 <= to /\ to <= boundary
  BY <1>1
<1>3. CASE in = TRUE
  <2> DEFINE r == RoomOf(TRUE, hw, ap)
             s == RoomOf(TRUE, hw, to)
  <2>1. /\ r = IF hw < ap THEN hw - ap + boundary ELSE hw - ap
        /\ s = IF hw < to THEN hw - to + boundary ELSE hw - to
        /\ n <= r
    BY <1>3, RoomLinear
  <2> HIDE DEF r, s
  <2>2. s = r - n
    BY <1>1, <1>2, <2>1
  <2> QED
    BY <1>3, <2>2 DEF r, s
<1>4. CASE in = FALSE
  <2> DEFINE r == RoomOf(FALSE, hw, ap)
             s == RoomOf(FALSE, hw, to)
  <2>1. /\ r = IF hw + BufferSize < ap THEN hw + BufferSize - ap + boundary
               ELSE IF hw + BufferSize - ap < boundary THEN hw + BufferSize - ap
               ELSE hw + BufferSize - ap - boundary
        /\ s = IF hw + BufferSize < to THEN hw + BufferSize - to + boundary
               ELSE IF hw + BufferSize - to < boundary THEN hw + BufferSize - to
               ELSE hw + BufferSize - to - boundary
        /\ n <= r
    BY <1>4, RoomLinear
  <2> HIDE DEF r, s
  <2>2. s = r - n
    BY <1>1, <1>2, <2>1
  <2> QED
    BY <1>4, <2>2 DEF r, s
<1> QED
  BY <1>3, <1>4

\* One frame played or captured adds one, short of a full lap.
LEMMA RoomTick ==
    ASSUME NEW in \in BOOLEAN, NEW hw \in 0 .. (boundary - 1), NEW ap \in 0 .. boundary,
           RoomOf(in, hw, ap) + 1 < boundary
    PROVE  RoomOf(in, (hw + 1) % boundary, ap) = RoomOf(in, hw, ap) + 1
<1> DEFINE to == (hw + 1) % boundary
           x == hw + 1
<1>1. BufferSize \in Nat /\ boundary \in Nat \ {0} /\ BufferSize <= boundary
  BY PcmAssumption, BoundaryFacts
<1>2. /\ hw \in Int /\ 0 <= hw /\ hw < boundary
      /\ ap \in Int /\ 0 <= ap /\ ap <= boundary
  BY <1>1
<1>3. x \in Int /\ -boundary <= x /\ x < 2 * boundary /\ 0 <= x /\ x <= boundary
  BY <1>1, <1>2
<1> HIDE DEF x
<1>4. x % boundary = IF x < boundary THEN x ELSE x - boundary
  BY <1>1, <1>3, ModNearby
<1>5. to = IF hw + 1 < boundary THEN hw + 1 ELSE 0
  BY <1>1, <1>2, <1>3, <1>4 DEF x
<1> HIDE DEF to
<1>6. to \in 0 .. (boundary - 1)
  BY <1>1, <1>2, <1>5
<1>7. CASE in = TRUE
  <2> DEFINE r == RoomOf(TRUE, hw, ap)
             s == RoomOf(TRUE, to, ap)
  <2>1. /\ r = IF hw < ap THEN hw - ap + boundary ELSE hw - ap
        /\ s = IF to < ap THEN to - ap + boundary ELSE to - ap
        /\ r + 1 < boundary
    BY <1>6, <1>7, RoomLinear
  <2> HIDE DEF r, s
  <2>2. s = r + 1
    BY <1>1, <1>2, <1>5, <2>1
  <2> QED
    BY <1>7, <2>2 DEF r, s, to
<1>8. CASE in = FALSE
  <2> DEFINE r == RoomOf(FALSE, hw, ap)
             s == RoomOf(FALSE, to, ap)
  <2>1. /\ r = IF hw + BufferSize < ap THEN hw + BufferSize - ap + boundary
               ELSE IF hw + BufferSize - ap < boundary THEN hw + BufferSize - ap
               ELSE hw + BufferSize - ap - boundary
        /\ s = IF to + BufferSize < ap THEN to + BufferSize - ap + boundary
               ELSE IF to + BufferSize - ap < boundary THEN to + BufferSize - ap
               ELSE to + BufferSize - ap - boundary
        /\ r + 1 < boundary
    BY <1>6, <1>8, RoomLinear
  <2> HIDE DEF r, s
  <2>2. s = r + 1
    BY <1>1, <1>2, <1>5, <2>1
  <2> QED
    BY <1>8, <2>2 DEF r, s, to
<1> QED
  BY <1>7, <1>8

\* What pcm_mmap_avail computes is the room, or the wrap point for a full
\* playback ring.
LEMMA AvailIsRoom ==
    ASSUME TypeOK
    PROVE  \/ mmap_avail = RoomOf(In, hw_ptr, appl_ptr)
           \/ ~In /\ mmap_avail = boundary
<1>1. BufferSize \in Nat /\ boundary \in Nat \ {0} /\ BufferSize <= boundary
  BY PcmAssumption, BoundaryFacts
<1>2. hw_ptr \in 0 .. (boundary - 1) /\ appl_ptr \in 0 .. boundary
  BY DEF TypeOK
<1>3. /\ hw_ptr \in Int /\ 0 <= hw_ptr /\ hw_ptr < boundary
      /\ appl_ptr \in Int /\ 0 <= appl_ptr /\ appl_ptr <= boundary
  BY <1>1, <1>2
<1>4. CASE In
  <2>1. RoomOf(TRUE, hw_ptr, appl_ptr) = capture_avail
    <3> DEFINE r == RoomOf(TRUE, hw_ptr, appl_ptr)
    <3>1. r = IF hw_ptr < appl_ptr THEN hw_ptr - appl_ptr + boundary
              ELSE hw_ptr - appl_ptr
      BY <1>2, RoomLinear
    <3> HIDE DEF r
    <3>2. r = capture_avail
      BY <1>1, <1>3, <3>1 DEF capture_avail
    <3> QED
      BY <3>2 DEF r
  <2>2. RoomOf(In, hw_ptr, appl_ptr) = RoomOf(TRUE, hw_ptr, appl_ptr)
    BY <1>4 DEF RoomOf
  <2> QED
    BY <1>4, <2>1, <2>2 DEF mmap_avail
<1>5. CASE ~In
  <2> DEFINE r == RoomOf(FALSE, hw_ptr, appl_ptr)
  <2>1. r = IF hw_ptr + BufferSize < appl_ptr
            THEN hw_ptr + BufferSize - appl_ptr + boundary
            ELSE IF hw_ptr + BufferSize - appl_ptr < boundary
            THEN hw_ptr + BufferSize - appl_ptr
            ELSE hw_ptr + BufferSize - appl_ptr - boundary
    BY <1>2, RoomLinear
  <2> HIDE DEF r
  <2>2. playback_avail = r \/ playback_avail = boundary
    BY <1>1, <1>3, <2>1 DEF playback_avail
  <2>3. RoomOf(In, hw_ptr, appl_ptr) = r
    BY <1>5 DEF RoomOf, r
  <2> QED
    BY <1>5, <2>2, <2>3 DEF mmap_avail
<1> QED
  BY <1>4, <1>5

\* Between the top of the loop and the copy the kernel has the application's
\* pointer, and it has it always unless the pointers are stale.
KernelTold ==
    /\ pc \in {"decide", "wait", "begin", "commit"} => kappl = appl_ptr
    /\ ~stale => kappl = appl_ptr

\* A playback ring whose pointers are not stale has at most BufferSize frames
\* of room, and less while it plays.
RingSpace ==
    (~In /\ ~stale) =>
        /\ Room <= BufferSize
        /\ kst = "running" => Room < BufferSize

\* The area is free, and the hardware is not about to lap it.
AreaSpace ==
    (pc = "commit" /\ call.avail <= BufferSize) =>
        /\ call.frames <= Room
        /\ kst = "running" => Room <= BufferSize \/ Room < StopThreshold

\* A count no ring can have comes from stale pointers or from a full ring.
ImpossibleCount ==
    (pc = "commit" /\ ~In /\ call.avail > BufferSize)
        => stale \/ call.avail = boundary

RingInv == KernelTold /\ RingSpace /\ AreaSpace /\ ImpossibleCount

\* Every step keeps the kernel informed.
LEMMA KernelToldStep ==
    ASSUME CallInv, KernelTold, [Next]_vars
    PROVE  KernelTold'
<1>1. ASSUME kappl' = appl_ptr' PROVE KernelTold'
  BY <1>1 DEF KernelTold
<1>2. ASSUME NEW k \in BOOLEAN, Prepare(k) PROVE kappl' = appl_ptr'
  BY <1>2 DEF Prepare, Appl
<1>3. Keeps \in BOOLEAN /\ FALSE \in BOOLEAN
  BY DEF Keeps, Mmap
<1>4. ASSUME Started PROVE KernelTold'
  BY <1>1, <1>2, <1>3, <1>4 DEF Started
<1>5. ASSUME NEW told \in {kappl, appl_ptr}, StartFails(told), pc' = "idle"
      PROVE  KernelTold'
  BY <1>1, <1>2, <1>3, <1>5 DEF StartFails, KernelTold
<1>6. CASE pcm_close \/ \E f \in FlagSets : pcm_open(f)
  BY <1>1, <1>6 DEF pcm_close, pcm_open, Appl
<1>7. CASE pcm_start
  BY <1>4, <1>5, <1>7 DEF pcm_start
<1>8. CASE pcm_get_htimestamp
  BY <1>1, <1>8 DEF pcm_get_htimestamp
<1>9. ASSUME UNCHANGED <<appl, stale>>,
             \/ pc' \in {"idle", "xfer", "ioctl", "top"}
             \/ pc \in {"decide", "wait", "begin", "commit"}
      PROVE  KernelTold'
  BY <1>9 DEF KernelTold, appl
<1>10. CASE pcm_stop \/ \E a \in AvailMins : pcm_set_avail_min(a)
  BY <1>9, <1>10 DEF pcm_stop, pcm_set_avail_min, stream
<1>11. CASE HwTick \/ KernelStops \/ UNCHANGED vars
  BY <1>11 DEF HwTick, KernelStops, vars, stream, appl, KernelTold
<1>12. ASSUME NEW op, NEW n, Call(op, n) PROVE KernelTold'
  BY <1>9, <1>12 DEF Call, stream
<1>13. CASE XferRunning \/ XferCut \/ XferXrun \/ XferFails \/ TransferDone
            \/ DecideWait \/ DecideCopy \/ WaitReady \/ mmap_begin
  <2>1. UNCHANGED <<appl, stale>>
    BY <1>13 DEF XferRunning, XferCut, XferXrun, XferFails, TransferDone,
       DecideWait, DecideCopy, WaitReady, mmap_begin, stream
  <2>2. \/ pc' \in {"idle", "xfer", "ioctl", "top"}
        \/ pc \in {"decide", "wait", "begin", "commit"}
    BY <1>13 DEF XferRunning, XferCut, XferXrun, XferFails, TransferDone,
       DecideWait, DecideCopy, WaitReady, mmap_begin, Restart, Goto, Return
  <2> QED
    BY <1>9, <2>1, <2>2
<1>14. CASE XferStart
  BY <1>1, <1>2, <1>3, <1>4, <1>5, <1>14 DEF XferStart, Return
<1>15. CASE TransferTop
  BY <1>1, <1>4, <1>5, <1>15 DEF TransferTop, Return, Appl
<1>16. CASE XferSome \/ mmap_commit
  <2>1. PICK a : Appl(a)
    BY <1>16 DEF XferSome, mmap_commit
  <2> QED
    BY <1>1, <2>1 DEF Appl
<1>17. CASE WaitBroken \/ WaitInterrupted
  BY <1>17 DEF WaitBroken, WaitInterrupted, WaitFails, Return, KernelTold
<1> QED
  BY <1>6, <1>7, <1>8, <1>10, <1>11, <1>12, <1>13, <1>14, <1>15, <1>16, <1>17
  DEF Next, UserStep

\* A playback ring that starts over is empty.
LEMMA EmptyRoom ==
    ASSUME RingFits
    PROVE  RoomOf(FALSE, 0, 0) = BufferSize
<1> DEFINE r == RoomOf(FALSE, 0, 0)
<1>1. BufferSize \in Nat \ {0} /\ boundary \in Nat /\ BufferSize < boundary
  BY PcmAssumption, BoundaryFacts DEF RingFits
<1>2. 0 \in 0 .. (boundary - 1) /\ 0 \in 0 .. boundary
  BY <1>1
<1>3. r = IF 0 + BufferSize < 0 THEN 0 + BufferSize - 0 + boundary
          ELSE IF 0 + BufferSize - 0 < boundary THEN 0 + BufferSize - 0
          ELSE 0 + BufferSize - 0 - boundary
  BY <1>2, RoomLinear
<1> HIDE DEF r
<1>4. r = BufferSize
  BY <1>1, <1>3
<1> QED
  BY <1>4 DEF r

\* A ring whose pointers are both zero, or were not stale, has room for at most
\* BufferSize frames after a restart.
LEMMA RestartRoom ==
    ASSUME RingFits, CallInv, KernelTold, RingSpace, NEW kept \in BOOLEAN,
           Prepare(kept), flags' = flags, ~In, ~stale'
    PROVE  /\ Room' <= BufferSize
           /\ Room' = RoomAt(0, IF kept THEN appl_ptr ELSE 0)
<1>1. BufferSize \in Nat \ {0} /\ boundary \in Nat /\ BufferSize < boundary
  BY PcmAssumption, BoundaryFacts DEF RingFits
<1> DEFINE ap == IF kept THEN appl_ptr ELSE 0
<1>2. hw_ptr' = 0 /\ kappl' = ap /\ (ap = 0 \/ (~stale /\ hw_ptr = 0))
  BY DEF Prepare, Appl
<1>3. Room' = RoomAt(0, ap)
  BY <1>2 DEF Room, RoomAt, In
<1>4. CASE ap = 0
  <2>1. RoomAt(0, 0) = RoomOf(FALSE, 0, 0)
    BY DEF RoomAt, RoomOf
  <2>2. RoomAt(0, ap) = BufferSize
    BY <1>4, <2>1, EmptyRoom
  <2> HIDE DEF ap
  <2>3. Room' <= BufferSize
    BY <1>1, <1>3, <2>2
  <2> QED
    BY <1>3, <2>3 DEF ap
<1>5. CASE ap # 0
  <2>1. ~stale /\ hw_ptr = 0 /\ kept /\ kappl = appl_ptr
    BY <1>2, <1>5 DEF KernelTold
  <2>2. Room' = Room
    BY <1>3, <2>1 DEF Room
  <2> QED
    BY <1>3, <2>1, <2>2 DEF RingSpace
<1> QED
  BY <1>4, <1>5

\* The room of a state, as a function of its pointers.
LEMMA StateRoom ==
    ASSUME CallInv
    PROVE  /\ Room = RoomOf(In, hw_ptr, kappl)
           /\ In \in BOOLEAN
           /\ Room \in Nat /\ Room < boundary
<1>1. hw_ptr \in 0 .. (boundary - 1) /\ kappl \in 0 .. boundary
  BY DEF CallInv, Pointers
<1>2. In \in BOOLEAN
  BY DEF In
<1>3. Room = RoomOf(In, hw_ptr, kappl)
  BY DEF Room, RoomAt, RoomOf
<1> QED
  BY <1>1, <1>2, <1>3, RoomNatural

\* A tick adds a frame of room, and the stream stops at StopThreshold.
LEMMA TickRoom ==
    ASSUME CallInv, HwTick, Room + 1 < boundary
    PROVE  /\ Room' = Room + 1
           /\ kst' = "running" => Room + 1 < StopThreshold
<1> DEFINE hw == (hw_ptr + 1) % boundary
<1>1. hw_ptr \in 0 .. (boundary - 1) /\ kappl \in 0 .. boundary
  BY DEF CallInv, Pointers
<1>2. RoomOf(In, hw, kappl) = Room + 1
  BY <1>1, StateRoom, RoomTick
<1>3. RoomAt(hw, kappl) = RoomOf(In, hw, kappl)
  BY DEF RoomAt, RoomOf
<1>4. /\ hw_ptr' = hw /\ kappl' = kappl /\ flags' = flags
      /\ kst' = IF RoomAt(hw, kappl) >= StopThreshold THEN "xrun" ELSE "running"
  BY DEF HwTick, stream, device, appl
<1> HIDE DEF hw
<1>5. Room' = RoomAt(hw, kappl)
  BY <1>4 DEF Room, RoomAt, In
<1>6. kst' = "running" => ~(Room + 1 >= StopThreshold)
  BY <1>2, <1>3, <1>4
<1>7. Room + 1 \in Nat /\ StopThreshold \in Nat
  BY StateRoom, PcmAssumption
<1>8. kst' = "running" => Room + 1 < StopThreshold
  <2> DEFINE r == Room + 1
  <2> HIDE DEF r
  <2>1. r \in Nat /\ StopThreshold \in Nat /\ (kst' = "running" => ~(r >= StopThreshold))
    BY <1>6, <1>7 DEF r
  <2>2. kst' = "running" => r < StopThreshold
    BY <2>1
  <2> QED
    BY <2>2 DEF r
<1> QED
  BY <1>2, <1>3, <1>5, <1>8

\* Every step keeps the room of a playback ring that is not stale.
LEMMA RingSpaceStep ==
    ASSUME RingFits, CallInv, CallInv', RingInv, [Next]_vars
    PROVE  RingSpace'
<1> DEFINE Goal == Room' <= BufferSize /\ (kst' = "running" => Room' < BufferSize)
<1> SUFFICES ASSUME ~In', ~stale' PROVE Goal
  BY DEF RingSpace
<1>1. /\ BufferSize \in Nat \ {0} /\ boundary \in Nat /\ BufferSize < boundary
      /\ StopThreshold \in Nat
  BY PcmAssumption, BoundaryFacts DEF RingFits
<1>2. /\ KernelTold /\ RingSpace /\ AreaSpace /\ ImpossibleCount
      /\ Room \in Nat
  BY StateRoom DEF RingInv
<1>3. ASSUME flags' = flags, hw_ptr' = hw_ptr, kappl' = kappl, ~stale,
             kst' = "running" => kst = "running"
      PROVE  Goal
  <2>1. Room' = Room /\ ~In
    BY <1>3 DEF Room, RoomAt, In
  <2> QED
    BY <1>2, <1>3, <2>1 DEF RingSpace
<1>4. CASE pcm_close \/ \E f \in FlagSets : pcm_open(f)
  <2>1. hw_ptr' = 0 /\ kappl' = 0 /\ kst' = "setup"
    BY <1>4 DEF pcm_close, pcm_open, Appl
  <2>2. Room' = RoomOf(FALSE, 0, 0)
    BY <2>1 DEF Room, RoomAt, RoomOf
  <2>3. Room' = BufferSize
    BY <2>2, EmptyRoom
  <2> QED
    BY <1>1, <2>1, <2>3
<1>5. Keeps \in BOOLEAN
  BY DEF Keeps, Mmap
<1>6. ASSUME Started, flags' = flags PROVE Goal
  <2>1. Prepare(Keeps) /\ ~In /\ RoomAt(0, IF Keeps THEN appl_ptr ELSE 0) < BufferSize
    BY <1>6 DEF Started, In
  <2>2. Room' <= BufferSize /\ Room' = RoomAt(0, IF Keeps THEN appl_ptr ELSE 0)
    BY <1>2, <1>5, <1>6, <2>1, RestartRoom
  <2> QED
    BY <2>1, <2>2
<1>7. ASSUME NEW kept \in BOOLEAN, Prepare(kept), kst' = "prepared", flags' = flags
      PROVE  Goal
  <2>1. ~In
    BY <1>7 DEF In
  <2> QED
    BY <1>2, <1>7, <2>1, RestartRoom
<1>8. ASSUME NEW told \in {kappl, appl_ptr}, StartFails(told), flags' = flags
      PROVE  Goal
  <2>1. CASE UNCHANGED <<kernel, appl_ptr, stale>> /\ kappl' = told
    <3>1. ~stale /\ kappl' = kappl /\ hw_ptr' = hw_ptr /\ kst' = kst
      BY <1>2, <1>8, <2>1 DEF KernelTold, kernel
    <3> QED
      BY <1>3, <1>8, <3>1
  <2>2. CASE Prepare(Keeps) /\ kst' = "prepared"
    BY <1>5, <1>7, <1>8, <2>2
  <2> QED
    BY <1>8, <2>1, <2>2 DEF StartFails
<1>9. CASE pcm_start
  BY <1>6, <1>8, <1>9 DEF pcm_start, device
<1>10. CASE pcm_stop \/ pcm_get_htimestamp \/ KernelStops
            \/ \E a \in AvailMins : pcm_set_avail_min(a)
  BY <1>3, <1>10 DEF pcm_stop, pcm_get_htimestamp, KernelStops,
     pcm_set_avail_min, stream, device, kernel, appl
<1>11. ASSUME NEW op, NEW n, Call(op, n) PROVE Goal
  BY <1>3, <1>11 DEF Call, stream, device, kernel, appl
<1>12. CASE XferRunning \/ XferCut \/ XferXrun \/ XferFails \/ TransferDone
            \/ DecideWait \/ DecideCopy \/ WaitReady \/ mmap_begin
  BY <1>3, <1>12 DEF XferRunning, XferCut, XferXrun, XferFails, TransferDone,
     DecideWait, DecideCopy, WaitReady, mmap_begin, stream, device, kernel, appl
<1>13. CASE XferStart
  BY <1>6, <1>7, <1>8, <1>13 DEF XferStart, device
<1>14. CASE TransferTop
  <2>1. flags' = flags
    BY <1>14 DEF TransferTop, device
  <2>2. CASE Started \/ StartFails(appl_ptr)
    BY <1>6, <1>8, <2>1, <2>2
  <2>3. CASE Appl(appl_ptr) /\ UNCHANGED <<kernel, running, wait_for_avail_min, stale>>
    <3>1. ~stale /\ kappl' = kappl /\ hw_ptr' = hw_ptr /\ kst' = kst
      BY <1>2, <2>3 DEF KernelTold, kernel, Appl
    <3> QED
      BY <1>3, <2>1, <3>1
  <2> QED
    BY <1>14, <2>2, <2>3 DEF TransferTop
<1>15. CASE WaitBroken \/ WaitInterrupted
  BY <1>15 DEF WaitBroken, WaitInterrupted, WaitFails
<1>16. CASE HwTick
  <2>1. kst = "running" /\ ~In /\ ~stale
    BY <1>16 DEF HwTick, stream, device, In
  <2>2. Room < BufferSize
    BY <1>2, <2>1 DEF RingSpace
  <2>3. Room + 1 < boundary
    BY <1>1, <1>2, <2>2
  <2>4. Room' = Room + 1 /\ (kst' = "running" => Room + 1 < StopThreshold)
    BY <1>16, <2>3, TickRoom
  <2>5. StopThreshold <= BufferSize
    BY <2>1 DEF RingFits, CallInv, Pointers, Device, In
  <2> QED
    BY <1>1, <1>2, <2>2, <2>4, <2>5
<1>17. CASE UNCHANGED vars
  BY <1>3, <1>17 DEF vars
<1>18. ASSUME NEW n \in Nat, n <= Room, kappl = appl_ptr, kappl' = appl_ptr',
              appl_ptr' = appl_ptr + n \/ appl_ptr' = appl_ptr + n - boundary,
              hw_ptr' = hw_ptr, flags' = flags
       PROVE  Room' = Room - n
  <2>1. /\ hw_ptr \in 0 .. (boundary - 1) /\ appl_ptr \in 0 .. boundary
        /\ appl_ptr' \in 0 .. boundary
    BY DEF CallInv, Pointers
  <2>2. Room = RoomOf(In, hw_ptr, appl_ptr) /\ In \in BOOLEAN
    BY <1>18, StateRoom
  <2>3. Room' = RoomOf(In, hw_ptr, appl_ptr')
    BY <1>18 DEF Room, RoomAt, RoomOf, In
  <2>4. RoomOf(In, hw_ptr, appl_ptr') = RoomOf(In, hw_ptr, appl_ptr) - n
    BY <1>18, <2>1, <2>2, RoomForward
  <2> QED
    BY <2>2, <2>3, <2>4
<1>19. CASE XferSome
  <2> DEFINE k == Lesser(call.left, Room)
             ap == (appl_ptr + k) % boundary
  <2>1. ~In /\ ~stale /\ flags' = flags /\ hw_ptr' = hw_ptr /\ Room > 0
    BY <1>19 DEF XferSome, stream, device, In
  <2>2. kappl = appl_ptr
    BY <1>2, <2>1 DEF KernelTold
  <2>3. call.left \in Nat /\ thr \in Nat \ {0} /\ appl_ptr \in 0 .. boundary
    BY DEF CallInv, Shape, Device, Pointers
  <2>4. k \in Nat /\ k <= Room
    BY <1>2, <2>3 DEF Lesser
  <2>5. appl_ptr' = ap /\ kappl' = ap
    BY <1>19 DEF XferSome, Appl
  <2>6. kst' = IF ~In /\ BufferSize - RoomAt(hw_ptr, ap) >= thr THEN "running" ELSE kst
    BY <1>19 DEF XferSome
  <2>7. ap = appl_ptr + k \/ ap = appl_ptr + k - boundary
    <3> DEFINE x == appl_ptr + k
    <3> HIDE DEF k
    <3>1. x \in Int /\ -boundary <= x /\ x < 2 * boundary /\ 0 <= x
      BY <1>1, <2>3, <2>4, StateRoom
    <3> HIDE DEF x
    <3>2. boundary \in Nat \ {0}
      BY <1>1
    <3>3. x % boundary = IF x < 0 THEN x + boundary
                         ELSE IF x < boundary THEN x ELSE x - boundary
      BY <3>1, <3>2, ModNearby
    <3>4. ap = x % boundary
      BY DEF x
    <3> HIDE DEF ap
    <3>5. ap = x \/ ap = x - boundary
      BY <3>1, <3>2, <3>3, <3>4
    <3> QED
      BY <1>1, <2>3, <2>4, <3>5 DEF x
  <2> HIDE DEF k, ap
  <2>8. Room' = Room - k
    BY <1>18, <2>1, <2>2, <2>4, <2>5, <2>7
  <2>9. Room' = RoomAt(hw_ptr, ap)
    BY <2>1, <2>5 DEF Room, RoomAt, In
  <2>10. kst' = "running" => kst = "running" \/ BufferSize - Room' >= thr
    BY <2>6, <2>9
  <2>11. Room <= BufferSize /\ (kst = "running" => Room < BufferSize)
    BY <1>2, <2>1 DEF RingSpace
  <2> QED
    BY <1>1, <1>2, <2>3, <2>4, <2>8, <2>10, <2>11
<1>20. CASE mmap_commit
  <2> DEFINE n == call.frames
  <2>1. /\ pc = "commit" /\ ~In /\ ~stale /\ call.avail # boundary
        /\ hw_ptr' = hw_ptr /\ flags' = flags /\ kst' = kst
    BY <1>20 DEF mmap_commit, device, kernel, In
  <2>2. n \in Nat /\ call.avail \in Int
    BY DEF CallInv, Shape
  <2>3. call.avail <= BufferSize
    BY <1>1, <1>2, <2>1, <2>2 DEF ImpossibleCount
  <2>4. n <= Room /\ kappl = appl_ptr
    BY <1>2, <2>1, <2>3 DEF AreaSpace, KernelTold
  <2>5. appl_ptr \in 0 .. boundary
    BY DEF CallInv, Pointers
  <2>6. /\ kappl' = appl_ptr'
        /\ appl_ptr' = appl_ptr + n \/ appl_ptr' = appl_ptr + n - boundary
    <3>1. kappl' = appl_forward(n) /\ appl_ptr' = appl_forward(n)
      BY <1>20 DEF mmap_commit, Appl
    <3> HIDE DEF n
    <3>2. appl_forward(n) = appl_ptr + n \/ appl_forward(n) = appl_ptr + n - boundary
      BY <1>1, <2>2, <2>5 DEF appl_forward
    <3> QED
      BY <3>1, <3>2
  <2> HIDE DEF n
  <2>7. Room' = Room - n
    BY <1>18, <2>1, <2>2, <2>4, <2>6
  <2>8. Room <= BufferSize /\ (kst = "running" => Room < BufferSize)
    BY <1>2, <2>1 DEF RingSpace
  <2> QED
    BY <1>1, <1>2, <2>1, <2>2, <2>4, <2>7, <2>8
<1> QED
  BY <1>4, <1>9, <1>10, <1>11, <1>12, <1>13, <1>14, <1>15, <1>16, <1>17, <1>19,
     <1>20 DEF Next, UserStep

\* The area chosen from the room stays free while the hardware moves on: the
\* stream stops before it has gone round.
LEMMA AreaSpaceStep ==
    ASSUME RingFits, CallInv, RingInv, [Next]_vars
    PROVE  AreaSpace' /\ ImpossibleCount'
<1>1. /\ BufferSize \in Nat \ {0} /\ boundary \in Nat /\ BufferSize + 1 < boundary
      /\ StopThreshold \in Nat /\ StopThreshold < boundary
  BY PcmAssumption, BoundaryFacts DEF RingFits
<1>2. KernelTold /\ RingSpace /\ AreaSpace /\ ImpossibleCount
  BY DEF RingInv
<1>3. Room \in Nat /\ Room = RoomOf(In, hw_ptr, kappl)
  BY StateRoom
<1>4. CASE pc' # "commit"
  BY <1>4 DEF AreaSpace, ImpossibleCount
<1>5. CASE mmap_begin
  <2> DEFINE m == mmap_avail
             n == Area(call.size)
  <2>1. /\ call'.avail = m /\ call'.frames = n /\ pc = "begin"
        /\ UNCHANGED <<stale, flags, hw_ptr, kappl, kst>>
    BY <1>5 DEF mmap_begin, CallInv, Shape, stream, device, kernel, appl
  <2>2. kappl = appl_ptr /\ call.size \in Nat
    BY <1>2, <2>1 DEF KernelTold, CallInv, Shape
  <2>3. m \in Nat /\ n \in Nat /\ n <= m
    BY <2>2, CallInvTypes, AvailNatural, AreaBounds
  <2>4. m = Room \/ (~In /\ m = boundary)
    BY <1>3, <2>2, CallInvTypes, AvailIsRoom
  <2>5. Room' = Room /\ (In' <=> In)
    BY <2>1 DEF Room, RoomAt, In
  <2> HIDE DEF m, n
  <2>6. AreaSpace'
    <3> SUFFICES ASSUME call'.avail <= BufferSize
                 PROVE  call'.frames <= Room' /\ Room' <= BufferSize
      BY DEF AreaSpace
    <3>1. m = Room
      BY <1>1, <2>1, <2>3, <2>4
    <3> QED
      BY <2>1, <2>3, <2>5, <3>1
  <2>7. ImpossibleCount'
    <3> SUFFICES ASSUME ~In', call'.avail > BufferSize, call'.avail # boundary
                 PROVE  stale'
      BY DEF ImpossibleCount
    <3>1. m = Room /\ m > BufferSize /\ ~In
      BY <2>1, <2>4, <2>5
    <3>2. ~(Room <= BufferSize)
      BY <1>1, <1>3, <3>1
    <3>3. stale
      BY <1>2, <3>1, <3>2 DEF RingSpace
    <3> QED
      BY <2>1, <3>3
  <2> QED
    BY <2>6, <2>7
<1>6. CASE HwTick /\ pc' = pc /\ pc' = "commit"
  <2>1. UNCHANGED <<call, stale, flags>> /\ kst = "running" /\ pc = "commit"
    BY <1>6 DEF HwTick, stream, device
  <2>2. ImpossibleCount'
    BY <1>2, <1>6, <2>1 DEF ImpossibleCount, In
  <2>3. AreaSpace'
    <3> SUFFICES ASSUME call.avail <= BufferSize
                 PROVE  /\ call.frames <= Room'
                        /\ kst' = "running" => Room' < StopThreshold
      BY <2>1 DEF AreaSpace
    <3>1. call.frames <= Room /\ (Room <= BufferSize \/ Room < StopThreshold)
      BY <1>2, <2>1 DEF AreaSpace
    <3>2. Room + 1 < boundary
      BY <1>1, <1>3, <3>1
    <3>3. Room' = Room + 1 /\ (kst' = "running" => Room + 1 < StopThreshold)
      BY <1>6, <3>2, TickRoom
    <3>4. call.frames \in Nat
      BY DEF CallInv, Shape
    <3>5. call.frames <= Room + 1
      BY <1>3, <3>1, <3>4
    <3> QED
      BY <3>3, <3>5
  <2> QED
    BY <2>2, <2>3
<1>7. CASE UNCHANGED vars
  BY <1>2, <1>7 DEF vars, AreaSpace, ImpossibleCount, Room, RoomAt, In
<1>8. CASE KernelStops
  BY <1>2, <1>8 DEF KernelStops, stream, device, appl, AreaSpace,
     ImpossibleCount, Room, RoomAt, In
<1> QED
  BY <1>4, <1>5, <1>6, <1>7, <1>8, EnterDecideOrCommit

\* Whatever the hardware does between pcm_mmap_begin and the copy, the area
\* lies in the ring and is free, across every wrap of the two pointers; an
\* available count no ring can have arises in the two ways the property names
\* and in no other.
THEOREM CopiedAreaIsFree == RingFits => (Spec => []AreaIsFree)
<1> SUFFICES ASSUME RingFits PROVE Spec => []AreaIsFree
  OBVIOUS
<1>1. Init => RingInv
  <2> SUFFICES ASSUME Init PROVE RingInv
    OBVIOUS
  <2>1. KernelTold /\ AreaSpace /\ ImpossibleCount
    BY DEF Init, KernelTold, AreaSpace, ImpossibleCount
  <2>2. Room = RoomOf(FALSE, 0, 0) /\ kst = "setup"
    BY DEF Init, Room, RoomAt, RoomOf, In
  <2>3. Room = BufferSize /\ BufferSize \in Nat
    BY <2>2, EmptyRoom, PcmAssumption
  <2>4. Room <= BufferSize
    BY <2>3
  <2>5. RingSpace
    BY <2>2, <2>4 DEF RingSpace
  <2> QED
    BY <2>1, <2>5 DEF RingInv
<1>2. CallInv /\ CallInv' /\ RingInv /\ [Next]_vars => RingInv'
  <2> SUFFICES ASSUME CallInv, CallInv', RingInv, [Next]_vars PROVE RingInv'
    OBVIOUS
  <2>1. KernelTold'
    BY KernelToldStep DEF RingInv
  <2>2. RingSpace'
    BY RingSpaceStep
  <2>3. AreaSpace' /\ ImpossibleCount'
    BY AreaSpaceStep
  <2> QED
    BY <2>1, <2>2, <2>3 DEF RingInv
<1>3. CallInv /\ RingInv => AreaIsFree
  BY DEF CallInv, AreaInRing, RingInv, AreaSpace, ImpossibleCount, AreaIsFree
<1> QED
  BY <1>1, <1>2, <1>3, CallsInductive, PTL DEF Spec

-----------------------------------------------------------------------------
(* The double buffer.                                                      *)

\* What main knows of the flags where it stands: only main sets a flag, so one
\* it has seen clear stays clear until it sets it itself.
MainKnows ==
    /\ dpc \in {"setup", "create", "arm1", "arm2"} => en[1] = 0 /\ en[2] = 0
    /\ dpc \in {"copy", "wait", "hand"} => en[wbuf] = 0
    /\ dpc \in {"hand", "len", "restart"} => en[Other(wbuf)] = 0

\* What the player knows: only the player clears a flag, so the one it saw set
\* stays set until pcm_write has returned.
PlayerKnows == ppc \in {"call", "write"} => en[rbuf] = 1

\* A frame is copied only where it fits.
CopyFits == dpc = "copy" => pos[wbuf] + dst_bufsize <= MAX_AUDIO_FRAME_SIZE

\* While there is a player, the length stored beside a buffer is that of its
\* last filling, but between the two statements that hand it over.
LengthKnown ==
    /\ \A b \in Bufs : \/ len[b] = filled[b]
                       \/ dpc = "len" /\ wbuf = b
                       \/ ppc = "exit"
    /\ dpc = "len" => filled[wbuf] = pos[wbuf]
    /\ dpc \in {"setup", "create"} => ppc = "none"

\* The inductive invariant.
AudioInv == AudioTypeOK /\ MainKnows /\ PlayerKnows /\ CopyFits /\ LengthKnown

\* The invariant holds at the start.
LEMMA InitAudioInv == AudioInit => AudioInv
  BY BufferAssumption
     DEF AudioInit, AudioInv, AudioTypeOK, MainKnows, PlayerKnows, CopyFits, LengthKnown, Bufs,
         Amounts, Other

\* No step of main breaks it.
LEMMA DecoderKeeps == AudioInv /\ Decoder => AudioInv'
<1> SUFFICES ASSUME AudioInv, Decoder PROVE AudioInv'
  OBVIOUS
<1> USE BufferAssumption
    DEF AudioInv, AudioTypeOK, MainKnows, PlayerKnows, CopyFits, LengthKnown, Bufs,
        Amounts, Other
<1>1. CASE Setup
  BY <1>1 DEF Setup
<1>2. CASE Create
  BY <1>2 DEF Create
<1>3. CASE Arm1
  BY <1>3 DEF Arm1, playerVars
<1>4. CASE Arm2
  BY <1>4 DEF Arm2, playerVars
<1>5. CASE \E s \in FrameSizes : Frame(s)
  <2>1. PICK s \in FrameSizes : Frame(s)
    BY <1>5
  <2>2. s \in Amounts
    OBVIOUS
  <2>3. PICK b \in Bufs : /\ Filling(b)
                          /\ wbuf' = b
                          /\ dst_bufsize' = s
                          /\ dpc' = IF Fits(b, s) THEN "copy" ELSE "wait"
    BY <2>1 DEF Frame
  <2>4. AudioTypeOK'
    BY <2>1, <2>2, <2>3 DEF Frame, playerVars
  <2> QED
    BY <2>1, <2>3, <2>4 DEF Frame, Filling, Fits, playerVars
<1>14. CASE \E s \in FrameSizes : FrameOverruns(s)
  BY <1>14 DEF FrameOverruns
<1>6. CASE DropFrame
  BY <1>6 DEF DropFrame, playerVars
<1>7. CASE Copy
  <2>1. pos[wbuf] \in Nat /\ dst_bufsize \in Nat
    <3>1. \A a \in Amounts : a \in Nat
      BY BufferAssumption DEF Amounts
    <3>2. pos[wbuf] \in Amounts /\ dst_bufsize \in Amounts
      BY ONLY AudioInv DEF AudioInv, AudioTypeOK
    <3> QED
      BY ONLY <3>1, <3>2
  <2>2. pos[wbuf] + dst_bufsize \in Amounts
    BY <1>7, <2>1 DEF Copy
  <2>3. pos' \in [Bufs -> Amounts]
    BY <1>7, <2>2 DEF Copy
  <2> QED
    BY <1>7, <2>3 DEF Copy, playerVars
<1>8. CASE WaitReadDone
  BY <1>8 DEF WaitReadDone, ReadDone, playerVars
<1>9. CASE HandOver
  BY <1>9 DEF HandOver, playerVars
<1>10. CASE SetLen
  BY <1>10 DEF SetLen, StoreLen, playerVars
<1>11. CASE Refill
  BY <1>11 DEF Refill, playerVars
<1>12. CASE ConvertOver
  BY <1>12 DEF ConvertOver, playerVars
<1>13. CASE Finish
  BY <1>13 DEF Finish, playerVars
<1> QED
  BY <1>1, <1>2, <1>3, <1>4, <1>5, <1>6, <1>7, <1>8, <1>9, <1>10, <1>11,
     <1>12, <1>13, <1>14 DEF Decoder

\* No step of the player breaks it.
LEMMA PlayerKeeps == AudioInv /\ Player => AudioInv'
<1> SUFFICES ASSUME AudioInv, Player PROVE AudioInv'
  OBVIOUS
<1> USE DEF AudioInv, AudioTypeOK, MainKnows, PlayerKnows, CopyFits, LengthKnown, Bufs,
            Amounts, Other
<1>1. CASE Open
  BY <1>1 DEF Open
<1>2. CASE Poll
  BY <1>2 DEF Poll, decoderVars
<1>3. CASE CallWrite
  BY <1>3 DEF CallWrite, decoderVars
<1>4. CASE Written
  BY <1>4 DEF Written, ClearFlag, decoderVars
<1>5. CASE Loop
  BY <1>5 DEF Loop, decoderVars
<1>6. CASE Close
  BY <1>6 DEF Close, decoderVars
<1> QED
  BY <1>1, <1>2, <1>3, <1>4, <1>5, <1>6 DEF Player

\* The invariant of the two threads: what each of them knows of the flags
\* holds in every interleaving.
THEOREM AudioInductive == AudioSpec => []AudioInv
<1>1. AudioInv /\ UNCHANGED audioVars => AudioInv'
  BY DEF AudioInv, AudioTypeOK, MainKnows, PlayerKnows, CopyFits, LengthKnown, audioVars,
         decoderVars, playerVars
<1>2. AudioInv /\ [AudioNext]_audioVars => AudioInv'
  BY <1>1, DecoderKeeps, PlayerKeeps DEF AudioNext, Exited
<1> QED
  BY InitAudioInv, <1>2, PTL DEF AudioSpec

\* Every variable keeps its type: whatever the sizes of the frames, a memcpy or
\* pcm_write runs past the end of a buffer only with a frame that alone is
\* larger than the buffer.
THEOREM AudioTypeCorrect == AudioSpec => []AudioTypeOK
<1>1. AudioInv => AudioTypeOK
  BY DEF AudioInv
<1> QED
  BY AudioInductive, <1>1, PTL

\* main never copies into the buffer the player is reading, although there is
\* no lock.
THEOREM NeverOverwritten == AudioSpec => []NoOverwrite
<1>1. AudioInv => NoOverwrite
  BY DEF AudioInv, AudioTypeOK, MainKnows, PlayerKnows, NoOverwrite, Reading,
         Writing, Bufs, Other
<1> QED
  BY AudioInductive, <1>1, PTL

\* Whatever the interleaving, pcm_write is given the length of what it was
\* handed and keeps it, unless it was called between lines 175 and 176.
THEOREM LengthIsOwn == AudioSpec => ReadsWhatWasFilled
<1> DEFINE Own == (ppc' = "write" /\ (ppc = "write" => amount = filled[rbuf])) =>
                     \/ amount' = filled'[rbuf']
                     \/ ppc = "call" /\ dpc = "len" /\ wbuf = rbuf
<1>1. AudioInv /\ [AudioNext]_audioVars => [Own]_audioVars
  <2> SUFFICES ASSUME AudioInv, AudioNext, ppc' = "write",
                      ppc = "write" => amount = filled[rbuf],
                      ~(ppc = "call" /\ dpc = "len" /\ wbuf = rbuf)
               PROVE  amount' = filled'[rbuf']
    OBVIOUS
  <2> USE DEF AudioInv, AudioTypeOK, MainKnows, PlayerKnows, LengthKnown, Bufs, Other
  <2>1. CASE HandOver
    BY <2>1 DEF HandOver, playerVars
  <2>2. CASE Decoder /\ ~HandOver
    BY <2>2 DEF Decoder, Setup, Create, Arm1, Arm2, Frame, FrameOverruns, DropFrame,
                Copy, WaitReadDone, SetLen, Refill, ConvertOver, Finish, playerVars
  <2>3. CASE CallWrite
    BY <2>3 DEF CallWrite, decoderVars
  <2>4. CASE Player /\ ~CallWrite
    BY <2>4 DEF Player, Open, Poll, Written, Loop, Close, decoderVars
  <2>5. CASE Exited
    BY <2>5 DEF Exited, audioVars, decoderVars, playerVars
  <2> QED
    BY <2>1, <2>2, <2>3, <2>4, <2>5 DEF AudioNext
<1>2. AudioSpec => [][Own]_audioVars
  BY AudioInductive, <1>1, PTL DEF AudioSpec
<1> QED
  BY <1>2 DEF ReadsWhatWasFilled

\* Neither flag is set and main is looking for the next frame or on its way out.
Silent == en[1] = 0 /\ en[2] = 0 /\ dpc \in {"next", "join", "exit"}

\* Nothing ends the silence: main fills a buffer only while the other is out,
\* and the player only clears flags.
LEMMA SilenceStays == AudioInv /\ Silent /\ [AudioNext]_audioVars => Silent'
<1> SUFFICES ASSUME AudioInv, Silent, [AudioNext]_audioVars PROVE Silent'
  OBVIOUS
<1> USE DEF AudioInv, AudioTypeOK, Silent, Bufs
<1>1. CASE Decoder
  BY <1>1 DEF Decoder, Setup, Create, Arm1, Arm2, Frame, Filling, Other,
              FrameOverruns, DropFrame, Copy, WaitReadDone, HandOver, SetLen, Refill,
              ConvertOver, Finish, playerVars
<1>2. CASE Player
  BY <1>2 DEF Player, Open, Poll, CallWrite, Written, ClearFlag, Loop, Close,
              decoderVars
<1>3. CASE UNCHANGED audioVars
  BY <1>3 DEF audioVars, decoderVars
<1> QED
  BY <1>1, <1>2, <1>3 DEF AudioNext, Exited

\* Once the player has caught up with main, no buffer is handed over again for
\* the rest of the file.
THEOREM SilentForever == AudioSpec => StarvedForever
<1> DEFINE Clear == en[1] = 0 /\ en[2] = 0
<1>1. BothClear => Silent
  BY DEF BothClear, Silent
<1>2. Silent => Clear
  BY DEF Silent
<1>3. AudioInv /\ Silent /\ [AudioNext]_audioVars => Silent'
  BY SilenceStays
<1>4. AudioSpec => [](BothClear => []Clear)
  <2> HIDE DEF Clear
  <2> QED
    BY AudioInductive, <1>1, <1>2, <1>3, PTL DEF AudioSpec
<1> QED
  BY <1>4 DEF StarvedForever
================================================================================
