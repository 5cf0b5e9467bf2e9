---------------------------------- MODULE Pcm ----------------------------------
(***************************************************************************)
(* The PCM library of sample/pcm.c: opening and closing a stream with all  *)
(* its error exits, pcm_write and pcm_read through the kernel, and         *)
(* pcm_mmap_write and pcm_mmap_read, which copy into the ring the hardware *)
(* is reading or filling at the same time.                                 *)
(*                                                                         *)
(* Frames are counted, never looked at.  The kernel side (hw_ptr, the      *)
(* state of the stream, what the ioctls and poll do) is external and is    *)
(* modelled as far as pcm.c depends on it.  The stream is used by one      *)
(* thread; the hardware moves between any two of its steps.  The kernel's  *)
(* pointers wrap at pcm->boundary, which is so where its long is an int.   *)
(***************************************************************************)
EXTENDS Integers, FiniteSets

CONSTANTS
    FlagSets,         \* the flags pcm_open is called with
    BufferSize,       \* period_count * period_size, as refined
    IntMax,           \* INT_MAX
    StartThresholds,  \* config.start_threshold
    AvailMins,        \* config.avail_min
    StopThreshold,    \* config.stop_threshold
    MaxCount          \* bound: frames of one transfer

ASSUME PcmAssumption ==
    /\ FlagSets \subseteq SUBSET {"IN", "MMAP", "NOIRQ", "NORESTART", "MONOTONIC"}
    /\ BufferSize \in Nat \ {0}
    /\ IntMax \in Nat /\ 2 * BufferSize < IntMax
    /\ StartThresholds \subseteq Nat \ {0}
    /\ AvailMins \subseteq Nat
    /\ StopThreshold \in Nat \ {0}
    /\ MaxCount \in Nat \ {0}

VARIABLES
    handle,   \* what the caller has: "none", "bad", "ready", "failed", "closed"
    flags, own, thr, amin,
    kst,      \* kernel: "setup", "prepared", "running", "xrun", "suspended"
              \* or "disconnected"
    hw_ptr,   \* mmap_status->hw_ptr
    appl_ptr, \* mmap_control->appl_ptr
    kappl,    \* the kernel's copy of it, for a stream with a sync_ptr area
    running, wait_for_avail_min,
    pc,       \* where the call under way is
    call,     \* its name, size, frames left and locals
    stale,    \* the two pointers count from different starts
    ret       \* how the last transfer ended

vars == <<handle, flags, own, thr, amin, kst, hw_ptr, appl_ptr, kappl, running,
          wait_for_avail_min, pc, call, stale, ret>>

device == <<handle, flags, own, thr, amin>>
stream == <<device, stale>>
kernel == <<kst, hw_ptr>>
appl == <<appl_ptr, kappl>>

In == "IN" \in flags
Mmap == "MMAP" \in flags

\* The wrap point of the pointers: the buffer size doubled as often as an int
\* allows.
boundary ==
    LET doublings == {k \in 0 .. IntMax : k = 0 \/ BufferSize * 2 ^ k <= IntMax - BufferSize}
        most == CHOOSE k \in doublings : \A j \in doublings : j <= k
    IN BufferSize * 2 ^ most

Lesser(a, b) == IF a < b THEN a ELSE b

Unsigned(i) == i % (2 * (IntMax + 1))

\* What a handle owns: the struct, the descriptor, the ring and the status
\* pages; and whether pcm_open failed with the ring mapped, and whether the
\* ring was unmapped twice.
Nothing == [mem |-> FALSE, fd |-> FALSE, buf |-> "null", stat |-> "none",
            late |-> FALSE, twice |-> FALSE]

NoCall == [op |-> "none", count |-> 0, left |-> 0, avail |-> 0,
           size |-> 0, frames |-> 0]

Init ==
    /\ handle = "none" /\ flags = {} /\ own = Nothing
    /\ thr = 1 /\ amin = 1
    /\ kst = "setup" /\ hw_ptr = 0 /\ appl_ptr = 0 /\ kappl = 0
    /\ running = FALSE /\ wait_for_avail_min = FALSE
    /\ pc = "idle" /\ call = NoCall
    /\ stale = FALSE
    /\ ret = [op |-> "none"]

\* The pointer moves and the kernel is told (pcm_sync_ptr, or the shared page).
Appl(a) == appl_ptr' = a /\ kappl' = a

-----------------------------------------------------------------------------
(* The kernel and the hardware.                                            *)

\* Frames the application may write, or read: exact, for pointers that wrap at
\* boundary.
RoomAt(hw, ap) == (IF In THEN hw - ap ELSE hw + BufferSize - ap) % boundary

Room == RoomAt(hw_ptr, kappl)

\* One frame is played or captured; with StopThreshold frames of room the
\* stream has underrun (overrun) and stops.
HwTick ==
    /\ kst = "running"
    /\ LET hw == (hw_ptr + 1) % boundary IN
         /\ hw_ptr' = hw
         /\ kst' = IF RoomAt(hw, kappl) >= StopThreshold THEN "xrun" ELSE "running"
    /\ UNCHANGED <<stream, appl, running, wait_for_avail_min, pc, call, ret>>

\* The system is suspended, or the device is unplugged.
KernelStops ==
    /\ handle = "ready"
    /\ \/ kst \in {"prepared", "running"} /\ kst' = "suspended"
       \/ kst # "disconnected" /\ kst' = "disconnected"
    /\ UNCHANGED <<stream, hw_ptr, appl, running, wait_for_avail_min, pc, call, ret>>

-----------------------------------------------------------------------------
(* pcm_open                                                                *)

\* fail: and fail_close: in pcm_open.
FailKeepsFd(o) == [o EXCEPT !.buf = IF @ = "mapped" THEN "gone" ELSE @]

Fail(o) == [o EXCEPT !.buf = IF @ = "mapped" THEN "gone" ELSE @, !.fd = FALSE]

FailClose(o) == [o EXCEPT !.fd = FALSE]

\* pcm_hw_mmap_status: two pages, or without them a sync_ptr area.
hw_mmap_status == {"page", "sync"}

Reopenable == handle \in {"none", "bad", "closed"}

\* Every way out of pcm_open up to the mapping of the buffer.  Without a config
\* the struct is allocated, and nobody has its address.
OpenFailsEarly(f) ==
    LET alloced == [Nothing EXCEPT !.mem = TRUE]
        opened == [alloced EXCEPT !.fd = TRUE]
    IN
    \/ /\ handle' = "bad"
       /\ own' \in {Nothing, alloced}               \* calloc, no config
    \/ /\ handle' = "failed"
       /\ \/ own' = alloced                         \* open
          \/ own' = FailClose(opened)               \* INFO, HW_PARAMS
          \/ /\ "NOIRQ" \in f /\ "MMAP" \notin f
             /\ own' = Fail(opened)
          \/ /\ "MMAP" \in f                        \* mmap
             /\ own' = FailClose([opened EXCEPT !.buf = "failed"])

\* Past it: SW_PARAMS, the status pages and the time stamp type.
OpenFailsLate(f) ==
    LET mapped == [Nothing EXCEPT !.mem = TRUE, !.fd = TRUE, !.late = TRUE,
                                  !.buf = IF "MMAP" \in f THEN "mapped" ELSE "null"]
    IN /\ handle' = "failed"
       /\ ~("NOIRQ" \in f /\ "MMAP" \notin f)
       /\ \/ own' = Fail(mapped)
          \/ /\ "MONOTONIC" \in f
             /\ \E s \in hw_mmap_status : own' = Fail([mapped EXCEPT !.stat = s])

OpenSucceeds(f) ==
    /\ ~("NOIRQ" \in f /\ "MMAP" \notin f)
    /\ handle' = "ready"
    /\ \E s \in hw_mmap_status :
         own' = [Nothing EXCEPT !.mem = TRUE, !.fd = TRUE, !.stat = s,
                                !.buf = IF "MMAP" \in f THEN "mapped" ELSE "null"]

pcm_open(f) ==
    /\ pc = "idle" /\ Reopenable
    /\ flags' = f
    /\ thr' \in StartThresholds /\ amin' \in AvailMins
    /\ OpenFailsEarly(f) \/ OpenFailsLate(f) \/ OpenSucceeds(f)
    /\ kst' = "setup" /\ hw_ptr' = 0 /\ Appl(0)
    /\ running' = FALSE /\ wait_for_avail_min' = FALSE
    /\ call' = NoCall /\ stale' = FALSE /\ ret' = [op |-> "none"]
    /\ UNCHANGED pc

\* pcm_close: for a PCM_MMAP handle the buffer is unmapped whatever became of
\* pcm_open; munmap of no address has no effect.
CloseOwned(o) ==
    [o EXCEPT !.mem = FALSE, !.fd = FALSE, !.stat = "none",
              !.buf = IF Mmap /\ o.buf = "mapped" THEN "gone" ELSE o.buf,
              !.twice = Mmap /\ o.buf = "gone"]

pcm_close ==
    /\ pc = "idle"
    /\ handle \in {"ready", "failed"}
    /\ own' = CloseOwned(own)
    /\ handle' = "closed"
    /\ running' = FALSE /\ kst' = "setup"
    /\ call' = NoCall /\ stale' = FALSE /\ ret' = [op |-> "none"]
    /\ hw_ptr' = 0 /\ Appl(0) /\ wait_for_avail_min' = FALSE
    /\ UNCHANGED <<flags, thr, amin, pc>>

-----------------------------------------------------------------------------
(* Starting and stopping.                                                  *)

\* SNDRV_PCM_IOCTL_PREPARE, refused while the stream runs and when the device
\* is gone: the pointers start over.  A sync_ptr area keeps the application's appl_ptr, and pcm_start
\* hands it back to the kernel.
Prepare(kept) ==
    /\ kst \notin {"running", "disconnected"}
    /\ hw_ptr' = 0
    /\ LET ap == IF kept THEN appl_ptr ELSE 0 IN
         /\ Appl(ap)
         /\ stale' = (ap # 0 /\ (stale \/ hw_ptr # 0))

Keeps == Mmap /\ own.stat = "sync"

\* pcm_start: both ioctls succeed (START refuses to play an empty ring) ...
Started ==
    /\ Prepare(Keeps)
    /\ In \/ RoomAt(0, IF Keeps THEN appl_ptr ELSE 0) < BufferSize
    /\ kst' = "running"
    /\ running' = TRUE

\* ... or one of them fails.
StartFails(told) ==
    /\ \/ UNCHANGED <<kernel, appl_ptr, stale>> /\ kappl' = told
       \/ Prepare(Keeps) /\ kst' = "prepared"
    /\ UNCHANGED running

\* A call by the application itself.
pcm_start ==
    /\ pc = "idle" /\ handle = "ready"
    /\ Started \/ StartFails(kappl)
    /\ UNCHANGED <<device, wait_for_avail_min, pc, call, ret>>

pcm_stop ==
    /\ pc = "idle" /\ handle = "ready"
    /\ \/ kst # "disconnected" /\ kst' = "setup" /\ running' = FALSE
       \/ UNCHANGED <<kst, running>>
    /\ UNCHANGED <<stream, hw_ptr, appl, wait_for_avail_min, pc, call, ret>>

pcm_set_avail_min(a) ==
    /\ pc = "idle" /\ handle = "ready"
    /\ {"MMAP", "NOIRQ"} \subseteq flags
    /\ amin' = a
    /\ UNCHANGED <<handle, flags, own, thr, stale, kernel, appl, running,
                   wait_for_avail_min, pc, call, ret>>

\* pcm_get_htimestamp asks for the kernel's appl_ptr.
pcm_get_htimestamp ==
    /\ pc = "idle" /\ handle = "ready"
    /\ appl_ptr' = kappl
    /\ UNCHANGED <<stream, kernel, kappl, running, wait_for_avail_min, pc, call, ret>>

-----------------------------------------------------------------------------
(* Calls.                                                                  *)

\* pcm_write and pcm_read check the direction.  The mmap calls check PCM_MMAP
\* and, for reading, PCM_IN: PCM_OUT is 0, so pcm_mmap_write does not notice a
\* capture stream.  The kernel refuses pcm_write on a PCM_MMAP stream.
Accepts(op) ==
    \/ op = "write" /\ ~In /\ ~Mmap
    \/ op = "read" /\ In /\ ~Mmap
    \/ op = "mmap_write" /\ Mmap
    \/ op = "mmap_read" /\ Mmap /\ In

Call(op, n) ==
    /\ pc = "idle" /\ handle = "ready"
    /\ Accepts(op)
    /\ call' = [NoCall EXCEPT !.op = op, !.count = n, !.left = n]
    /\ pc' = IF Mmap THEN "top" ELSE "xfer"
    /\ ret' = [op |-> "none"]
    /\ UNCHANGED <<stream, kernel, appl, running, wait_for_avail_min>>

\* The call is over; missing frames of it were not moved.
Return(r, missing, cut) ==
    /\ ret' = [op |-> call.op, val |-> r, missing |-> missing, cut |-> cut,
               stalled |-> thr > BufferSize \/ amin = 0]
    /\ call' = NoCall
    /\ pc' = "idle"

Goto(p) == pc' = p /\ UNCHANGED <<call, ret>>

-----------------------------------------------------------------------------
(* pcm_write and pcm_read: one ioctl that sleeps until all frames are      *)
(* moved, in a loop that gets an interrupted stream going again.           *)

XferRunning ==
    /\ pc = "xfer"
    /\ running
    /\ Goto("ioctl")
    /\ UNCHANGED <<stream, kernel, appl, running, wait_for_avail_min>>

\* Not running: pcm_write prepares the stream, which the data will start;
\* pcm_read starts it.
XferStart ==
    /\ pc = "xfer"
    /\ ~running
    /\ \/ /\ call.op = "write" /\ Prepare(FALSE) /\ kst' = "prepared"
          /\ Goto("ioctl") /\ UNCHANGED running
       \/ call.op = "read" /\ Started /\ Goto("ioctl")
       \/ StartFails(kappl) /\ Return("error", call.left, FALSE)
    /\ UNCHANGED <<device, wait_for_avail_min>>

\* The kernel moves what it can, and starts playback at start_threshold.
XferSome ==
    /\ pc = "ioctl"
    /\ kst \in {"prepared", "running"} /\ Room > 0
    /\ LET k == Lesser(call.left, Room)
           ap == (appl_ptr + k) % boundary
       IN /\ Appl(ap)
          /\ kst' = IF ~In /\ BufferSize - RoomAt(hw_ptr, ap) >= thr THEN "running" ELSE kst
          /\ IF call.left = k THEN Return("ok", 0, FALSE) /\ running' = TRUE
             ELSE /\ call' = [call EXCEPT !.left = @ - k]
                  /\ UNCHANGED <<pc, ret, running>>
    /\ UNCHANGED <<stream, hw_ptr, wait_for_avail_min>>

\* The ioctl ends after part of the frames (an xrun in between, a signal): it
\* answers 0, and x.result is not looked at.
XferCut ==
    /\ pc = "ioctl"
    /\ call.left < call.count
    /\ running' = TRUE
    /\ Return("ok", call.left, TRUE)
    /\ UNCHANGED <<stream, kernel, appl, wait_for_avail_min>>

Broken == pc = "ioctl" /\ call.left = call.count /\ kst = "xrun" /\ running

\* -EPIPE in a running stream: round the loop again to the restart, unless
\* this is a playback stream opened with PCM_NORESTART.
Restart ==
    IF call.op = "read" \/ "NORESTART" \notin flags THEN Goto("xfer")
    ELSE Return("EPIPE", call.left, FALSE)

XferXrunRunning ==
    /\ Broken
    /\ Restart
    /\ UNCHANGED <<stream, kernel, appl, running, wait_for_avail_min>>

XferXrun ==
    /\ Broken
    /\ running' = FALSE
    /\ Restart
    /\ UNCHANGED <<stream, kernel, appl, wait_for_avail_min>>

\* Any other error, and any error of pcm_write's initial write.
XferFails ==
    /\ pc = "ioctl"
    /\ call.left = call.count /\ ~Broken
    /\ running' = FALSE
    /\ Return("error", call.left, FALSE)
    /\ UNCHANGED <<stream, kernel, appl, wait_for_avail_min>>

-----------------------------------------------------------------------------
(* pcm_mmap_transfer and what it calls.                                    *)

playback_avail ==
    LET a == hw_ptr + BufferSize - appl_ptr IN
    IF a < 0 THEN a + boundary ELSE IF a > boundary THEN a - boundary ELSE a

capture_avail ==
    LET a == hw_ptr - appl_ptr IN IF a < 0 THEN a + boundary ELSE a

mmap_avail == IF In THEN capture_avail ELSE playback_avail

ReachesThreshold(avail) == Unsigned(BufferSize - avail) >= thr

\* while (count > 0): the available frames, and the start of the stream once
\* enough of them are in the ring.
TransferTop ==
    /\ pc = "top"
    /\ call.left > 0
    /\ LET avail == mmap_avail
           decide == /\ call' = [call EXCEPT !.avail = avail]
                     /\ pc' = "decide" /\ UNCHANGED ret
       IN \/ /\ ~running /\ ReachesThreshold(avail)
             /\ \/ Started /\ wait_for_avail_min' = FALSE /\ decide
                \/ /\ StartFails(appl_ptr) /\ Return("error", call.left, FALSE)
                   /\ UNCHANGED wait_for_avail_min
          \/ /\ running \/ ~ReachesThreshold(avail)
             /\ Appl(appl_ptr)
             /\ decide
             /\ UNCHANGED <<kernel, running, wait_for_avail_min, stale>>
    /\ UNCHANGED device

TransferDone ==
    /\ pc = "top"
    /\ call.left = 0
    /\ Return("ok", 0, FALSE)
    /\ UNCHANGED <<stream, kernel, appl, running, wait_for_avail_min>>

WantsWaitNot == wait_for_avail_min

WantsWait == wait_for_avail_min \/ call.left > call.avail

MustWait == running /\ WantsWait /\ call.avail < amin

\* Too few frames in a running stream: wait, once.
DecideWait ==
    /\ pc = "decide"
    /\ MustWait
    /\ wait_for_avail_min' = FALSE
    /\ Goto("wait")
    /\ UNCHANGED <<stream, kernel, appl, running>>

\* Otherwise copy what there is.  With nothing to copy the loop is left, and 0
\* is returned.
DecideCopy ==
    /\ pc = "decide"
    /\ ~MustWait
    /\ wait_for_avail_min' = (wait_for_avail_min \/ (running /\ WantsWait))
    /\ LET frames == Lesser(call.left, call.avail) IN
         IF frames = 0 THEN Return("ok", call.left, FALSE)
         ELSE /\ call' = [call EXCEPT !.size = frames, !.avail = 0]
              /\ pc' = "begin" /\ UNCHANGED ret
    /\ UNCHANGED <<stream, kernel, appl, running>>

\* pcm_wait asks poll for POLLOUT, which a playback stream raises and a
\* capture stream never does.  A NOIRQ stream waits for a limited time.
PollReports == ~In /\ Room >= amin

WaitReady ==
    /\ pc = "wait"
    /\ kst \in {"prepared", "running"}
    /\ PollReports \/ "NOIRQ" \in flags
    /\ Goto("top")
    /\ UNCHANGED <<stream, kernel, appl, running, wait_for_avail_min>>

\* A wait that fails sets appl_ptr to zero; the kernel hears of it only with
\* the next pcm_sync_ptr.
WaitFails(e) ==
    /\ pc = "wait"
    /\ running' = FALSE
    /\ appl_ptr' = 0
    /\ kappl' = IF own.stat = "sync" THEN kappl ELSE 0
    /\ stale' = TRUE
    /\ Return(e, call.left, FALSE)
    /\ UNCHANGED <<device, kernel, wait_for_avail_min>>

\* POLLERR: the state of the stream says why.  Without the status pages a
\* device that is gone no longer answers pcm_sync_ptr, and pcm_state is no
\* state.
StateError ==
    CASE kst = "xrun" -> "EPIPE"
      [] kst = "suspended" -> "ESTRPIPE"
      [] kst = "disconnected" /\ own.stat = "page" -> "ENODEV"
      [] OTHER -> "EIO"

WaitBroken == kst \notin {"prepared", "running"} /\ WaitFails(StateError)

\* errno is compared with -EINTR: an interrupted poll is an error like others.
WaitInterrupted == WaitFails("EINTR")

\* pcm_mmap_begin: how much to copy, at most to the end of the ring.
AreaUnclamped(size) == Lesser(size, BufferSize - (appl_ptr % BufferSize))

Area(size) ==
    LET avail == Lesser(mmap_avail, BufferSize)
        continuous == BufferSize - (appl_ptr % BufferSize)
    IN Lesser(Lesser(size, avail), continuous)

mmap_begin ==
    /\ pc = "begin"
    /\ call' = [call EXCEPT !.frames = Area(call.size), !.avail = mmap_avail]
    /\ pc' = "commit"
    /\ UNCHANGED <<stream, kernel, appl, running, wait_for_avail_min, ret>>

appl_forwardNoWrap(frames) == appl_ptr + frames

appl_forward(frames) ==
    LET a == appl_ptr + frames IN IF a > boundary THEN a - boundary ELSE a

\* The copy is done and the pointer moves; pcm_mmap_transfer_areas goes on
\* until size is used up.
mmap_commit ==
    /\ pc = "commit"
    /\ Appl(appl_forward(call.frames))
    /\ call' = [call EXCEPT !.left = @ - call.frames, !.size = @ - call.frames,
                            !.frames = 0, !.avail = 0]
    /\ pc' = IF call.size = call.frames THEN "top" ELSE "begin"
    /\ stale' = (stale \/ call.avail = boundary)
    /\ UNCHANGED <<device, kernel, running, wait_for_avail_min, ret>>

-----------------------------------------------------------------------------
UserStep ==
    \/ XferRunning \/ XferStart \/ XferSome \/ XferCut \/ XferXrun \/ XferFails
    \/ TransferTop \/ TransferDone \/ DecideWait \/ DecideCopy
    \/ WaitReady \/ WaitBroken \/ mmap_begin \/ mmap_commit

Next ==
    \/ \E f \in FlagSets : pcm_open(f)
    \/ pcm_close \/ pcm_start \/ pcm_stop \/ pcm_get_htimestamp
    \/ \E a \in AvailMins : pcm_set_avail_min(a)
    \/ \E op \in {"write", "read", "mmap_write", "mmap_read"}, n \in 1 .. MaxCount :
          Call(op, n)
    \/ UserStep \/ WaitInterrupted
    \/ HwTick \/ KernelStops

\* The kernel wakes the caller and the hardware clock runs.
Fairness == WF_vars(UserStep) /\ WF_vars(HwTick)

Spec == Init /\ [][Next]_vars /\ Fairness

-----------------------------------------------------------------------------
(* Properties.                                                             *)

\* The type invariant.
TypeOK ==
    /\ handle \in {"none", "bad", "ready", "failed", "closed"}
    /\ flags \in SUBSET {"IN", "MMAP", "NOIRQ", "NORESTART", "MONOTONIC"}
    /\ kst \in {"setup", "prepared", "running", "xrun", "suspended", "disconnected"}
    /\ hw_ptr \in 0 .. (boundary - 1)
    /\ appl_ptr \in 0 .. boundary
    /\ kappl \in 0 .. boundary
    /\ running \in BOOLEAN /\ wait_for_avail_min \in BOOLEAN
    /\ call.left \in 0 .. call.count
    /\ call.size \in 0 .. call.left
    /\ call.frames \in 0 .. call.size

\* The configurations AreaIsFree is about: a ring of two frames or more that an
\* int holds three times, a stream that stops on an xrun at all, and a playback
\* stream that stops at the latest when its ring is empty, which is what
\* pcm_open sets when the caller leaves stop_threshold at zero.
RingFits ==
    /\ BufferSize > 1
    /\ 3 * BufferSize <= IntMax
    /\ StopThreshold < boundary
    /\ StopThreshold <= BufferSize \/ \A f \in FlagSets : "IN" \in f

\* "we can only copy frames if the are availabale and continuos" (line 855):
\* whatever the hardware does between pcm_mmap_begin and the copy, the area
\* lies in the ring and holds no frame that is still to be played, none that
\* is still to be captured, across every wrap of the two pointers.  This needs
\* an available count that a ring can have.  Playback computes an impossible
\* one, and writes over unplayed frames, in two cases only: boundary, for a
\* full ring whose appl_ptr has wrapped, and anything, once a restart or a
\* failed wait has reset one pointer and not the other.  With a larger
\* stop_threshold than RingFits allows the hardware plays past appl_ptr and
\* the count is impossible for that reason too.
AreaIsFree ==
    pc = "commit" =>
        /\ (appl_ptr % BufferSize) + call.frames <= BufferSize
        /\ call.avail <= BufferSize => call.frames <= Room
        /\ (~In /\ call.avail > BufferSize) => (stale \/ call.avail = boundary)

\* A transfer that answers 0 has moved every frame, through waits, wraps and
\* restarts, except where the kernel took part of them and said so only in
\* x.result, or where the configuration makes a full ring neither start nor
\* wait.
TransferWhole ==
    (ret.op # "none" /\ ret.val = "ok" /\ ret.missing > 0) => ret.cut \/ ret.stalled

\* Whatever exit pcm_open takes, the handle owns what its state says, and
\* pcm_close leaves nothing behind: a struct is lost only where pcm_open answers
\* bad_pcm (it was called without a config).  pcm_close unmaps the ring a second
\* time exactly when pcm_open failed with the ring mapped.
OwnsWhatItSays ==
    /\ own.fd <=> handle = "ready"
    /\ own.buf = "mapped" <=> (handle = "ready" /\ Mmap)
    /\ handle \in {"ready", "failed"} => own.mem
    /\ handle \in {"none", "closed"} => ~own.mem
    /\ handle = "ready" => own.stat # "none"
    /\ handle \in {"none", "bad", "closed"} => own.stat = "none"
    /\ own.twice <=> (handle = "closed" /\ Mmap /\ own.late)

\* Every pcm_write and every mmap transfer returns: an underrun is retried
\* once, a wait ends with room or with the stream's error.  pcm_read may
\* restart after overruns without end, and a transfer hangs in two ways: it
\* waits on a stream that is marked running and is not (a pcm_start that fails
\* after its prepare leaves running as it was), or pcm_mmap_transfer_areas
\* goes round for frames that a stream stopped by an xrun will not provide,
\* having been sent there with a count from before the restart.
Hung ==
    \/ pc = "wait" /\ kst = "prepared"
    \/ call.size > 0 /\ kst # "running" /\ Room = 0

CallEnds == (pc # "idle" /\ call.op # "read") ~> (pc = "idle" \/ Hung)
=============================================================================
