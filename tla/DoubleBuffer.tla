----------------------------- MODULE DoubleBuffer -----------------------------
(***************************************************************************)
(* The audio player of sample/ffmpeg_alsa.c.  main decodes frames into two *)
(* buffers by turns while the pcm_play thread writes the other one to the  *)
(* sound card.  There is no lock: volatile flags buf1_en and buf2_en say   *)
(* which buffer the player may read, and main spins on them.               *)
(*                                                                         *)
(* Buffer 1 is buf1, buffer 2 is buf2.  Amounts of audio are counted in    *)
(* units; the samples themselves play no role.  Volatile accesses are      *)
(* taken in program order; two reads of the flags in one test are one      *)
(* step, because only main sets a flag and only the player clears it, so   *)
(* the pair read is one that was there at one of the two reads.            *)
(***************************************************************************)
EXTENDS Naturals

CONSTANTS
    MAX_AUDIO_FRAME_SIZE,  \* room in one buffer (40960 bytes in the code)
    FrameSizes,            \* possible values of dst_bufsize: nothing bounds it
    MaxFrames              \* bound: frames in the input file

ASSUME BufferAssumption ==
    /\ MAX_AUDIO_FRAME_SIZE \in Nat
    /\ FrameSizes \subseteq Nat \ {0}
    /\ MaxFrames \in Nat

Bufs == {1, 2}

Other(b) == 3 - b

VARIABLES
    en,            \* buf1_en, buf2_en
    pos,           \* buf1_pos, buf2_pos
    len,           \* buf1_len, buf2_len
    convert_over,
    stop,
    dpc,           \* main
    dst_bufsize,   \* size of the frame main has in hand
    wbuf,          \* the buffer main is filling for that frame
    ppc,           \* the pcm_play thread
    rbuf,          \* the buffer handed to pcm_write
    amount,        \* the byte count handed to pcm_write
    decoded,       \* frames decoded so far
    filled         \* history: amount in a buffer when it was handed over

decoderVars == <<pos, len, convert_over, dpc, dst_bufsize, wbuf, decoded,
                 filled>>
playerVars == <<stop, ppc, rbuf, amount>>
audioVars == <<en, decoderVars, playerVars>>

AudioInit ==
    /\ en = [b \in Bufs |-> 0]
    /\ pos = [b \in Bufs |-> 0]
    /\ len = [b \in Bufs |-> 0]
    /\ convert_over = 0
    /\ stop = 0
    /\ dpc = "setup"
    /\ dst_bufsize = 0
    /\ wbuf = 1
    /\ ppc = "none"
    /\ rbuf = 2
    /\ amount = 0
    /\ decoded = 0
    /\ filled = [b \in Bufs |-> 0]

-----------------------------------------------------------------------------
(* main.                                                                   *)

\* The input file, its audio stream, the decoder and the resampler are opened;
\* main returns -1 at the first of them that fails.
Setup ==
    /\ dpc = "setup"
    /\ \/ dpc' = "create" /\ UNCHANGED ppc
       \/ dpc' = "exit" /\ ppc' = "exit"
    /\ UNCHANGED <<en, pos, len, convert_over, dst_bufsize, wbuf, decoded,
                   filled, stop, rbuf, amount>>

\* pthread_create: the thread runs from here on, or main returns -1.
Create ==
    /\ dpc = "create"
    /\ \/ dpc' = "arm1" /\ ppc' = "open"
       \/ dpc' = "exit" /\ ppc' = "exit"
    /\ UNCHANGED <<en, pos, len, convert_over, dst_bufsize, wbuf, decoded,
                   filled, stop, rbuf, amount>>

\* buf1_en = 0; buf2_en = 1;  after the thread was started.
Arm1 ==
    /\ dpc = "arm1"
    /\ en' = [en EXCEPT ![1] = 0]
    /\ dpc' = "arm2"
    /\ UNCHANGED <<pos, len, convert_over, dst_bufsize, wbuf, decoded,
                   filled, playerVars>>

Arm2 ==
    /\ dpc = "arm2"
    /\ en' = [en EXCEPT ![2] = 1]
    /\ dpc' = "next"
    /\ UNCHANGED <<pos, len, convert_over, dst_bufsize, wbuf, decoded,
                   filled, playerVars>>

FitsOneMore(b, s) == pos[b] + s <= MAX_AUDIO_FRAME_SIZE + 1

Fits(b, s) == pos[b] + s <= MAX_AUDIO_FRAME_SIZE

FillingElse(b) == en[b] = 0

\* The player has the other buffer, so main fills this one.
Filling(b) == en[b] = 0 /\ en[Other(b)] = 1

\* A decoded frame of s bytes: it goes into the buffer being filled ...
Frame(s) ==
    /\ dpc = "next"
    /\ decoded < MaxFrames
    /\ decoded' = decoded + 1
    /\ \E b \in Bufs :
         /\ Filling(b)
         /\ wbuf' = b
         /\ dst_bufsize' = s
         /\ dpc' = IF Fits(b, s) THEN "copy" ELSE "wait"
    /\ UNCHANGED <<en, pos, len, convert_over, filled, playerVars>>

\* ... and is dropped when neither if matches.
DropFrame ==
    /\ dpc = "next"
    /\ decoded < MaxFrames
    /\ \A b \in Bufs : ~Filling(b)
    /\ decoded' = decoded + 1
    /\ UNCHANGED <<en, pos, len, convert_over, dpc, dst_bufsize, wbuf, filled,
                   playerVars>>

\* swr_convert writes a frame larger than audio_buf past its end, whichever
\* way the flags stand: the process dies of it, or goes on with Frame or
\* DropFrame and overruns the buffer it refills as well.
FrameOverruns(s) ==
    /\ dpc = "next"
    /\ decoded < MaxFrames
    /\ s > MAX_AUDIO_FRAME_SIZE
    /\ decoded' = decoded + 1
    /\ dpc' = "exit" /\ ppc' = "exit"
    /\ UNCHANGED <<en, pos, len, convert_over, dst_bufsize, wbuf, filled, stop,
                   rbuf, amount>>

\* memcpy(buf + pos, audio_buf, dst_bufsize) ends; pos += dst_bufsize.
Copy ==
    /\ dpc = "copy"
    /\ pos' = [pos EXCEPT ![wbuf] = @ + dst_bufsize]
    /\ dpc' = "next"
    /\ UNCHANGED <<en, len, convert_over, dst_bufsize, wbuf, decoded,
                   filled, playerVars>>

ReadDoneUnchecked == TRUE

ReadDone == en[Other(wbuf)] # 1

\* while (en == 1);  "wait buf2 read done"
WaitReadDone ==
    /\ dpc = "wait"
    /\ ReadDone
    /\ dpc' = "hand"
    /\ UNCHANGED <<en, pos, len, convert_over, dst_bufsize, wbuf, decoded,
                   filled, playerVars>>

\* buf1_en = 1;  "start read buf1"
HandOver ==
    /\ dpc = "hand"
    /\ en' = [en EXCEPT ![wbuf] = 1]
    /\ filled' = [filled EXCEPT ![wbuf] = pos[wbuf]]
    /\ dpc' = "len"
    /\ UNCHANGED <<pos, len, convert_over, dst_bufsize, wbuf, decoded,
                   playerVars>>

StoreLenAfterReset == len' = [len EXCEPT ![wbuf] = 0]

StoreLen == len' = [len EXCEPT ![wbuf] = pos[wbuf]]

\* buf1_len = buf1_pos; buf1_pos = 0;
SetLen ==
    /\ dpc = "len"
    /\ StoreLen
    /\ pos' = [pos EXCEPT ![wbuf] = 0]
    /\ dpc' = "restart"
    /\ UNCHANGED <<en, convert_over, dst_bufsize, wbuf, decoded,
                   filled, playerVars>>

\* memcpy to the start of the other buffer ends; its pos = dst_bufsize.
Refill ==
    /\ dpc = "restart"
    /\ pos' = [pos EXCEPT ![Other(wbuf)] = dst_bufsize]
    /\ dpc' = "next"
    /\ UNCHANGED <<en, len, convert_over, dst_bufsize, wbuf, decoded,
                   filled, playerVars>>

\* av_read_frame fails: end of input; sleep(1); convert_over = 1.
ConvertOver ==
    /\ dpc = "next"
    /\ convert_over' = 1
    /\ dpc' = "join"
    /\ UNCHANGED <<en, pos, len, dst_bufsize, wbuf, decoded, filled,
                   playerVars>>

PlayerStopped == stop # 0

\* while (stop == 0);  then everything is freed and main returns.
Finish ==
    /\ dpc = "join"
    /\ PlayerStopped
    /\ dpc' = "exit"
    /\ UNCHANGED <<en, pos, len, convert_over, dst_bufsize, wbuf, decoded,
                   filled, playerVars>>

Decoder == \/ Setup \/ Create \/ Arm1 \/ Arm2
           \/ (\E s \in FrameSizes : Frame(s) \/ FrameOverruns(s))
           \/ DropFrame \/ Copy \/ WaitReadDone \/ HandOver \/ SetLen
           \/ Refill \/ ConvertOver \/ Finish

-----------------------------------------------------------------------------
(* pcm_play.                                                               *)

\* pcm_open succeeds, or the whole process exits.
Open ==
    /\ ppc = "open"
    /\ \/ ppc' = "poll" /\ UNCHANGED dpc
       \/ ppc' = "exit" /\ dpc' = "exit"
    /\ UNCHANGED <<en, pos, len, convert_over, dst_bufsize, wbuf, decoded,
                   filled, stop, rbuf, amount>>

\* if (buf2_en == 1) ... else if (buf1_en == 1) ...
Poll ==
    /\ ppc = "poll"
    /\ \/ en[2] = 1 /\ rbuf' = 2 /\ ppc' = "call"
       \/ en[2] # 1 /\ en[1] = 1 /\ rbuf' = 1 /\ ppc' = "call"
       \/ en[2] # 1 /\ en[1] # 1 /\ rbuf' = rbuf /\ ppc' = "loop"
    /\ UNCHANGED <<en, decoderVars, stop, amount>>

\* pcm_write is called with the length the buffer has now.
CallWrite ==
    /\ ppc = "call"
    /\ amount' = len[rbuf]
    /\ ppc' = "write"
    /\ UNCHANGED <<en, decoderVars, stop, rbuf>>

ClearNothing == UNCHANGED en

ClearFlag == en' = [en EXCEPT ![rbuf] = 0]

\* pcm_write returns, with or without an error; the flag is cleared.
Written ==
    /\ ppc = "write"
    /\ ClearFlag
    /\ ppc' = "loop"
    /\ UNCHANGED <<decoderVars, stop, rbuf, amount>>

\* while (convert_over == 0)
Loop ==
    /\ ppc = "loop"
    /\ ppc' = IF convert_over = 0 THEN "poll" ELSE "close"
    /\ UNCHANGED <<en, decoderVars, stop, rbuf, amount>>

\* pcm_close; stop = 1.
Close ==
    /\ ppc = "close"
    /\ stop' = 1
    /\ ppc' = "exit"
    /\ UNCHANGED <<en, decoderVars, rbuf, amount>>

Player == Open \/ Poll \/ CallWrite \/ Written \/ Loop \/ Close

Exited == dpc = "exit" /\ UNCHANGED audioVars

AudioNext == Decoder \/ Player \/ Exited

AudioSpec == AudioInit /\ [][AudioNext]_audioVars

\* Both threads are scheduled; pcm_write and pcm_open return.
FairSpec == AudioSpec /\ WF_audioVars(Decoder) /\ WF_audioVars(Player)

-----------------------------------------------------------------------------
(* Properties.                                                             *)

\* What a buffer may hold: frames that fit, or one frame that alone does not.
Amounts == 0 .. MAX_AUDIO_FRAME_SIZE
           \cup {s \in FrameSizes : s > MAX_AUDIO_FRAME_SIZE}

\* The type invariant.  However many frames are gathered in a buffer, pos and
\* len exceed it only when it holds a single frame that alone is larger, so
\* such a frame is the only way a memcpy of main, or pcm_write after it, runs
\* past the end: the test at ffmpeg_alsa.c:172 is about sums of frames, and
\* lines 178 and 194 copy to the start of a buffer without any test.
AudioTypeOK ==
    /\ en \in [Bufs -> {0, 1}]
    /\ pos \in [Bufs -> Amounts]
    /\ len \in [Bufs -> Amounts]
    /\ filled \in [Bufs -> Amounts]
    /\ convert_over \in {0, 1}
    /\ stop \in {0, 1}
    /\ dst_bufsize \in Amounts
    /\ wbuf \in Bufs /\ rbuf \in Bufs
    /\ amount \in Amounts
    /\ decoded \in 0 .. MaxFrames
    /\ dpc \in {"setup", "create", "arm1", "arm2", "next", "copy", "wait",
                "hand", "len", "restart", "join", "exit"}
    /\ ppc \in {"none", "open", "poll", "call", "write", "loop", "close",
                "exit"}

\* The player is reading, or has decided to read, buffer b.
Reading(b) == ppc \in {"call", "write"} /\ rbuf = b

\* main is inside memcpy to buffer b.
Writing(b) == \/ dpc = "copy" /\ wbuf = b
              \/ dpc = "restart" /\ Other(wbuf) = b

\* main never copies a frame into the buffer that pcm_write is sending to
\* the sound card, although no lock protects it.
NoOverwrite == \A b \in Bufs : ~(Reading(b) /\ Writing(b))

\* Both flags are clear while main is between frames.
BothClear == dpc = "next" /\ en[1] = 0 /\ en[2] = 0

\* Once the player catches up before the other buffer is full, playback is
\* over: main finds neither buffer out, drops every later frame and never
\* hands a buffer over again.
StarvedForever == [](BothClear => [](en[1] = 0 /\ en[2] = 0))

\* The program ends: main's two spin loops and the player's loop all stop.
BothExit == <>(dpc = "exit" /\ ppc = "exit")

\* The amount that pcm_write sends is what the buffer held when it was handed
\* over, from the call until it returns and whatever main does meanwhile, with
\* one exception: ffmpeg_alsa.c:175 lets the player read before line 176 has
\* stored the length, and a call between the two takes the length of an
\* earlier filling.
ReadsWhatWasFilled ==
    [][(ppc' = "write" /\ (ppc = "write" => amount = filled[rbuf])) =>
          \/ amount' = filled'[rbuf']
          \/ ppc = "call" /\ dpc = "len" /\ wbuf = rbuf]_audioVars
=============================================================================
