----------------------------- MODULE FileTransfer -----------------------------
(***************************************************************************)
(* send_file.c and recv_file.c at the two ends of one TCP connection.  The *)
(* sender reads ./test.jpg in chunks and pushes each through send, which   *)
(* may take only part of it; the receiver appends whatever recv returns to *)
(* recv.jpg until the peer closes.                                         *)
(*                                                                         *)
(* A byte is the number of its place in the file, so the stream and the    *)
(* received file are sequences of places.                                  *)
(***************************************************************************)
EXTENDS Naturals, Sequences

CONSTANTS
    FileLen,   \* length of ./test.jpg
    CHUNK,     \* bytes per fread and per recv (1024000 in the code)
    SockBuf,   \* bytes the connection holds between send and recv
    MaxShort   \* bound: fwrite calls that write less than they were given

ASSUME TransferAssumption ==
    /\ FileLen \in Nat
    /\ CHUNK \in Nat \ {0}
    /\ SockBuf \in Nat \ {0}
    /\ MaxShort \in Nat

VARIABLES
    spc,          \* sender: "connect", "fread", "send", "spin", "done", "dead"
    fpos,         \* position of fp after the last fread
    read_bytes,   \* bytes in buf
    total_send_bytes,
    ready_to_send_bytes,
    rpc,          \* receiver: "bind", "accept", "recv", "done", "failed"
    conn,         \* "none", "up", "fin" (sender closed), "reset"
    net,          \* bytes sent and not yet received
    out,          \* what recv.jpg holds
    shorts        \* short fwrites so far

sender == <<spc, fpos, read_bytes, total_send_bytes, ready_to_send_bytes>>
vars == <<sender, rpc, conn, net, out, shorts>>

Init ==
    /\ spc = "connect"
    /\ fpos = 0
    /\ read_bytes = 0
    /\ total_send_bytes = 0
    /\ ready_to_send_bytes = 0
    /\ rpc = "bind"
    /\ conn = "none"
    /\ net = <<>>
    /\ out = <<>>
    /\ shorts = 0

Lesser(a, b) == IF a < b THEN a ELSE b

-----------------------------------------------------------------------------
(* send_file.c                                                             *)

\* connect succeeds once the receiver listens; on failure sockfd is -1 and
\* send_file runs all the same.
Connect ==
    /\ spc = "connect"
    /\ \/ /\ rpc = "accept" /\ conn = "none"
          /\ conn' = "up"
       \/ UNCHANGED conn
    /\ spc' = "fread"
    /\ UNCHANGED <<fpos, read_bytes, total_send_bytes, ready_to_send_bytes,
                   rpc, net, out, shorts>>

\* fread returns a chunk; both counters start over.
Fread ==
    /\ spc = "fread"
    /\ fpos < FileLen
    /\ LET n == Lesser(CHUNK, FileLen - fpos) IN
         /\ fpos' = fpos + n
         /\ read_bytes' = n
         /\ ready_to_send_bytes' = n
    /\ total_send_bytes' = 0
    /\ spc' = "send"
    /\ UNCHANGED <<rpc, conn, net, out, shorts>>

\* The n bytes at &buf[total_send_bytes].
AtTotal(n) ==
    [i \in 1 .. n |-> (fpos - read_bytes) + total_send_bytes + i]

\* send takes all that is left: break, and the next chunk is read.
SendAll ==
    /\ spc = "send"
    /\ conn = "up"
    /\ Len(net) + ready_to_send_bytes <= SockBuf
    /\ net' = net \o AtTotal(ready_to_send_bytes)
    /\ spc' = "fread"
    /\ UNCHANGED <<fpos, read_bytes, total_send_bytes, ready_to_send_bytes,
                   rpc, conn, out, shorts>>

Advance(n) ==
    /\ total_send_bytes' = total_send_bytes + n
    /\ ready_to_send_bytes' = ready_to_send_bytes - n

\* send takes n of them: the counters move and send is called again.
SendPart(n) ==
    /\ spc = "send"
    /\ conn = "up"
    /\ n < ready_to_send_bytes
    /\ Len(net) + n <= SockBuf
    /\ net' = net \o AtTotal(n)
    /\ Advance(n)
    /\ UNCHANGED <<spc, fpos, read_bytes, rpc, conn, out, shorts>>

\* send on sockfd -1 fails with an errno that is not 11: none of the branches
\* applies and the loop calls send again, for ever.
SendFails ==
    /\ spc \in {"send", "spin"}
    /\ conn = "none"
    /\ spc' = "spin"
    /\ UNCHANGED <<fpos, read_bytes, total_send_bytes, ready_to_send_bytes,
                   rpc, conn, net, out, shorts>>

\* send on a connection that was reset: the error is ignored like any other
\* and the next call ends the process with SIGPIPE.
SendBroken ==
    /\ spc = "send"
    /\ conn = "reset"
    /\ spc' = "dead"
    /\ UNCHANGED <<fpos, read_bytes, total_send_bytes, ready_to_send_bytes,
                   rpc, conn, net, out, shorts>>

Fin == IF conn = "up" THEN "fin" ELSE conn

\* fread returns 0; main returns and the exit closes the socket.
SendDone ==
    /\ spc = "fread"
    /\ fpos = FileLen
    /\ spc' = "done"
    /\ conn' = Fin
    /\ UNCHANGED <<fpos, read_bytes, total_send_bytes, ready_to_send_bytes,
                   rpc, net, out, shorts>>

\* The sender is killed part-way; what it sent is still delivered.
SenderKilled ==
    /\ spc \in {"fread", "send"}
    /\ conn = "up"
    /\ spc' = "dead"
    /\ conn' = "fin"
    /\ UNCHANGED <<fpos, read_bytes, total_send_bytes, ready_to_send_bytes,
                   rpc, net, out, shorts>>

\* The connection breaks and the bytes in flight are lost.
ConnectionReset ==
    /\ conn = "up"
    /\ conn' = "reset"
    /\ net' = <<>>
    /\ UNCHANGED <<sender, rpc, out, shorts>>

-----------------------------------------------------------------------------
(* recv_file.c                                                             *)

\* socket, bind and listen; when they fail accept fails too.
BindListen ==
    /\ rpc = "bind"
    /\ rpc' \in {"accept", "failed"}
    /\ UNCHANGED <<sender, conn, net, out, shorts>>

\* accept returns a connection ...
Accept ==
    /\ rpc = "accept"
    /\ conn # "none"
    /\ rpc' = "recv"
    /\ UNCHANGED <<sender, conn, net, out, shorts>>

\* ... or fails: main returns, and the exit closes the listening socket, which
\* resets a connection that was waiting in it.
AcceptFails ==
    /\ rpc = "accept"
    /\ rpc' = "failed"
    /\ conn' = IF conn = "none" THEN "none" ELSE "reset"
    /\ net' = <<>>
    /\ UNCHANGED <<sender, out, shorts>>

RecvPeeked(n) == net' = net

\* The bytes recv returns leave the stream.
Consumed(n) == net' = SubSeq(net, n + 1, Len(net))

\* recv returns n bytes and fwrite writes k of them; a short write is logged
\* and otherwise ignored.
Recv(n, k) ==
    /\ rpc = "recv"
    /\ n <= Len(net) /\ n <= CHUNK
    /\ k = n \/ (k < n /\ shorts < MaxShort)
    /\ out' = out \o SubSeq(net, 1, k)
    /\ shorts' = IF k < n THEN shorts + 1 ELSE shorts
    /\ Consumed(n)
    /\ UNCHANGED <<sender, rpc, conn>>

PeerFinOnly == conn = "fin" /\ net = <<>>

RecvClosedEarly == conn \in {"fin", "reset"}

\* recv has nothing left and the peer is gone.
PeerClosed == conn \in {"fin", "reset"} /\ net = <<>>

\* recv returns 0: sockfd = -1 ends the loop.  A reset first makes recv return
\* -1, which the loop ignores.
RecvEnd ==
    /\ rpc = "recv"
    /\ PeerClosed
    /\ rpc' = "done"
    /\ UNCHANGED <<sender, conn, net, out, shorts>>

Ended ==
    /\ rpc \in {"done", "failed", "accept"}
    /\ spc \in {"done", "dead", "spin"}
    /\ UNCHANGED vars

-----------------------------------------------------------------------------
Send == \/ Connect \/ Fread \/ SendAll \/ (\E n \in 1 .. CHUNK : SendPart(n))
        \/ SendFails \/ SendBroken \/ SendDone

Receive == \/ BindListen \/ Accept \/ AcceptFails \/ RecvEnd
           \/ \E n \in 1 .. CHUNK, k \in 0 .. CHUNK : Recv(n, k)

Next == Send \/ Receive \/ SenderKilled \/ ConnectionReset \/ Ended

Spec == Init /\ [][Next]_vars

\* Both processes run and the network moves what it holds.  Nothing is
\* assumed of kills and resets.
FairSpec == Spec /\ WF_vars(Send) /\ WF_vars(Receive)

-----------------------------------------------------------------------------
(* Properties.                                                             *)

\* The type invariant.
TypeOK ==
    /\ spc \in {"connect", "fread", "send", "spin", "done", "dead"}
    /\ fpos \in 0 .. FileLen
    /\ read_bytes \in 0 .. CHUNK
    /\ total_send_bytes \in 0 .. CHUNK
    /\ ready_to_send_bytes \in 0 .. CHUNK
    /\ rpc \in {"bind", "accept", "recv", "done", "failed"}
    /\ conn \in {"none", "up", "fin", "reset"}
    /\ net \in Seq(Nat)
    /\ out \in Seq(Nat)
    /\ shorts \in 0 .. MaxShort

\* The first n bytes of the file.
FilePrefix(n) == [i \in 1 .. n |-> i]

\* Unless fwrite fell short, recv.jpg is at every moment a prefix of the file:
\* partial sends, retries, chunk boundaries and a broken connection never
\* duplicate, skip or reorder a byte.
ReceivedIsPrefix ==
    shorts = 0 => out = FilePrefix(Len(out)) /\ Len(out) <= FileLen

\* When the sender got through the file over a connection that was not reset,
\* a receiver that saw the end has all of it.
CompleteWhenClosed ==
    (rpc = "done" /\ spc = "done" /\ conn = "fin" /\ shorts = 0) =>
        out = FilePrefix(FileLen)

\* A receiver to which a connection was made stops: its accept failed, or it
\* stays in its loop only while the sender lives, and a sender that has a
\* connection ends.
ReceiverStops == (conn # "none") ~> (rpc \in {"done", "failed"})
=============================================================================
