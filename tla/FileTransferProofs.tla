-------------------------- MODULE FileTransferProofs --------------------------
(***************************************************************************)
(* Proofs about FileTransfer for any file, chunk size and socket buffer.   *)
(* The prefix property needs to know what is in flight: the stream         *)
(* continues the received file and ends where the sender's counters say    *)
(* the next byte to send is.                                               *)
(***************************************************************************)
EXTENDS FileTransfer, SequenceTheorems, TLAPS

\* The sender's counters describe the part of buf that is left to send.
CountersOK ==
    /\ read_bytes <= fpos
    /\ spc \in {"send", "spin"} =>
          /\ ready_to_send_bytes = read_bytes - total_send_bytes
          /\ ready_to_send_bytes > 0
    /\ spc = "done" => fpos = FileLen

\* How much of the file the sender has handed to send.
SentSoFar ==
    IF spc \in {"send", "spin"} THEN (fpos - read_bytes) + total_send_bytes
    ELSE fpos

\* s counts upwards from just above a.
Counts(s, a) == \A i \in 1 .. Len(s) : s[i] = a + i

\* The stream continues the received file without a gap.
StreamOK ==
    shorts = 0 =>
        /\ Counts(out, 0)
        /\ Counts(net, Len(out))
        /\ Len(out) + Len(net) <= FileLen
        /\ (conn \in {"up", "fin"} /\ spc # "dead") =>
              Len(out) + Len(net) = SentSoFar

\* Who is where when nothing, or nothing more, is in flight.
EndsOK ==
    /\ conn = "none" => net = <<>> /\ out = <<>>
    /\ spc = "connect" => conn = "none" /\ fpos = 0
    /\ spc \in {"done", "dead"} => conn # "up"
    /\ conn = "fin" => spc \in {"done", "dead"}
    /\ rpc = "done" => net = <<>> /\ conn \in {"fin", "reset"}

IInv == TypeOK /\ CountersOK /\ StreamOK /\ EndsOK

LEMMA InitIInv == Init => IInv
  BY TransferAssumption DEF Init, IInv, TypeOK, CountersOK, StreamOK, EndsOK,
     SentSoFar, Counts

-----------------------------------------------------------------------------
\* Two runs that meet make one.
LEMMA CountsConcat ==
    ASSUME NEW s \in Seq(Nat), NEW t \in Seq(Nat), NEW a \in Nat,
           Counts(s, a), Counts(t, a + Len(s))
    PROVE  /\ s \o t \in Seq(Nat)
           /\ Len(s \o t) = Len(s) + Len(t)
           /\ Counts(s \o t, a)
<1>1. Len(s) \in Nat /\ Len(t) \in Nat
  BY LenProperties
<1>2. s \o t \in Seq(Nat) /\ Len(s \o t) = Len(s) + Len(t)
  BY ConcatProperties
<1>3. ASSUME NEW i \in 1 .. Len(s) + Len(t) PROVE (s \o t)[i] = a + i
  <2>1. (s \o t)[i] = IF i <= Len(s) THEN s[i] ELSE t[i - Len(s)]
    BY ConcatProperties
  <2>2. CASE i <= Len(s)
    BY <1>1, <2>1, <2>2 DEF Counts
  <2>3. CASE ~(i <= Len(s))
    <3>1. i - Len(s) \in 1 .. Len(t)
      BY <1>1, <2>3
    <3>2. t[i - Len(s)] = (a + Len(s)) + (i - Len(s))
      BY <3>1 DEF Counts
    <3> QED
      BY <1>1, <2>1, <2>3, <3>2
  <2> QED
    BY <2>2, <2>3
<1> QED
  BY <1>2, <1>3 DEF Counts

\* A run falls into two runs.
LEMMA CountsSplit ==
    ASSUME NEW s \in Seq(Nat), NEW a \in Nat, NEW n \in 0 .. Len(s)
    PROVE  /\ SubSeq(s, 1, n) \in Seq(Nat)
           /\ Len(SubSeq(s, 1, n)) = n
           /\ SubSeq(s, n + 1, Len(s)) \in Seq(Nat)
           /\ Len(SubSeq(s, n + 1, Len(s))) = Len(s) - n
           /\ Counts(s, a) => Counts(SubSeq(s, 1, n), a)
           /\ Counts(s, a) => Counts(SubSeq(s, n + 1, Len(s)), a + n)
<1>1. Len(s) \in Nat /\ \A i \in 1 .. Len(s) : s[i] \in Nat
  BY LenProperties, ElementOfSeq
<1>2. /\ SubSeq(s, 1, n) \in Seq(Nat)
      /\ Len(SubSeq(s, 1, n)) = n
      /\ \A i \in 1 .. n : SubSeq(s, 1, n)[i] = s[i]
  <2>1. \A i \in 1 .. n : s[i] \in Nat
    BY <1>1
  <2>2. /\ SubSeq(s, 1, n) \in Seq(Nat)
        /\ Len(SubSeq(s, 1, n)) = IF 1 <= n THEN n - 1 + 1 ELSE 0
        /\ \A i \in 1 .. n - 1 + 1 : SubSeq(s, 1, n)[i] = s[1 + i - 1]
    BY <2>1, <1>1, SubSeqProperties
  <2> QED
    BY <2>2, <1>1
<1>3. /\ SubSeq(s, n + 1, Len(s)) \in Seq(Nat)
      /\ Len(SubSeq(s, n + 1, Len(s))) = Len(s) - n
      /\ \A i \in 1 .. Len(s) - n :
             SubSeq(s, n + 1, Len(s))[i] = s[n + i]
  <2>1. \A i \in n + 1 .. Len(s) : s[i] \in Nat
    BY <1>1
  <2>2. n + 1 \in Int /\ Len(s) \in Int
    BY <1>1
  <2>3. /\ SubSeq(s, n + 1, Len(s)) \in Seq(Nat)
        /\ Len(SubSeq(s, n + 1, Len(s))) =
               IF n + 1 <= Len(s) THEN Len(s) - (n + 1) + 1 ELSE 0
        /\ \A i \in 1 .. Len(s) - (n + 1) + 1 :
               SubSeq(s, n + 1, Len(s))[i] = s[(n + 1) + i - 1]
    BY <2>1, <2>2, SubSeqProperties
  <2>4. Len(s) - (n + 1) + 1 = Len(s) - n
        /\ \A i \in 1 .. Len(s) - n : (n + 1) + i - 1 = n + i
    BY <1>1
  <2>5. Len(SubSeq(s, n + 1, Len(s))) = Len(s) - n
    <3>1. CASE n + 1 <= Len(s)
      BY <2>3, <2>4, <3>1
    <3>2. CASE ~(n + 1 <= Len(s))
      <4>1. n = Len(s)
        BY <1>1, <3>2
      <4> QED
        BY <1>1, <2>3, <3>2, <4>1
    <3> QED
      BY <3>1, <3>2
  <2>6. ASSUME NEW i \in 1 .. Len(s) - n
        PROVE  SubSeq(s, n + 1, Len(s))[i] = s[n + i]
    BY <2>3, <2>4
  <2> QED
    BY <2>3, <2>5, <2>6
<1>4. ASSUME Counts(s, a) PROVE Counts(SubSeq(s, 1, n), a)
  BY <1>1, <1>2, <1>4 DEF Counts
<1>5. ASSUME Counts(s, a) PROVE Counts(SubSeq(s, n + 1, Len(s)), a + n)
  <2>1. ASSUME NEW i \in 1 .. Len(s) - n
        PROVE  SubSeq(s, n + 1, Len(s))[i] = (a + n) + i
    <3>1. n + i \in 1 .. Len(s)
      BY <1>1
    <3>2. s[n + i] = a + (n + i)
      BY <3>1, <1>5 DEF Counts
    <3> QED
      BY <1>1, <1>3, <3>2
  <2> QED
    BY <1>3, <2>1 DEF Counts
<1> QED
  BY <1>2, <1>3, <1>4, <1>5

\* What send appends to the stream: the bytes that follow those sent so far.
LEMMA AtTotalCounts ==
    ASSUME TypeOK, read_bytes <= fpos, NEW n \in Nat
    PROVE  /\ AtTotal(n) \in Seq(Nat)
           /\ Len(AtTotal(n)) = n
           /\ Counts(AtTotal(n), (fpos - read_bytes) + total_send_bytes)
<1>1. (fpos - read_bytes) + total_send_bytes \in Nat
  BY TransferAssumption DEF TypeOK
<1>2. \A i \in 1 .. n : (fpos - read_bytes) + total_send_bytes + i \in Nat
  BY <1>1
<1> QED
  BY <1>2 DEF AtTotal, Counts

\* A send of n bytes keeps the stream a continuation of the received file.
LEMMA SendKeepsStream ==
    ASSUME IInv, spc = "send", conn = "up", shorts = 0,
           NEW n \in Nat, net' = net \o AtTotal(n)
    PROVE  /\ Len(net') = Len(net) + n
           /\ Counts(net', Len(out))
           /\ Len(out) + Len(net') =
                  (fpos - read_bytes) + total_send_bytes + n
<1>1. net \in Seq(Nat) /\ Len(net) \in Nat /\ Len(out) \in Nat
  BY LenProperties DEF IInv, TypeOK
<1>2. /\ AtTotal(n) \in Seq(Nat) /\ Len(AtTotal(n)) = n
      /\ Counts(AtTotal(n), (fpos - read_bytes) + total_send_bytes)
  BY AtTotalCounts DEF IInv, CountersOK
<1>3. /\ Counts(net, Len(out))
      /\ Len(out) + Len(net) = (fpos - read_bytes) + total_send_bytes
  BY DEF IInv, StreamOK, SentSoFar
<1>4. Len(net \o AtTotal(n)) = Len(net) + Len(AtTotal(n))
      /\ Counts(net \o AtTotal(n), Len(out))
  BY <1>1, <1>2, <1>3, CountsConcat
<1>5. Len(net') = Len(net) + n /\ Counts(net', Len(out))
  BY <1>2, <1>4
<1>6. Len(out) + (Len(net) + n) = (Len(out) + Len(net)) + n
  BY <1>1
<1> QED
  BY <1>3, <1>5, <1>6

\* So does a recv whose n bytes are all written.
LEMMA RecvKeepsStream ==
    ASSUME IInv, shorts = 0, NEW n \in 1 .. Len(net),
           out' = out \o SubSeq(net, 1, n),
           net' = SubSeq(net, n + 1, Len(net))
    PROVE  /\ Counts(out', 0)
           /\ Counts(net', Len(out'))
           /\ Len(out') + Len(net') = Len(out) + Len(net)
<1>1. /\ net \in Seq(Nat) /\ out \in Seq(Nat)
      /\ Len(net) \in Nat /\ Len(out) \in Nat
  BY LenProperties DEF IInv, TypeOK
<1>2. Counts(out, 0) /\ Counts(net, Len(out))
  BY DEF IInv, StreamOK
<1>3. n \in 0 .. Len(net)
  BY <1>1
<1>4. /\ SubSeq(net, 1, n) \in Seq(Nat)
      /\ Len(SubSeq(net, 1, n)) = n
      /\ Len(net') = Len(net) - n
      /\ Counts(SubSeq(net, 1, n), Len(out))
      /\ Counts(net', Len(out) + n)
  BY <1>1, <1>2, <1>3, CountsSplit
<1>5. 0 + Len(out) = Len(out) /\ 0 \in Nat
  BY <1>1
<1>6. Len(out') = Len(out) + n /\ Counts(out', 0)
  BY <1>1, <1>2, <1>4, <1>5, CountsConcat
<1>7. (Len(out) + n) + (Len(net) - n) = Len(out) + Len(net)
  BY <1>1
<1> QED
  BY <1>4, <1>6, <1>7

-----------------------------------------------------------------------------
\* Every step keeps the inductive invariant.
LEMMA StepIInv == IInv /\ [Next]_vars => IInv'
<1> SUFFICES ASSUME IInv, [Next]_vars PROVE IInv'
  OBVIOUS
<1> USE TransferAssumption DEF IInv
<1>1. CASE Connect
  BY <1>1 DEF Connect, TypeOK, CountersOK, StreamOK, EndsOK, SentSoFar
<1>2. CASE Fread
  <2>1. Lesser(CHUNK, FileLen - fpos) \in 1 .. CHUNK
        /\ Lesser(CHUNK, FileLen - fpos) <= FileLen - fpos
    BY <1>2 DEF Fread, TypeOK, Lesser
  <2>2. TypeOK'
    BY <1>2, <2>1 DEF Fread, TypeOK
  <2>3. CountersOK'
    BY <1>2, <2>1 DEF Fread, TypeOK, CountersOK
  <2>4. StreamOK'
    BY <1>2, <2>1 DEF Fread, TypeOK, CountersOK, StreamOK, SentSoFar
  <2>5. EndsOK'
    BY <1>2 DEF Fread, EndsOK
  <2> QED
    BY <2>2, <2>3, <2>4, <2>5
<1>3. CASE SendAll
  <2>1. ready_to_send_bytes \in Nat
    BY DEF TypeOK
  <2>2. TypeOK'
    <3>1. net' \in Seq(Nat)
      BY <1>3, <2>1, AtTotalCounts, ConcatProperties
      DEF SendAll, TypeOK, CountersOK
    <3> QED
      BY <1>3, <3>1 DEF SendAll, TypeOK
  <2>3. CountersOK'
    BY <1>3 DEF SendAll, CountersOK
  <2>4. StreamOK'
    <3>1. CASE shorts = 0
      <4>1. /\ Counts(net', Len(out))
            /\ Len(out) + Len(net') =
                  (fpos - read_bytes) + total_send_bytes + ready_to_send_bytes
        BY <1>3, <2>1, <3>1, SendKeepsStream DEF SendAll
      <4>2. (fpos - read_bytes) + total_send_bytes + ready_to_send_bytes = fpos
            /\ fpos <= FileLen
        BY <1>3 DEF SendAll, CountersOK, TypeOK
      <4> QED
        BY <1>3, <3>1, <4>1, <4>2 DEF SendAll, StreamOK, SentSoFar
    <3>2. CASE shorts # 0
      BY <1>3, <3>2 DEF SendAll, StreamOK
    <3> QED
      BY <3>1, <3>2
  <2>5. EndsOK'
    BY <1>3 DEF SendAll, EndsOK
  <2> QED
    BY <2>2, <2>3, <2>4, <2>5
<1>4. ASSUME NEW n \in 1 .. CHUNK, SendPart(n) PROVE IInv'
  <2>1. n \in Nat
    OBVIOUS
  <2>2. TypeOK'
    <3>1. net' \in Seq(Nat)
      BY <1>4, <2>1, AtTotalCounts, ConcatProperties
      DEF SendPart, TypeOK, CountersOK
    <3> QED
      BY <1>4, <3>1 DEF SendPart, Advance, TypeOK, CountersOK
  <2>3. CountersOK'
    BY <1>4 DEF SendPart, Advance, CountersOK, TypeOK
  <2>4. StreamOK'
    <3>1. CASE shorts = 0
      <4>1. /\ Counts(net', Len(out))
            /\ Len(out) + Len(net') =
                  (fpos - read_bytes) + total_send_bytes + n
        BY <1>4, <2>1, <3>1, SendKeepsStream DEF SendPart
      <4>2. /\ (fpos - read_bytes) + total_send_bytes + n <= FileLen
            /\ (fpos - read_bytes) + total_send_bytes + n
                  = (fpos - read_bytes) + (total_send_bytes + n)
        BY <1>4 DEF SendPart, CountersOK, TypeOK
      <4> QED
        BY <1>4, <3>1, <4>1, <4>2
        DEF SendPart, Advance, StreamOK, SentSoFar
    <3>2. CASE shorts # 0
      BY <1>4, <3>2 DEF SendPart, StreamOK
    <3> QED
      BY <3>1, <3>2
  <2>5. EndsOK'
    BY <1>4 DEF SendPart, Advance, EndsOK
  <2> QED
    BY <2>2, <2>3, <2>4, <2>5
<1>5. CASE SendFails
  BY <1>5 DEF SendFails, TypeOK, CountersOK, StreamOK, EndsOK, SentSoFar
<1>6. CASE SendBroken
  BY <1>6 DEF SendBroken, TypeOK, CountersOK, StreamOK, EndsOK, SentSoFar
<1>7. CASE SendDone
  BY <1>7 DEF SendDone, Fin, TypeOK, CountersOK, StreamOK, EndsOK, SentSoFar
<1>8. CASE SenderKilled
  BY <1>8 DEF SenderKilled, TypeOK, CountersOK, StreamOK, EndsOK, SentSoFar
<1>9. CASE ConnectionReset
  BY <1>9 DEF ConnectionReset, sender, TypeOK, CountersOK, StreamOK, EndsOK,
     SentSoFar, Counts
<1>10. CASE BindListen \/ Accept
  BY <1>10 DEF BindListen, Accept, sender, TypeOK, CountersOK, StreamOK,
     EndsOK, SentSoFar
<1>14. CASE AcceptFails
  BY <1>14 DEF AcceptFails, sender, TypeOK, CountersOK, StreamOK, EndsOK,
     SentSoFar, Counts
<1>11. CASE RecvEnd
  BY <1>11 DEF RecvEnd, PeerClosed, sender, TypeOK, CountersOK, StreamOK,
     EndsOK, SentSoFar
<1>12. ASSUME NEW n \in 1 .. CHUNK, NEW k \in 0 .. CHUNK, Recv(n, k)
       PROVE  IInv'
  <2> USE DEF Recv, Consumed, sender
  <2>1. Len(net) \in Nat /\ n \in 0 .. Len(net) /\ k \in 0 .. Len(net)
    BY <1>12 DEF TypeOK
  <2>2. TypeOK'
    <3>1. /\ SubSeq(net, 1, k) \in Seq(Nat)
          /\ SubSeq(net, n + 1, Len(net)) \in Seq(Nat)
      BY <2>1, CountsSplit DEF TypeOK
    <3>2. out' \in Seq(Nat)
      BY <1>12, <3>1, ConcatProperties DEF TypeOK
    <3> QED
      BY <1>12, <3>1, <3>2 DEF TypeOK
  <2>3. CountersOK'
    BY <1>12 DEF CountersOK
  <2>4. StreamOK'
    <3>1. CASE shorts = 0 /\ k = n
      <4>1. n \in 1 .. Len(net) /\ shorts' = shorts
        BY <1>12, <3>1
      <4>2. /\ Counts(out', 0)
            /\ Counts(net', Len(out'))
            /\ Len(out') + Len(net') = Len(out) + Len(net)
        BY <1>12, <3>1, <4>1, RecvKeepsStream
      <4> QED
        BY <1>12, <3>1, <4>1, <4>2 DEF StreamOK, SentSoFar
    <3>2. CASE ~(shorts = 0 /\ k = n)
      <4>1. shorts' # 0
        BY <1>12, <3>2 DEF TypeOK
      <4> QED
        BY <4>1 DEF StreamOK
    <3> QED
      BY <3>1, <3>2
  <2>5. EndsOK'
    <3>1. net # <<>>
      BY <1>12
    <3> QED
      BY <1>12, <3>1 DEF EndsOK
  <2> QED
    BY <2>2, <2>3, <2>4, <2>5
<1>13. CASE UNCHANGED vars
  BY <1>13 DEF vars, sender, TypeOK, CountersOK, StreamOK, EndsOK, SentSoFar
<1> QED
  BY <1>1, <1>2, <1>3, <1>4, <1>5, <1>6, <1>7, <1>8, <1>9, <1>10, <1>11,
     <1>12, <1>13, <1>14 DEF Next, Send, Receive, Ended

\* The inductive invariant of the transfer.
THEOREM TransferInvariant == Spec => []IInv
BY InitIInv, StepIInv, PTL DEF Spec

\* The receiver only ever holds a prefix of the file, for every file length,
\* chunk size and socket buffer, whatever send, recv and the network do.
THEOREM PrefixAlways == Spec => []ReceivedIsPrefix
<1>1. IInv => ReceivedIsPrefix
  <2> SUFFICES ASSUME IInv, shorts = 0
               PROVE  out = FilePrefix(Len(out)) /\ Len(out) <= FileLen
    BY DEF ReceivedIsPrefix
  <2>1. out \in Seq(Nat) /\ net \in Seq(Nat)
    BY DEF IInv, TypeOK
  <2>2. \A i \in 1 .. Len(out) : out[i] = i
    BY DEF IInv, StreamOK, Counts
  <2>3. out = FilePrefix(Len(out))
    BY <2>1, <2>2 DEF FilePrefix
  <2>4. Len(out) <= FileLen
    BY <2>1, TransferAssumption DEF IInv, StreamOK
  <2> QED
    BY <2>3, <2>4
<1> QED
  BY <1>1, TransferInvariant, PTL

\* After an orderly close the receiver holds the whole file.
THEOREM CompleteAlways == Spec => []CompleteWhenClosed
<1>1. IInv => CompleteWhenClosed
  <2> SUFFICES ASSUME IInv, rpc = "done", spc = "done", conn = "fin",
                      shorts = 0
               PROVE  out = FilePrefix(FileLen)
    BY DEF CompleteWhenClosed
  <2>1. out \in Seq(Nat) /\ Len(net) = 0
    BY DEF IInv, TypeOK, EndsOK
  <2>2. Len(out) = FileLen
    BY <2>1 DEF IInv, StreamOK, SentSoFar, CountersOK
  <2>3. \A i \in 1 .. Len(out) : out[i] = i
    BY DEF IInv, StreamOK, Counts
  <2> QED
    BY <2>1, <2>2, <2>3 DEF FilePrefix
<1> QED
  BY <1>1, TransferInvariant, PTL
=============================================================================
