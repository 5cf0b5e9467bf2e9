--------------------------- MODULE FtpsClientProofs ---------------------------
(***************************************************************************)
(* The FTPS session for every file length and every number of split        *)
(* replies: replies stay paired as long as none is split, and a session    *)
(* that stays silent about a missing file is one of the named cases.       *)
(***************************************************************************)
EXTENDS FtpsClient, TLAPS

\* What the server sends.
Commands == {"HELLO", "PROT", "PBSZ", "AUTH SSL", "AUTH TLS", "USER", "PASS",
             "PASV", "TYPE", "RETR", "STOR"}

Records == [cmd : Commands, out : {"ok", "5xx", "4xx", "rest"}]

\* Before FtpsOpenPasvSockConn has opened the data connection, and after it.
Early == {"start", "connect", "init", "nego", "greet", "login", "login resp",
          "pasv", "pasv resp"}

Late == {"type", "type resp", "cmd", "cmd resp", "data ssl", "transfer"}

\* Every command is followed by one read, so what is left unread is at most
\* one second record per split reply, and one more while a read is due.
RepliesBounded ==
    /\ replies \in Seq(Records)
    /\ Len(replies) <= splits + (IF pc \in Reads THEN 1 ELSE 0)

\* Only a right password gets a transfer command accepted.
AcceptedLogin == accepted => goodLogin

\* What a session may go on without: it said nothing and yet ends.
Excused ==
    \/ silent \cap (NotBegun \cup {"killed"}) # {}
    \/ goodLogin /\ (moved = N \/ "cut short" \in silent)

\* What the client has opened, closed and left unsaid at each point.
Phases ==
    /\ pc \in Early => data = "none" /\ closes = 0 /\ silent = {}
    /\ pc \in Late  => data = "open" /\ closes = 0 /\ silent = {}
    /\ pc = "transfer" => accepted
    /\ pc = "quit"  => /\ data = "open" /\ closes = 0 /\ accepted
                       /\ moved = N \/ "cut short" \in silent
    /\ pc = "end" /\ ~printed => Excused
    /\ pc = "done" => Excused

\* The inductive invariant.
IInv ==
    /\ TypeOK /\ RepliesBounded /\ RepliesInStep /\ AcceptedLogin /\ Phases
    /\ DataClosedOnce

-----------------------------------------------------------------------------
\* Six commands log in.
LEMMA LoginLength == Len(LoginCmds) = 6
  BY DEF LoginCmds

\* Each of them is a command.
LEMMA LoginCommands ==
    ASSUME NEW i \in 1 .. 6 PROVE LoginCmds[i] \in Commands
<1>1. i = 1 \/ i = 2 \/ i = 3 \/ i = 4 \/ i = 5 \/ i = 6
  OBVIOUS
<1>2. /\ LoginCmds[1] = "PROT" /\ LoginCmds[2] = "PBSZ"
      /\ LoginCmds[3] = "AUTH SSL" /\ LoginCmds[4] = "AUTH TLS"
      /\ LoginCmds[5] = "USER" /\ LoginCmds[6] = "PASS"
  BY DEF LoginCmds
<1>3. LoginCmds[i] \in {"PROT", "PBSZ", "AUTH SSL", "AUTH TLS", "USER", "PASS"}
  BY <1>1, <1>2
<1> QED
  BY <1>3 DEF Commands

\* EnSend, called when no reply is due, leaves at most one record to read
\* beyond the second halves, and it answers the command sent.
LEMMA Sending ==
    ASSUME IInv, NEW c \in Commands, pc \notin Reads, EnSend(c)
    PROVE  /\ replies' \in Seq(Records)
           /\ Len(replies') <= splits' + 1
           /\ splits' \in 0 .. MaxSplits
           /\ accepted' \in BOOLEAN
           /\ accepted' => accepted \/ goodLogin
           /\ accepted => accepted'
           /\ splits' = 0 /\ replies' # <<>> => replies'[1].cmd = c
<1> USE FtpsAssumption
<1>a. splits \in 0 .. MaxSplits /\ accepted \in BOOLEAN
  BY DEF IInv, TypeOK
<1>b. replies \in Seq(Records) /\ Len(replies) <= splits + 0
  BY DEF IInv, RepliesBounded
<1>0. /\ replies \in Seq(Records) /\ Len(replies) <= splits
      /\ splits \in 0 .. MaxSplits /\ accepted \in BOOLEAN
  BY <1>a, <1>b
<1>1. CASE ctl # "up" /\ UNCHANGED <<replies, splits, accepted>>
  BY <1>0, <1>1
<1>2. CASE /\ ctl = "up"
           /\ \E o \in Outcomes(c) :
                /\ \/ /\ replies' = Append(replies, Record(c, o))
                      /\ UNCHANGED splits
                   \/ /\ splits < MaxSplits
                      /\ splits' = splits + 1
                      /\ replies' = replies \o
                                     <<Record(c, o), Record(c, "rest")>>
                /\ accepted' = (accepted \/ (c = TransferCmd /\ o = "ok"))
  <2>1. PICK o \in Outcomes(c) :
                /\ \/ /\ replies' = Append(replies, Record(c, o))
                      /\ UNCHANGED splits
                   \/ /\ splits < MaxSplits
                      /\ splits' = splits + 1
                      /\ replies' = replies \o
                                     <<Record(c, o), Record(c, "rest")>>
                /\ accepted' = (accepted \/ (c = TransferCmd /\ o = "ok"))
    BY <1>2
  <2>a. o \in {"ok", "5xx", "4xx"}
    BY <2>1 DEF Outcomes
  <2>2. c = TransferCmd /\ o = "ok" => goodLogin
    BY <2>1 DEF Outcomes, TransferCmd
  <2>3. Record(c, o) \in Records /\ Record(c, "rest") \in Records
    BY <2>a DEF Record, Records
  <2>4. accepted' \in BOOLEAN /\ (accepted' => accepted \/ goodLogin)
        /\ (accepted => accepted')
    BY <2>1, <2>2, <1>0
  <2>5. CASE replies' = Append(replies, Record(c, o)) /\ UNCHANGED splits
    <3>1. replies' \in Seq(Records) /\ Len(replies') = Len(replies) + 1
      BY <2>5, <2>3, <1>0
    <3>2. splits' = 0 => replies'[1].cmd = c
      <4> SUFFICES ASSUME splits' = 0 PROVE replies'[1].cmd = c
        OBVIOUS
      <4>1. Len(replies) = 0
        BY <2>5, <1>0
      <4>2. replies'[1] = Record(c, o)
        BY <4>1, <2>5, <2>3, <1>0
      <4> QED
        BY <4>2 DEF Record
    <3> QED
      BY <3>1, <3>2, <2>4, <2>5, <1>0, <1>2
  <2>6. CASE /\ splits < MaxSplits /\ splits' = splits + 1
             /\ replies' = replies \o <<Record(c, o), Record(c, "rest")>>
    <3>1. replies' \in Seq(Records) /\ Len(replies') = Len(replies) + 2
      BY <2>6, <2>3, <1>0
    <3> QED
      BY <3>1, <2>4, <2>6, <1>0, <1>2
  <2> QED
    BY <2>1, <2>5, <2>6
<1> QED
  BY <1>1, <1>2 DEF EnSend

\* A read takes the first record away and leaves the second halves.
LEMMA Reading ==
    ASSUME IInv, Consume
    PROVE  replies' \in Seq(Records) /\ Len(replies') <= splits
<1>a. splits \in 0 .. MaxSplits
  BY DEF IInv, TypeOK
<1>b. /\ replies \in Seq(Records)
      /\ Len(replies) <= splits + (IF pc \in Reads THEN 1 ELSE 0)
  BY DEF IInv, RepliesBounded
<1>1. /\ replies \in Seq(Records) /\ Len(replies) <= splits + 1
      /\ splits \in Nat
  BY <1>a, <1>b, FtpsAssumption
<1>2. CASE replies = <<>>
  BY <1>1, <1>2 DEF Consume
<1>3. CASE replies # <<>>
  <2>1. replies' = Tail(replies)
    BY <1>3 DEF Consume
  <2>2. replies' \in Seq(Records) /\ Len(replies') = Len(replies) - 1
    BY <1>1, <1>3, <2>1
  <2> QED
    BY <1>1, <2>2
<1> QED
  BY <1>2, <1>3

\* A command of login or transfer: the client goes on to read.
LEMMA CommandStep ==
    ASSUME IInv, NEW at \in Points, NEW c \in Commands, NEW next \in Reads,
           Command(at, c, next), at \notin Reads,
           at \in Early <=> next \in Early, at \in Late <=> next \in Late,
           step' \in 0 .. Len(LoginCmds)
    PROVE  IInv'
<1>1. /\ pc = at /\ pc' = next /\ EnSend(c) /\ awaited' = c
      /\ UNCHANGED <<mode, goodArgs, goodLogin, ctl, data, closes, moved,
                     printed, silent>>
  BY DEF Command, command
<1>2. /\ replies' \in Seq(Records)
      /\ Len(replies') <= splits' + 1
      /\ splits' \in 0 .. MaxSplits
      /\ accepted' \in BOOLEAN
      /\ accepted' => accepted \/ goodLogin
      /\ splits' = 0 /\ replies' # <<>> => replies'[1].cmd = c
  BY <1>1, Sending
<1>a. Len(replies') <= 1 + MaxSplits
  BY <1>2, FtpsAssumption
<1>b. next \in Points
  BY DEF Reads, Points
<1>3. TypeOK'
  BY <1>1, <1>2, <1>a, <1>b DEF IInv, TypeOK
<1>4. RepliesBounded' /\ RepliesInStep'
  BY <1>1, <1>2, FtpsAssumption DEF RepliesBounded, RepliesInStep
<1>5. AcceptedLogin'
  BY <1>1, <1>2 DEF IInv, AcceptedLogin
<1>6. Phases' /\ DataClosedOnce'
  BY <1>1 DEF IInv, Phases, DataClosedOnce, Reads, Early, Late
<1> QED
  BY <1>3, <1>4, <1>5, <1>6 DEF IInv

\* PrintResp: one record fewer, and nothing else follows.
LEMMA PrintStep ==
    ASSUME IInv, NEW at \in Reads, NEW next \in Points,
           PrintResp(at, next), next \notin Reads, next # "transfer",
           at \in Early <=> next \in Early, at \in Late <=> next \in Late
    PROVE  IInv'
<1>1. /\ pc = at /\ pc' = next /\ Consume
      /\ UNCHANGED <<mode, goodArgs, goodLogin, step, awaited, ctl, data,
                     closes, accepted, moved, silent, splits>>
  BY DEF PrintResp, command
<1>0. printed' \in BOOLEAN
  BY DEF PrintResp, Echoed, IInv, TypeOK
<1>2. replies' \in Seq(Records) /\ Len(replies') <= splits
  BY <1>1, Reading
<1>a. splits \in 0 .. MaxSplits
  BY DEF IInv, TypeOK
<1>b. Len(replies') <= 1 + MaxSplits
  BY <1>2, <1>a, FtpsAssumption
<1>3. TypeOK'
  BY <1>0, <1>1, <1>b DEF IInv, TypeOK
<1>4. RepliesBounded' /\ RepliesInStep'
  BY <1>1, <1>2, <1>a, FtpsAssumption DEF RepliesBounded, RepliesInStep
<1>5. AcceptedLogin'
  BY <1>1 DEF IInv, AcceptedLogin
<1>c. next \notin {"end", "done", "transfer", "quit"}
  BY DEF Reads, Early, Late
<1>6. Phases' /\ DataClosedOnce'
  BY <1>1, <1>c DEF IInv, Phases, DataClosedOnce, Early, Late
<1> QED
  BY <1>3, <1>4, <1>5, <1>6 DEF IInv

\* A step that neither sends nor reads leaves commands and replies paired.
LEMMA QuietStep ==
    ASSUME IInv, UNCHANGED <<goodLogin, replies, accepted, splits>>,
           pc \notin Reads, pc' \notin Reads
    PROVE  RepliesBounded' /\ RepliesInStep' /\ AcceptedLogin'
<1>1. RepliesBounded' /\ RepliesInStep'
  BY DEF IInv, RepliesBounded, RepliesInStep
<1>2. AcceptedLogin'
  BY DEF IInv, AcceptedLogin
<1> QED
  BY <1>1, <1>2

\* So does a step that reads.
LEMMA ReadStep ==
    ASSUME IInv, Consume, UNCHANGED <<goodLogin, accepted, splits>>,
           pc' \notin Reads
    PROVE  /\ RepliesBounded' /\ RepliesInStep' /\ AcceptedLogin'
           /\ Len(replies') <= 1 + MaxSplits
<1>1. replies' \in Seq(Records) /\ Len(replies') <= splits
  BY Reading
<1>2. splits \in 0 .. MaxSplits
  BY DEF IInv, TypeOK
<1>3. RepliesBounded' /\ RepliesInStep'
  BY <1>1, <1>2, FtpsAssumption DEF RepliesBounded, RepliesInStep
<1>4. AcceptedLogin'
  BY DEF IInv, AcceptedLogin
<1> QED
  BY <1>1, <1>2, <1>3, <1>4, FtpsAssumption

-----------------------------------------------------------------------------
\* The first process of popen_exe starts in the invariant.
LEMMA InitInv == Init => IInv
<1> SUFFICES ASSUME Init PROVE IInv
  OBVIOUS
<1>a. /\ step \in 0 .. Len(LoginCmds) /\ closes \in 0 .. 2
      /\ moved \in 0 .. N /\ splits \in 0 .. MaxSplits
      /\ Len(replies) <= 1 + MaxSplits
  BY LoginLength, FtpsAssumption DEF Init
<1>1. TypeOK
  BY <1>a DEF Init, TypeOK, Points
<1>2. RepliesBounded /\ RepliesInStep
  BY DEF Init, RepliesBounded, RepliesInStep, Reads
<1>3. AcceptedLogin /\ Phases /\ DataClosedOnce
  BY DEF Init, AcceptedLogin, Phases, DataClosedOnce, Early, Late
<1> QED
  BY <1>1, <1>2, <1>3 DEF IInv

\* Every step of the client and of popen_exe keeps it.
LEMMA NextInv == IInv /\ [Next]_vars => IInv'
<1> SUFFICES ASSUME IInv, [Next]_vars PROVE IInv'
  OBVIOUS
<1> USE DEF IInv
<1>0. CASE Start
  <2>1. pc \notin Reads /\ pc' \notin Reads
    BY <1>0 DEF Start, Reads
  <2>2. RepliesBounded' /\ RepliesInStep' /\ AcceptedLogin'
    BY <1>0, <2>1, QuietStep DEF Start, command
  <2>3. TypeOK'
    BY <1>0 DEF Start, command, TypeOK, Points
  <2>a. /\ data' = "none" /\ closes' = 0
        /\ \/ pc' = "connect" /\ silent' = {}
           \/ pc' = "end" /\ silent' \cap NotBegun # {}
    BY <1>0 DEF Start, Phases, Early, NotBegun
  <2>4. Phases' /\ DataClosedOnce'
    BY <2>a DEF Phases, DataClosedOnce, Excused, Early, Late
  <2> QED
    BY <2>2, <2>3, <2>4
<1>1. CASE Connect
  <2>1. pc \notin Reads /\ pc' \notin Reads
    BY <1>1 DEF Connect, command, Reads
  <2>2. RepliesBounded' /\ RepliesInStep' /\ AcceptedLogin'
    BY <1>1, <2>1, QuietStep DEF Connect, command
  <2>3. TypeOK'
    BY <1>1 DEF Connect, command, TypeOK, Points
  <2>a. /\ data' = "none" /\ closes' = 0
        /\ \/ pc' = "init" /\ silent' = {}
           \/ pc' = "end" /\ silent' \cap NotBegun # {}
    BY <1>1 DEF Connect, Phases, Early, NotBegun
  <2>4. Phases' /\ DataClosedOnce'
    BY <2>a DEF Phases, DataClosedOnce, Excused, Early, Late
  <2> QED
    BY <2>2, <2>3, <2>4
<1>2. CASE InitSSL
  <2>1. pc \notin Reads /\ pc' \notin Reads
    BY <1>2 DEF InitSSL, command, Reads
  <2>2. RepliesBounded' /\ RepliesInStep' /\ AcceptedLogin'
    BY <1>2, <2>1, QuietStep DEF InitSSL, command
  <2>3. TypeOK'
    <3>1. \/ silent' = silent \/ silent' = silent \cup {"context"}
          \/ silent' = silent \cup {"crash"}
      BY <1>2 DEF InitSSL
    <3>2. /\ pc' \in {"nego", "end"}
          /\ UNCHANGED <<mode, goodArgs, goodLogin, step, ctl, data, closes,
                         replies, accepted, moved, printed, splits>>
      BY <1>2 DEF InitSSL, command
    <3>3. silent' \subseteq {"usage", "memory", "connect", "context", "crash",
                             "no ssl", "cut short", "killed"}
      BY <3>1 DEF TypeOK
    <3> QED
      BY <3>2, <3>3 DEF TypeOK, Points
  <2>a. /\ data' = "none" /\ closes' = 0
        /\ \/ pc' = "nego" /\ silent' = {}
           \/ pc' = "end" /\ silent' \cap NotBegun # {}
    <3>1. data = "none" /\ closes = 0 /\ silent = {}
      BY <1>2 DEF InitSSL, Phases, Early
    <3>2. \/ pc' = "nego" /\ silent' = silent
          \/ pc' = "end" /\ ("context" \in silent' \/ "crash" \in silent')
      BY <1>2 DEF InitSSL
    <3>3. data' = data /\ closes' = closes
      BY <1>2 DEF InitSSL
    <3> QED
      BY <3>1, <3>2, <3>3 DEF NotBegun
  <2>4. Phases' /\ DataClosedOnce'
    BY <2>a DEF Phases, DataClosedOnce, Excused, Early, Late
  <2> QED
    BY <2>2, <2>3, <2>4
<1>3. CASE NegoSSL
  <2>1. CASE Command("nego", "HELLO", "greet") /\ UNCHANGED step
    <3>1. step' \in 0 .. Len(LoginCmds)
      BY <2>1 DEF TypeOK
    <3> QED
      BY <2>1, <3>1, CommandStep
         DEF Points, Reads, Commands, Early, Late
  <2>2. CASE /\ pc = "nego" /\ pc' = "end" /\ printed' = TRUE
             /\ UNCHANGED <<awaited, ctl, replies, splits, accepted, mode,
                            goodArgs, goodLogin, step, data, closes, moved,
                            silent>>
    <3>1. pc \notin Reads /\ pc' \notin Reads
      BY <2>2 DEF Reads
    <3>2. RepliesBounded' /\ RepliesInStep' /\ AcceptedLogin'
      BY <2>2, <3>1, QuietStep
    <3>3. TypeOK'
      BY <2>2 DEF TypeOK, Points
    <3>4. Phases' /\ DataClosedOnce'
      BY <2>2 DEF Phases, DataClosedOnce, Early, Late
    <3> QED
      BY <3>2, <3>3, <3>4
  <2> QED
    BY <1>3, <2>1, <2>2 DEF NegoSSL, Command, command
<1>4. CASE OpenFtpsClient
  BY <1>4, PrintStep DEF OpenFtpsClient, Points, Reads, Early, Late
<1>5. CASE LoginSend
  <2>a. step \in 0 .. Len(LoginCmds)
    BY DEF TypeOK
  <2>b. step < Len(LoginCmds) /\ step' = step + 1
    BY <1>5 DEF LoginSend
  <2>1. step \in 0 .. 5
    BY <2>a, <2>b, LoginLength
  <2>2. LoginCmds[step + 1] \in Commands
    <3>1. step + 1 \in 1 .. 6
      BY <2>1
    <3> QED
      BY <3>1, LoginCommands
  <2>3. step' \in 0 .. Len(LoginCmds)
    BY <2>1, <2>b, LoginLength
  <2>4. Command("login", LoginCmds[step + 1], "login resp")
    BY <1>5 DEF LoginSend
  <2> HIDE DEF IInv
  <2> QED
    BY <2>2, <2>3, <2>4, CommandStep DEF Points, Reads, Early, Late
<1>6. CASE LoginResp
  BY <1>6, PrintStep DEF LoginResp, Points, Reads, Early, Late
<1>7. CASE OpenLocal
  <2>1. pc \notin Reads /\ pc' \notin Reads
    BY <1>7 DEF OpenLocal, command, Reads
  <2>2. RepliesBounded' /\ RepliesInStep' /\ AcceptedLogin'
    BY <1>7, <2>1, QuietStep DEF OpenLocal, command
  <2>3. TypeOK'
    BY <1>7 DEF OpenLocal, command, Report, TypeOK, Points
  <2>4. /\ data' = "none" /\ closes' = 0 /\ silent' = {}
        /\ pc' = "pasv" \/ (pc' = "end" /\ printed')
    BY <1>7 DEF OpenLocal, command, Report, Phases, Early
  <2>5. Phases' /\ DataClosedOnce'
    BY <2>4 DEF Phases, DataClosedOnce, Early, Late
  <2> QED
    BY <2>2, <2>3, <2>5
<1>8. CASE SendPasv
  <2>1. step' \in 0 .. Len(LoginCmds)
    BY <1>8 DEF SendPasv, TypeOK
  <2> QED
    BY <1>8, <2>1, CommandStep
       DEF SendPasv, Points, Reads, Commands, Early, Late
<1>9. CASE PasvResp
  <2>1. Consume /\ pc' \notin Reads
    BY <1>9 DEF PasvResp, command, Reads
  <2>2. /\ RepliesBounded' /\ RepliesInStep' /\ AcceptedLogin'
        /\ Len(replies') <= 1 + MaxSplits
    BY <1>9, <2>1, ReadStep DEF PasvResp, command
  <2>3. TypeOK'
    BY <1>9, <2>2 DEF PasvResp, command, Echoed, Report, TypeOK, Points
  <2>4. /\ closes' = 0 /\ silent' = {}
        /\ \/ pc' = "type" /\ data' = "open"
           \/ pc' = "end" /\ data' = "none" /\ printed'
    <3>1. data = "none" /\ closes = 0 /\ silent = {}
      BY <1>9 DEF PasvResp, command, Phases, Early
    <3>2. closes' = 0 /\ silent' = {}
      BY <1>9, <3>1 DEF PasvResp, command
    <3>3. \/ data' = "open" /\ pc' = "type"
          \/ pc' = "end" /\ printed' = TRUE /\ data' = data
      BY <1>9 DEF PasvResp, command, Report
    <3> QED
      BY <3>1, <3>2, <3>3
  <2>5. Phases' /\ DataClosedOnce'
    BY <2>4 DEF Phases, DataClosedOnce, Early, Late
  <2> QED
    BY <2>2, <2>3, <2>5
<1>10. CASE SendType
  <2>1. step' \in 0 .. Len(LoginCmds)
    BY <1>10 DEF SendType, TypeOK
  <2>2. /\ "type" \in Points /\ "type" \notin Reads /\ "type resp" \in Reads
        /\ "type" \in Late /\ "type resp" \in Late
        /\ "type" \notin Early /\ "type resp" \notin Early
        /\ "TYPE" \in Commands
    BY DEF Points, Reads, Early, Late, Commands
  <2>3. Command("type", "TYPE", "type resp")
    BY <1>10 DEF SendType
  <2> QED
    BY <2>1, <2>2, <2>3, CommandStep
<1>11. CASE TypeResp
  BY <1>11, PrintStep DEF TypeResp, Points, Reads, Early, Late
<1>12. CASE SendTransfer
  <2>1. step' \in 0 .. Len(LoginCmds)
    BY <1>12 DEF SendTransfer, TypeOK
  <2>2. TransferCmd \in Commands
    BY DEF TransferCmd, Commands
  <2>3. /\ "cmd" \in Points /\ "cmd" \notin Reads /\ "cmd resp" \in Reads
        /\ "cmd" \in Late /\ "cmd resp" \in Late
        /\ "cmd" \notin Early /\ "cmd resp" \notin Early
    BY DEF Points, Reads, Early, Late
  <2>4. Command("cmd", TransferCmd, "cmd resp")
    BY <1>12 DEF SendTransfer
  <2> QED
    BY <2>1, <2>2, <2>3, <2>4, CommandStep
<1>13. CASE TransferResp
  <2>1. Consume /\ pc' \notin Reads
    BY <1>13 DEF TransferResp, command, Reads
  <2>2. /\ RepliesBounded' /\ RepliesInStep' /\ AcceptedLogin'
        /\ Len(replies') <= 1 + MaxSplits
    BY <1>13, <2>1, ReadStep DEF TransferResp, command
  <2>3. data = "open" /\ closes = 0 /\ silent = {}
    BY <1>13 DEF TransferResp, command, Phases, Late
  <2>4. /\ closes' \in 0 .. 2 /\ silent' = {}
        /\ \/ pc' = "data ssl" /\ data' = "open" /\ closes' = 0
           \/ pc' = "end" /\ data' = "closed" /\ closes' = 1 /\ printed'
    <3>1. silent' = {}
      BY <1>13, <2>3 DEF TransferResp, command
    <3>2. CASE Refused(Received)
      <4>1. data' = "closed" /\ closes' = closes + 1
        BY <1>13, <3>2 DEF TransferResp, command, CloseData
      <4>2. closes' = 1
        BY <4>1, <2>3
      <4>3. pc' = "end" /\ printed'
        BY <1>13, <3>2 DEF TransferResp, command, Report
      <4> QED
        BY <3>1, <4>1, <4>2, <4>3
    <3>3. CASE ~Refused(Received)
      <4>1. pc' = "data ssl" /\ data' = data /\ closes' = closes
        BY <1>13, <3>3 DEF TransferResp, command
      <4>2. closes' = 0
        BY <4>1, <2>3
      <4>3. closes' \in 0 .. 2
        BY <4>2
      <4> QED
        BY <3>1, <4>1, <4>2, <4>3, <2>3
    <3> QED
      BY <3>2, <3>3
  <2>5. printed' \in BOOLEAN
    BY <1>13, <2>3 DEF TransferResp, command, Report, TypeOK
  <2>6. TypeOK'
    BY <1>13, <2>2, <2>4, <2>5 DEF TransferResp, command, TypeOK, Points
  <2>7. Phases' /\ DataClosedOnce'
    BY <2>4 DEF Phases, DataClosedOnce, Early, Late
  <2> QED
    BY <2>2, <2>6, <2>7
<1>14. CASE DataSsl
  <2>1. pc \notin Reads /\ pc' \notin Reads
    BY <1>14 DEF DataSsl, command, Reads
  <2>2. RepliesBounded' /\ RepliesInStep' /\ AcceptedLogin'
    BY <1>14, <2>1, QuietStep DEF DataSsl, command, session
  <2>3. TypeOK'
    BY <1>14 DEF DataSsl, command, session, TypeOK, Points
  <2>4. Phases' /\ DataClosedOnce'
    BY <1>14 DEF DataSsl, command, session, Phases, DataClosedOnce, Early, Late
  <2> QED
    BY <2>2, <2>3, <2>4
<1>15. CASE DataSslFails
  <2>1. pc \notin Reads /\ pc' \notin Reads
    BY <1>15 DEF DataSslFails, command, Reads
  <2>2. RepliesBounded' /\ RepliesInStep' /\ AcceptedLogin'
    BY <1>15, <2>1, QuietStep DEF DataSslFails, command
  <2>3. closes = 0
    BY <1>15 DEF DataSslFails, command, Phases, Late
  <2>a. closes' = closes + 1
    BY <1>15 DEF DataSslFails, command, CloseData
  <2>4. closes' = 1 /\ closes' \in 0 .. 2
    BY <2>a, <2>3
  <2>5. TypeOK'
    BY <1>15, <2>4 DEF DataSslFails, command, CloseData, Report, TypeOK, Points
  <2>6. Phases' /\ DataClosedOnce'
    BY <1>15, <2>4 DEF DataSslFails, command, CloseData, Report, Phases,
                       DataClosedOnce, Early, Late
  <2> QED
    BY <2>2, <2>5, <2>6
<1>16. CASE DataSslNull
  <2>1. pc \notin Reads /\ pc' \notin Reads
    BY <1>16 DEF DataSslNull, command, Reads
  <2>2. RepliesBounded' /\ RepliesInStep' /\ AcceptedLogin'
    BY <1>16, <2>1, QuietStep DEF DataSslNull, command
  <2>3. closes = 0
    BY <1>16 DEF DataSslNull, command, Phases, Late
  <2>a. closes' = closes + 2
    BY <1>16 DEF DataSslNull, command
  <2>4. closes' \in 0 .. 2
    BY <2>a, <2>3
  <2>5. TypeOK'
    BY <1>16, <2>4 DEF DataSslNull, command, Report, TypeOK, Points
  <2>6. Phases' /\ DataClosedOnce'
    BY <1>16 DEF DataSslNull, command, Report, Phases, DataClosedOnce,
                Early, Late
  <2> QED
    BY <2>2, <2>5, <2>6
<1>17. CASE Move
  <2>1. pc \notin Reads /\ pc' \notin Reads
    BY <1>17 DEF Move, command, Reads
  <2>2. RepliesBounded' /\ RepliesInStep' /\ AcceptedLogin'
    BY <1>17, <2>1, QuietStep DEF Move, command
  <2>a. moved \in 0 .. N
    BY DEF TypeOK
  <2>3. moved' \in 0 .. N
    BY <1>17, <2>a, FtpsAssumption DEF Move, command
  <2>4. TypeOK'
    BY <1>17, <2>3 DEF Move, command, TypeOK
  <2>5. Phases' /\ DataClosedOnce'
    BY <1>17 DEF Move, command, Phases, DataClosedOnce, Early, Late
  <2> QED
    BY <2>2, <2>4, <2>5
<1>18. CASE MoveEnds
  <2>1. pc \notin Reads /\ pc' \notin Reads
    BY <1>18 DEF MoveEnds, command, Reads
  <2>2. RepliesBounded' /\ RepliesInStep' /\ AcceptedLogin'
    BY <1>18, <2>1, QuietStep DEF MoveEnds, command
  <2>3. TypeOK'
    BY <1>18 DEF MoveEnds, command, TypeOK, Points
  <2>4. Phases' /\ DataClosedOnce'
    BY <1>18 DEF MoveEnds, command, Phases, DataClosedOnce, Early, Late
  <2> QED
    BY <2>2, <2>3, <2>4
<1>19. CASE Quit
  <2>1. pc \notin Reads /\ pc' \notin Reads
    BY <1>19 DEF Quit, command, Reads
  <2>2. RepliesBounded' /\ RepliesInStep' /\ AcceptedLogin'
    BY <1>19, <2>1, QuietStep DEF Quit, command
  <2>3. closes = 0 /\ accepted /\ (moved = N \/ "cut short" \in silent)
    BY <1>19 DEF Quit, command, Phases
  <2>a. closes' = closes + 1 /\ closes = 0
    BY <1>19, <2>3 DEF Quit, command, CloseData
  <2>4. closes' = 1 /\ closes' \in 0 .. 2
    BY <2>a
  <2>5. TypeOK'
    BY <1>19, <2>4 DEF Quit, command, CloseData, TypeOK, Points
  <2>6. Excused'
    BY <1>19, <2>3 DEF Quit, command, Excused, AcceptedLogin
  <2>7. Phases' /\ DataClosedOnce'
    BY <1>19, <2>4, <2>6 DEF Quit, command, CloseData, Phases, DataClosedOnce,
                Early, Late
  <2> QED
    BY <2>2, <2>5, <2>7
<1>23. CASE SigPipe
  <2>1. pc \notin Reads /\ pc' \notin Reads
    BY <1>23 DEF SigPipe, Writes, Reads
  <2>2. RepliesBounded' /\ RepliesInStep' /\ AcceptedLogin'
    BY <1>23, <2>1, QuietStep DEF SigPipe, command
  <2>3. TypeOK'
    BY <1>23 DEF SigPipe, command, TypeOK, Points
  <2>4. Excused' /\ "killed" \in silent'
    BY <1>23 DEF SigPipe, Excused
  <2>5. Phases' /\ DataClosedOnce'
    BY <1>23, <2>4 DEF SigPipe, Phases, DataClosedOnce, Early, Late
  <2> QED
    BY <2>2, <2>3, <2>5
<1>24. CASE ServerStops
  <2>1. TypeOK'
    BY <1>24 DEF ServerStops, command, TypeOK
  <2>2. RepliesBounded' /\ RepliesInStep'
    BY <1>24 DEF ServerStops, RepliesBounded, RepliesInStep
  <2>3. AcceptedLogin' /\ Phases' /\ DataClosedOnce'
    BY <1>24 DEF ServerStops, command, AcceptedLogin, Phases, Excused,
                 DataClosedOnce
  <2> QED
    BY <2>1, <2>2, <2>3
<1>20. CASE Redo
  <2>1. Init'
    BY <1>20 DEF Redo, command, Init, TypeOK
  <2> HIDE DEF IInv
  <2>a. /\ step' \in 0 .. Len(LoginCmds) /\ closes' \in 0 .. 2
        /\ moved' \in 0 .. N /\ splits' \in 0 .. MaxSplits
        /\ Len(replies') <= 1 + MaxSplits
    BY <2>1, LoginLength, FtpsAssumption DEF Init
  <2>2. TypeOK'
    BY <2>1, <2>a DEF Init, TypeOK, Points
  <2>3. RepliesBounded' /\ RepliesInStep'
    BY <2>1 DEF Init, RepliesBounded, RepliesInStep, Reads
  <2>4. AcceptedLogin' /\ Phases' /\ DataClosedOnce'
    BY <2>1 DEF Init, AcceptedLogin, Phases, DataClosedOnce, Early, Late
  <2> QED
    BY <2>2, <2>3, <2>4 DEF IInv
<1>21. CASE Done
  <2>1. pc \notin Reads /\ pc' \notin Reads
    BY <1>21 DEF Done, command, Reads
  <2>2. RepliesBounded' /\ RepliesInStep' /\ AcceptedLogin'
    BY <1>21, <2>1, QuietStep DEF Done, command, session
  <2>3. TypeOK'
    BY <1>21 DEF Done, command, session, TypeOK, Points
  <2>4. Phases' /\ DataClosedOnce'
    BY <1>21 DEF Done, command, session, Phases, DataClosedOnce, Excused,
                Early, Late
  <2> QED
    BY <2>2, <2>3, <2>4
<1>22. CASE UNCHANGED vars
  <2>1. TypeOK'
    BY <1>22 DEF vars, command, session, TypeOK
  <2>2. RepliesBounded' /\ RepliesInStep'
    BY <1>22 DEF vars, command, session, RepliesBounded, RepliesInStep
  <2>3. AcceptedLogin' /\ Phases' /\ DataClosedOnce'
    BY <1>22 DEF vars, command, session, AcceptedLogin, Phases, Excused,
                 DataClosedOnce
  <2> QED
    BY <2>1, <2>2, <2>3
<1> QED
  BY <1>0, <1>1, <1>2, <1>3, <1>4, <1>5, <1>6, <1>7, <1>8, <1>9, <1>10,
     <1>11, <1>12, <1>13, <1>14, <1>15, <1>16, <1>17, <1>18, <1>19, <1>20,
     <1>21, <1>22, <1>23, <1>24
     DEF Next, Client, Over

\* The inductive invariant holds of every session.
LEMMA Invariance == Spec => []IInv
  BY InitInv, NextInv, PTL DEF Spec

-----------------------------------------------------------------------------
\* ReplyInv: types, at most one unread record per split reply and one more,
\* and, while no reply was split, the record PrintResp reads answers the
\* command just sent.
THEOREM RepliesPaired == Spec => []ReplyInv
<1>1. IInv => ReplyInv
  BY DEF IInv, ReplyInv
<1> QED
  BY <1>1, Invariance, PTL

\* DoneIsComplete: popen_exe goes on without the whole file only after a wrong
\* command line, no memory, no control connection, no TLS context, death by
\* SIGPIPE or a transfer that broke after it began, whatever the replies say.
THEOREM DoneComplete == Spec => []DoneIsComplete
<1>1. IInv => DoneIsComplete
  BY DEF IInv, Phases, Excused, DoneIsComplete
<1> QED
  BY <1>1, Invariance, PTL

\* DataClosedOnce: at the end of a session the data descriptor was closed
\* exactly once, or twice after a failing SSL_new, or was never opened.
THEOREM ClosedOnce == Spec => []DataClosedOnce
<1>1. IInv => DataClosedOnce
  BY DEF IInv
<1> QED
  BY <1>1, Invariance, PTL
=============================================================================
