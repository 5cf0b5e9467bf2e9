------------------------------ MODULE FtpsClient ------------------------------
(***************************************************************************)
(* The FTP-over-TLS client of ftps/ftps_client.c, as popen_exe of          *)
(* http_server/http_anlyse.c (ftps/popen.txt is a copy) runs it: one       *)
(* process per transfer, repeated as long as its standard output contains  *)
(* the word "failed".                                                      *)
(*                                                                         *)
(* A reply is one TLS record; a server may spread a long reply over two.   *)
(* A command and the server's reply to it are one step: the client always  *)
(* reads next.  At any moment the connection may break or the server fall  *)
(* silent; the client has no timeouts.  The file is a number of pieces.    *)
(***************************************************************************)
EXTENDS Naturals, Sequences

CONSTANTS
    N,           \* pieces in the file
    MaxSplits    \* bound: replies of one session that come in two records

ASSUME FtpsAssumption == N \in Nat \ {0} /\ MaxSplits \in Nat

LoginCmds == <<"PROT", "PBSZ", "AUTH SSL", "AUTH TLS", "USER", "PASS">>

VARIABLES
    mode,        \* "get" or "put"
    goodArgs,    \* the command line has its seven arguments
    goodLogin,   \* user and password are right
    pc,          \* the client, or "end" and "done" of popen_exe
    step,        \* login commands sent
    awaited,     \* the command whose reply the client reads next
    ctl,         \* control connection: "none", "up", "mute", "down"
    data,        \* data connection: "none", "open", "closed"
    closes,      \* calls of close on the data descriptor
    replies,     \* records sent by the server and not read yet
    accepted,    \* the server took the transfer command
    moved,       \* pieces that arrived
    printed,     \* "failed" is in what the wrapper reads
    silent,      \* ways this session went wrong without printing "failed"
    splits       \* replies of this session that came in two records

session == <<step, awaited, ctl, data, closes, replies, accepted, moved,
             printed, silent, splits>>
command == <<mode, goodArgs, goodLogin>>
vars == <<command, pc, session>>

Init ==
    /\ mode \in {"get", "put"} /\ goodArgs \in BOOLEAN /\ goodLogin \in BOOLEAN
    /\ pc = "start" /\ step = 0 /\ awaited = "none"
    /\ ctl = "none" /\ data = "none" /\ closes = 0
    /\ replies = <<>> /\ accepted = FALSE /\ moved = 0
    /\ printed = FALSE /\ silent = {} /\ splits = 0

TransferCmd == IF mode = "get" THEN "RETR" ELSE "STOR"

(***************************************************************************)
(* The server.  A reply is "ok", "5xx" or "4xx"; only the reply to an      *)
(* accepted PASV has a parenthesis in it.  Nothing but login is possible   *)
(* before a right password.                                                *)
(***************************************************************************)
Outcomes(cmd) ==
    IF cmd \in {"PASV", "TYPE", "RETR", "STOR"} /\ ~goodLogin THEN {"5xx"}
    ELSE IF cmd \in {"RETR", "STOR"} THEN {"ok", "5xx", "4xx"}
    ELSE {"ok"}

Record(cmd, o) == [cmd |-> cmd, out |-> o]

\* EnSend of a command: the server answers, in one record or in two; or it has
\* fallen silent, or the connection is broken, which the caller ignores.
EnSend(cmd) ==
    \/ /\ ctl = "up"
       /\ \E o \in Outcomes(cmd) :
            /\ \/ /\ replies' = Append(replies, Record(cmd, o))
                  /\ UNCHANGED splits
               \/ /\ splits < MaxSplits
                  /\ splits' = splits + 1
                  /\ replies' = replies \o
                                 <<Record(cmd, o), Record(cmd, "rest")>>
            /\ accepted' = (accepted \/ (cmd = TransferCmd /\ o = "ok"))
    \/ /\ ctl # "up"
       /\ UNCHANGED <<replies, splits, accepted>>

\* The server falls silent, or the connection breaks.
ServerStops ==
    /\ \/ ctl = "up" /\ ctl' \in {"mute", "down"}
       \/ ctl = "mute" /\ ctl' = "down"
    /\ UNCHANGED <<command, pc, step, awaited, data, closes, replies, accepted,
                   moved, printed, silent, splits>>

\* SSL_read of one record; it returns without one only when the connection is
\* down.
CanRead == replies # <<>> \/ ctl = "down"

Received == IF replies = <<>> THEN Record("none", "none") ELSE Head(replies)

Consume == replies' = IF replies = <<>> THEN <<>> ELSE Tail(replies)

-----------------------------------------------------------------------------
(* Control connection and login.                                           *)

\* Without its arguments main prints how to use it, and without memory perror
\* writes to standard error.
Start ==
    /\ pc = "start"
    /\ \/ goodArgs /\ pc' = "connect" /\ UNCHANGED silent
       \/ ~goodArgs /\ pc' = "end" /\ silent' = silent \cup {"usage"}
       \/ goodArgs /\ pc' = "end" /\ silent' = silent \cup {"memory"}
    /\ UNCHANGED <<command, step, awaited, ctl, data, closes, replies, accepted,
                   moved, printed, splits>>

\* OpenConnectByHost: on failure only perror writes, to standard error.
Connect ==
    /\ pc = "connect"
    /\ \/ pc' = "init" /\ ctl' = "up" /\ UNCHANGED silent
       \/ pc' = "end" /\ silent' = silent \cup {"connect"} /\ UNCHANGED ctl
    /\ UNCHANGED <<command, step, awaited, data, closes, replies,
                   accepted, moved, printed, splits>>

\* InitSSL: a context that cannot be made is reported in other words; a
\* session that cannot be made is not noticed, and NegoSSL uses it.
InitSSL ==
    /\ pc = "init"
    /\ \/ pc' = "nego" /\ UNCHANGED silent
       \/ /\ pc' = "end"
          /\ \E w \in {"context", "crash"} : silent' = silent \cup {w}
    /\ UNCHANGED <<command, step, awaited, ctl, data, closes, replies,
                   accepted, moved, printed, splits>>

\* NegoSSL prints "ssl_connect failed"; then the greeting will be read.
NegoSSL ==
    /\ pc = "nego"
    /\ \/ /\ pc' = "greet"
          /\ awaited' = "HELLO"
          /\ EnSend("HELLO")
          /\ UNCHANGED printed
       \/ /\ pc' = "end" /\ printed' = TRUE
          /\ UNCHANGED <<awaited, replies, splits, accepted>>
    /\ UNCHANGED <<command, step, ctl, data, closes, moved, silent>>

\* A server's reply is printed, and may say "failed" itself.
Echoed == printed' \in {printed} \cup {x \in {TRUE} : replies # <<>>}

\* PrintResp: whatever comes is printed, and nothing follows from it.
PrintResp(at, next) ==
    /\ pc = at
    /\ CanRead
    /\ Consume
    /\ Echoed
    /\ pc' = next
    /\ UNCHANGED <<command, step, awaited, ctl, data, closes,
                   accepted, moved, silent, splits>>

\* EnSend, after which the client reads the answer.
Command(at, cmd, next) ==
    /\ pc = at
    /\ EnSend(cmd)
    /\ awaited' = cmd
    /\ pc' = next
    /\ UNCHANGED <<command, ctl, data, closes, moved, printed, silent>>

OpenFtpsClient == PrintResp("greet", "login")

LoginSend ==
    /\ step < Len(LoginCmds)
    /\ Command("login", LoginCmds[step + 1], "login resp")
    /\ step' = step + 1

LoginRespUnread == pc = "login resp" /\ pc' = "login"
    /\ UNCHANGED <<command, session>>

LoginRespTwice == PrintResp("login resp", "login resp")

LoginResp == PrintResp("login resp", "login")

-----------------------------------------------------------------------------
(* One transfer in passive mode.                                           *)

LoginDone == step = Len(LoginCmds)

ReportNot == UNCHANGED printed

\* FtpsGet and FtpsPut print "failed" whatever it was that failed.
Report == printed' = TRUE

\* The handle is allocated and the local file opened, which empties it for a
\* download; a file that cannot be opened is a failed transfer.
OpenLocal ==
    /\ pc = "login"
    /\ LoginDone
    /\ \/ pc' = "pasv" /\ UNCHANGED printed
       \/ pc' = "end" /\ Report
    /\ UNCHANGED <<command, step, awaited, ctl, data, closes, replies,
                   accepted, moved, silent, splits>>

SendPasv == Command("pasv", "PASV", "pasv resp") /\ UNCHANGED step

HasParenthesis(r) == r.cmd = "PASV" /\ r.out = "ok"

\* FtpsOpenPasvSockConn: a reply without '(' is a failure; then the data
\* connection is opened.
PasvResp ==
    /\ pc = "pasv resp"
    /\ CanRead
    /\ Consume
    /\ \/ /\ HasParenthesis(Received)
          /\ data' = "open" /\ pc' = "type" /\ Echoed
       \/ pc' = "end" /\ Report /\ UNCHANGED data
    /\ UNCHANGED <<command, step, awaited, ctl, closes, accepted,
                   moved, silent, splits>>

SendType == Command("type", "TYPE", "type resp") /\ UNCHANGED step

TypeResp == PrintResp("type resp", "cmd")

SendTransfer == Command("cmd", TransferCmd, "cmd resp") /\ UNCHANGED step

\* buff[0] == '5'
Refused(r) == r.out = "5xx"

CloseNot == UNCHANGED <<data, closes>>

CloseData == data' = "closed" /\ closes' = closes + 1

TransferResp ==
    /\ pc = "cmd resp"
    /\ CanRead
    /\ Consume
    /\ IF Refused(Received)
       THEN CloseData /\ pc' = "end" /\ Report
       ELSE pc' = "data ssl" /\ UNCHANGED <<data, closes, printed>>
    /\ UNCHANGED <<command, step, awaited, ctl, accepted, moved,
                   silent, splits>>

\* FtpsOpenPasvSslConn: the handshake works only with a server that took the
\* command.
DataSsl ==
    /\ pc = "data ssl"
    /\ accepted
    /\ pc' = "transfer"
    /\ UNCHANGED <<command, session>>

\* It fails, by what the server or the network does: printed, and the caller
\* closes the descriptor.
DataSslFails ==
    /\ pc = "data ssl"
    /\ CloseData
    /\ pc' = "end" /\ Report
    /\ UNCHANGED <<command, step, awaited, ctl, replies, accepted,
                   moved, silent, splits>>

\* SSL_new fails: closed here and by the caller.
DataSslNull ==
    /\ pc = "data ssl"
    /\ data' = "closed" /\ closes' = closes + 2
    /\ pc' = "end" /\ Report
    /\ silent' = silent \cup {"no ssl"}
    /\ UNCHANGED <<command, step, awaited, ctl, replies, accepted,
                   moved, splits>>

\* SSL_read and fwrite, or fread and SSL_write, of one piece.
Move ==
    /\ pc = "transfer"
    /\ moved < N
    /\ moved' = moved + 1
    /\ UNCHANGED <<command, pc, step, awaited, ctl, data, closes,
                   replies, accepted, printed, silent, splits>>

\* The end of the file and a broken connection or a full disk leave the same
\* loop the same way.
MoveEnds ==
    /\ pc = "transfer"
    /\ silent' = IF moved = N THEN silent ELSE silent \cup {"cut short"}
    /\ pc' = "quit"
    /\ UNCHANGED <<command, step, awaited, ctl, data, closes, replies,
                   accepted, moved, printed, splits>>

\* CloseFtpsDataConn sends QUIT and closes the data connection; nobody reads
\* the answers.  main closes the control connection and returns 0.
Quit ==
    /\ pc = "quit"
    /\ CloseData
    /\ ctl' = "down"
    /\ pc' = "end"
    /\ UNCHANGED <<command, step, awaited, replies, accepted, moved,
                   printed, silent, splits>>

\* SIGPIPE is not ignored: a write to a connection that is gone ends the
\* process, and what is still in its output buffer is lost.
Writes ==
    \/ /\ ctl = "down"
       /\ \/ pc \in {"nego", "pasv", "type", "cmd", "quit"}
          \/ pc = "login" /\ ~LoginDone
    \/ pc = "data ssl"
    \/ pc = "transfer" /\ mode = "put"

SigPipe ==
    /\ Writes
    /\ silent' = silent \cup {"killed"}
    /\ printed' \in {printed, FALSE}
    /\ pc' = "end"
    /\ UNCHANGED <<command, step, awaited, ctl, data, closes, replies,
                   accepted, moved, splits>>

-----------------------------------------------------------------------------
(* popen_exe.                                                              *)

\* "failed" was in the output: a new process, and nothing of the old one.
Redo ==
    /\ pc = "end" /\ printed
    /\ pc' = "start" /\ step' = 0 /\ awaited' = "none"
    /\ ctl' = "none" /\ data' = "none" /\ closes' = 0
    /\ replies' = <<>> /\ accepted' = FALSE /\ moved' = 0
    /\ printed' = FALSE /\ silent' = {} /\ splits' = 0
    /\ UNCHANGED command

Done ==
    /\ pc = "end" /\ ~printed
    /\ pc' = "done"
    /\ UNCHANGED <<command, session>>

Over == pc = "done" /\ UNCHANGED vars

Client ==
    \/ Start \/ Connect \/ InitSSL \/ NegoSSL \/ OpenFtpsClient \/ LoginSend
    \/ LoginResp \/ OpenLocal \/ SendPasv \/ PasvResp \/ SendType \/ TypeResp
    \/ SendTransfer \/ TransferResp \/ DataSsl \/ DataSslFails \/ DataSslNull
    \/ Move \/ MoveEnds \/ Quit \/ SigPipe

Next == Client \/ ServerStops \/ Redo \/ Done \/ Over

Spec == Init /\ [][Next]_vars

Reads == {"greet", "login resp", "pasv resp", "type resp", "cmd resp"}

\* What the client waits for without a timeout: a handshake on either
\* connection, the reply of a server that has fallen silent, and data, but for
\* the end of the file it sends.
Waits ==
    \/ pc \in {"nego", "data ssl"}
    \/ pc \in Reads /\ replies = <<>> /\ ctl = "mute"
    \/ pc = "transfer" /\ ~(mode = "put" /\ moved = N)

\* The processes are scheduled; nothing is assumed of the server.
FairSpec == Spec /\ WF_vars(~Waits /\ Client) /\ WF_vars(Redo \/ Done)

-----------------------------------------------------------------------------
(* Properties.                                                             *)

Points ==
    {"start", "connect", "init", "nego", "greet", "login", "login resp", "pasv",
     "pasv resp", "type", "type resp", "cmd", "cmd resp", "data ssl",
     "transfer", "quit", "end", "done"}

\* The type invariant.
TypeOK ==
    /\ mode \in {"get", "put"} /\ goodArgs \in BOOLEAN /\ goodLogin \in BOOLEAN
    /\ pc \in Points
    /\ step \in 0 .. Len(LoginCmds)
    /\ ctl \in {"none", "up", "mute", "down"}
    /\ data \in {"none", "open", "closed"}
    /\ closes \in 0 .. 2
    /\ Len(replies) <= 1 + MaxSplits
    /\ accepted \in BOOLEAN /\ printed \in BOOLEAN
    /\ moved \in 0 .. N
    /\ silent \subseteq {"usage", "memory", "connect", "context", "crash",
                         "no ssl", "cut short", "killed"}
    /\ splits \in 0 .. MaxSplits

\* As long as the server puts every reply into one record, the reply that is
\* read is the one to the command just sent: every command of login and
\* transfer is paired with one read.
RepliesInStep ==
    splits = 0 =>
        /\ Len(replies) <= 1
        /\ pc \in Reads /\ replies # <<>> => replies[1].cmd = awaited

\* The types, and with them that commands and replies stay paired.
ReplyInv == TypeOK /\ RepliesInStep

NotBegun == {"usage", "memory", "connect", "context", "crash"}

\* popen_exe goes on without the whole file only in the cases the client does
\* not report: a wrong command line, no memory, no control connection, no TLS
\* context, death by a signal, or a transfer that breaks after it began.
\* Replies that are out of step are none of them, nor is a wrong password: its
\* transfer fails, and the client is run again for ever.
DoneIsComplete ==
    pc = "done" =>
        \/ silent \cap (NotBegun \cup {"killed"}) # {}
        \/ goodLogin /\ (moved = N \/ "cut short" \in silent)

\* A session that opened a data connection has closed it exactly once when it
\* ends, whichever step failed, unless a signal ends it; only a failing SSL_new
\* closes it twice.
DataClosedOnce ==
    pc = "end" /\ "killed" \notin silent =>
        /\ data # "open"
        /\ data = "closed" => closes = 1 \/ "no ssl" \in silent

\* Every session ends unless the server leaves the client waiting for ever: the
\* client never reads a reply to nothing, and a connection that breaks always
\* ends it.
EverySessionEnds == <>[]Waits \/ (pc = "start" ~> pc \in {"end", "done"})
=============================================================================
