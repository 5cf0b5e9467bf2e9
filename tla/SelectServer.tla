----------------------------- MODULE SelectServer -----------------------------
(***************************************************************************)
(* The single-threaded TCP servers tcp_select.c (an echo server) and       *)
(* tcp_server.c (the same loop over lwIP, with SO_REUSEADDR and a call of  *)
(* handle_recv in place of the echo).  main keeps a table client[] of      *)
(* accepted descriptors, the set allset it passes to select, and the       *)
(* bounds maxfd and maxi of the two; an error on the listening side closes *)
(* the listening socket and starts over without clearing the table.        *)
(*                                                                         *)
(* A message is a unit in the inbox of a connection.  The environment      *)
(* (clients, the kernel's descriptor table) is modelled from how the code  *)
(* uses it.                                                                *)
(***************************************************************************)
EXTENDS Integers, FiniteSets

CONSTANTS
    NClient,      \* entries of client[] (10 in the code)
    FirstFd,      \* lowest descriptor that is not stdin, stdout or stderr
    LastFd,       \* the process's descriptor limit
    Programs,     \* which of "tcp_select" and "tcp_server" may be running
    MaxConnects,  \* bound: connections made by clients
    MaxMsgs,      \* bound: messages sent by clients
    MaxErrors     \* bound: failing calls of select and accept

ASSUME ServerAssumption ==
    /\ NClient \in Nat \ {0}
    /\ FirstFd \in Nat \ {0} /\ LastFd \in Nat
    /\ Programs \subseteq {"tcp_select", "tcp_server"}
    /\ MaxConnects \in Nat /\ MaxMsgs \in Nat /\ MaxErrors \in Nat

Fds == FirstFd .. LastFd

Slots == 0 .. (NClient - 1)

VARIABLES
    prog,      \* the program that runs
    pc,        \* main: "listen", "select", "accept", "scan", "echo", "close", "exit"
    sockfd,    \* the listening socket, 0 before there is one
    client,    \* the table: 0 never used, -1 free again, else a descriptor
    allset, rset,
    maxfd, maxi,
    nready,    \* ready descriptors not yet served in this round
    i,         \* index of the for loop over the table
    open,      \* descriptors the process has open
    backlog,   \* connections waiting to be accepted
    inbox,     \* messages a connection holds for the server
    peer,      \* the other end: "none", "up", "closed", "reset"
    connects, msgs, errors

server == <<prog, pc, sockfd, client, allset, rset, maxfd, maxi, nready, i,
            open>>
vars == <<server, backlog, inbox, peer, connects, msgs, errors>>

\* tcp_server.c sets SO_REUSEADDR; tcp_select.c sends back what it receives.
ReuseAddr == prog = "tcp_server"

Echo == prog = "tcp_select"

Init ==
    /\ prog \in Programs
    /\ pc = "listen"
    /\ sockfd = 0
    /\ client = [s \in Slots |-> 0]
    /\ allset = {} /\ rset = {}
    /\ maxfd = -1 /\ maxi = -1
    /\ nready = 0 /\ i = 0
    /\ open = {}
    /\ backlog = 0
    /\ inbox = [f \in Fds |-> 0]
    /\ peer = [f \in Fds |-> "none"]
    /\ connects = 0 /\ msgs = 0 /\ errors = 0

\* The kernel hands out the lowest free descriptor.
NewFd(f) == f \in Fds \ open /\ \A g \in Fds \ open : f <= g

\* What select reports of a descriptor.
Readable(f) ==
    IF f = sockfd THEN backlog > 0
    ELSE inbox[f] > 0 \/ peer[f] \in {"closed", "reset"}

-----------------------------------------------------------------------------
(* main.                                                                   *)

TableReset == [s \in Slots |-> 0]

\* The table as the new listener finds it.
TableKept == client

\* socket_bind_listen, then maxfd and allset start again from the new socket;
\* client[] and maxi do not.  Without SO_REUSEADDR bind fails while any socket
\* of the port is open.
Listen(f) ==
    /\ pc = "listen"
    /\ NewFd(f)
    /\ ReuseAddr \/ open = {}
    /\ sockfd' = f
    /\ open' = open \cup {f}
    /\ maxfd' = f
    /\ allset' = {f}
    /\ client' = TableKept
    /\ pc' = "select"
    /\ UNCHANGED <<prog, rset, maxi, nready, i, backlog, inbox, peer, connects,
                   msgs, errors>>

\* socket, bind or listen fails: main leaves its loop and returns 0.
ListenFails ==
    /\ pc = "listen"
    /\ pc' = "exit"
    /\ UNCHANGED <<prog, sockfd, client, allset, rset, maxfd, maxi, nready, i,
                   open, backlog, inbox, peer, connects, msgs, errors>>

ReportedAll == allset

Reported == {f \in allset : f <= maxfd /\ Readable(f)}

\* select(maxfd + 1, &rset, ...) finds something readable.
Select ==
    /\ pc = "select"
    /\ Reported # {}
    /\ rset' = Reported
    /\ nready' = Cardinality(Reported)
    /\ i' = 0
    /\ pc' = IF sockfd \in Reported THEN "accept" ELSE "scan"
    /\ UNCHANGED <<prog, sockfd, client, allset, maxfd, maxi, open, backlog,
                   inbox, peer, connects, msgs, errors>>

\* Nothing within a second: rset comes back empty, neither the listening
\* socket nor any client is touched, and main calls select again.
SelectTimeout ==
    /\ pc = "select"
    /\ Reported = {}
    /\ rset' = {}
    /\ nready' = 0
    /\ UNCHANGED <<prog, pc, sockfd, client, allset, maxfd, maxi, i, open,
                   backlog, inbox, peer, connects, msgs, errors>>

SelectError ==
    /\ pc = "select"
    /\ errors < MaxErrors
    /\ errors' = errors + 1
    /\ pc' = "close"
    /\ UNCHANGED <<prog, sockfd, client, allset, rset, maxfd, maxi, nready, i,
                   open, backlog, inbox, peer, connects, msgs>>

\* The first entry of the table that is free.
FreeSlots == {s \in Slots : client[s] <= 0}

FirstFree(s) == s \in FreeSlots /\ \A u \in FreeSlots : s <= u

Larger(a, b) == IF a > b THEN a ELSE b

MaxfdKept(f) == maxfd

MaxfdAfter(f) == Larger(f, maxfd)

MaxiAfter(s) == Larger(s, maxi)

Watch(f) == allset \cup {f}

\* accept; the client gets the first free entry; --nready == 0 ends the round.
Accept(f, s) ==
    /\ pc = "accept"
    /\ NewFd(f)
    /\ FirstFree(s)
    /\ open' = open \cup {f}
    /\ client' = [client EXCEPT ![s] = f]
    /\ allset' = Watch(f)
    /\ maxfd' = MaxfdAfter(f)
    /\ maxi' = MaxiAfter(s)
    /\ nready' = nready - 1
    /\ pc' = IF nready = 1 THEN "select" ELSE "scan"
    /\ backlog' = backlog - 1
    /\ inbox' = [inbox EXCEPT ![f] = 0]
    /\ peer' = [peer EXCEPT ![f] = "up"]
    /\ UNCHANGED <<prog, sockfd, rset, i, connects, msgs, errors>>

\* "too many clients": accepted, but no entry is free.  The descriptor is
\* forgotten and the listening socket given up.
TooMany(f) ==
    /\ pc = "accept"
    /\ NewFd(f)
    /\ FreeSlots = {}
    /\ open' = open \cup {f}
    /\ pc' = "close"
    /\ backlog' = backlog - 1
    /\ inbox' = [inbox EXCEPT ![f] = 0]
    /\ peer' = [peer EXCEPT ![f] = "up"]
    /\ UNCHANGED <<prog, sockfd, client, allset, rset, maxfd, maxi, nready, i,
                   connects, msgs, errors>>

\* accept fails: a passing error, or no descriptor left.
AcceptFails ==
    /\ pc = "accept"
    /\ \/ Fds \subseteq open /\ UNCHANGED errors
       \/ errors < MaxErrors /\ errors' = errors + 1
    /\ pc' = "close"
    /\ UNCHANGED <<prog, sockfd, client, allset, rset, maxfd, maxi, nready, i,
                   open, backlog, inbox, peer, connects, msgs>>

\* The for loop's next entry whose descriptor is in rset.
ReadySlots == {s \in Slots : i <= s /\ s <= maxi /\ client[s] >= 0
                             /\ client[s] \in rset}

NextReady(s) == s \in ReadySlots /\ \A u \in ReadySlots : s <= u

\* --nready == 0 leaves the for loop, otherwise it goes on behind entry s.
Served(s) ==
    /\ nready' = nready - 1
    /\ pc' = IF nready = 1 THEN "select" ELSE "scan"
    /\ i' = s + 1

\* recv takes k of the messages; they are given to handle_recv, or echoed into
\* a send buffer that has room for them.
RecvData(s, k) ==
    /\ pc = "scan"
    /\ NextReady(s)
    /\ k <= inbox[client[s]]
    /\ inbox' = [inbox EXCEPT ![client[s]] = @ - k]
    /\ Served(s)
    /\ UNCHANGED <<prog, sockfd, client, allset, rset, maxfd, maxi, open,
                   backlog, peer, connects, msgs, errors>>

\* The echo to a client that is gone: send fails, which ends the for loop, or
\* raises SIGPIPE, which ends the process.
EchoFails(s, k) ==
    /\ Echo
    /\ pc = "scan"
    /\ NextReady(s)
    /\ k <= inbox[client[s]]
    /\ peer[client[s]] # "up"
    /\ inbox' = [inbox EXCEPT ![client[s]] = @ - k]
    /\ pc' \in {"select", "exit"}
    /\ UNCHANGED <<prog, sockfd, client, allset, rset, maxfd, maxi, nready, i,
                   open, backlog, peer, connects, msgs, errors>>

\* The echo to a client that has not read the earlier ones: the send buffer is
\* full, the socket is a blocking one, and main waits inside send with the loop
\* at entry i - 1.
EchoBlocks(s, k) ==
    /\ Echo
    /\ pc = "scan"
    /\ NextReady(s)
    /\ k <= inbox[client[s]]
    /\ peer[client[s]] = "up"
    /\ inbox' = [inbox EXCEPT ![client[s]] = @ - k]
    /\ pc' = "echo"
    /\ i' = s + 1
    /\ UNCHANGED <<prog, sockfd, client, allset, rset, maxfd, maxi, nready, open,
                   backlog, peer, connects, msgs, errors>>

\* The client whose echo main is sending.
Echoed == client[i - 1]

\* That client goes away: the send that waits fails like one that did not wait.
EchoDropped ==
    /\ pc = "echo"
    /\ peer[Echoed] # "up"
    /\ pc' \in {"select", "exit"}
    /\ UNCHANGED <<prog, sockfd, client, allset, rset, maxfd, maxi, nready, i,
                   open, backlog, inbox, peer, connects, msgs, errors>>

ClearTableNot(s) == client

ClearTable(s) == [client EXCEPT ![s] = -1]

SetUncleared(s) == allset

SetCleared(s) == allset \ {client[s]}

\* recv returns 0: close, and the entry and the bit in allset are cleared.
RecvEof(s) ==
    /\ pc = "scan"
    /\ NextReady(s)
    /\ inbox[client[s]] = 0 /\ peer[client[s]] = "closed"
    /\ open' = open \ {client[s]}
    /\ client' = ClearTable(s)
    /\ allset' = SetCleared(s)
    /\ peer' = [peer EXCEPT ![client[s]] = "none"]
    /\ Served(s)
    /\ UNCHANGED <<prog, sockfd, rset, maxfd, maxi, backlog, inbox, connects,
                   msgs, errors>>

\* recv fails: main returns -1, whatever the other clients are doing.
RecvFails(s) ==
    /\ pc = "scan"
    /\ NextReady(s)
    /\ inbox[client[s]] = 0 /\ peer[client[s]] = "reset"
    /\ pc' = "exit"
    /\ UNCHANGED <<prog, sockfd, client, allset, rset, maxfd, maxi, nready, i,
                   open, backlog, inbox, peer, connects, msgs, errors>>

\* close(sockfd) after the inner loop; whoever waits to be accepted is refused.
CloseListener ==
    /\ pc = "close"
    /\ open' = open \ {sockfd}
    /\ backlog' = 0
    /\ pc' = "listen"
    /\ UNCHANGED <<prog, sockfd, client, allset, rset, maxfd, maxi, nready, i,
                   inbox, peer, connects, msgs, errors>>

Main ==
    \/ \E f \in Fds : Listen(f) \/ TooMany(f) \/ \E s \in Slots : Accept(f, s)
    \/ ListenFails \/ Select \/ SelectTimeout \/ SelectError \/ AcceptFails
    \/ CloseListener
    \/ \E s \in Slots :
          \/ RecvEof(s) \/ RecvFails(s)
          \/ \E k \in 1 .. MaxMsgs :
                RecvData(s, k) \/ EchoFails(s, k) \/ EchoBlocks(s, k)
    \/ EchoDropped

-----------------------------------------------------------------------------
(* Clients.                                                                *)

ClientConnects ==
    /\ sockfd \in open /\ pc # "exit"
    /\ connects < MaxConnects
    /\ connects' = connects + 1
    /\ backlog' = backlog + 1
    /\ UNCHANGED <<server, inbox, peer, msgs, errors>>

ClientSends(f) ==
    /\ pc # "exit" /\ peer[f] = "up"
    /\ msgs < MaxMsgs
    /\ msgs' = msgs + 1
    /\ inbox' = [inbox EXCEPT ![f] = @ + 1]
    /\ UNCHANGED <<server, backlog, peer, connects, errors>>

ClientCloses(f) ==
    /\ pc # "exit" /\ peer[f] = "up"
    /\ peer' = [peer EXCEPT ![f] = "closed"]
    /\ UNCHANGED <<server, backlog, inbox, connects, msgs, errors>>

\* A reset throws away what the server has not read.
ClientResets(f) ==
    /\ pc # "exit" /\ peer[f] \in {"up", "closed"}
    /\ peer' = [peer EXCEPT ![f] = "reset"]
    /\ inbox' = [inbox EXCEPT ![f] = 0]
    /\ UNCHANGED <<server, backlog, connects, msgs, errors>>

\* The client main waits for reads, and the send returns.
ClientReads ==
    /\ pc = "echo"
    /\ nready' = nready - 1
    /\ pc' = IF nready = 1 THEN "select" ELSE "scan"
    /\ UNCHANGED <<prog, sockfd, client, allset, rset, maxfd, maxi, i, open,
                   backlog, inbox, peer, connects, msgs, errors>>

Clients ==
    \/ ClientConnects
    \/ \E f \in Fds : ClientSends(f) \/ ClientCloses(f) \/ ClientResets(f)

Exited == pc = "exit" /\ UNCHANGED vars

Next == Main \/ ClientReads \/ Clients \/ Exited

Spec == Init /\ [][Next]_vars

\* The process is scheduled, and every call it makes returns but a send to a
\* client that does not read.  Nothing is assumed of the clients: ClientReads
\* need never happen.
FairSpec == Spec /\ WF_vars(Main)

-----------------------------------------------------------------------------
(* Properties.                                                             *)

\* The type invariant.
TypeOK ==
    /\ prog \in Programs
    /\ pc \in {"listen", "select", "accept", "scan", "echo", "close", "exit"}
    /\ sockfd \in Fds \cup {0}
    /\ client \in [Slots -> Fds \cup {0, -1}]
    /\ allset \subseteq Fds /\ rset \subseteq Fds
    /\ maxfd \in Fds \cup {-1}
    /\ maxi \in Slots \cup {-1}
    /\ nready \in 0 .. Cardinality(Fds)
    /\ i \in 0 .. NClient
    /\ open \subseteq Fds
    /\ backlog \in 0 .. MaxConnects
    /\ inbox \in [Fds -> 0 .. MaxMsgs]
    /\ peer \in [Fds -> {"none", "up", "closed", "reset"}]
    /\ connects \in 0 .. MaxConnects
    /\ msgs \in 0 .. MaxMsgs
    /\ errors \in 0 .. MaxErrors

InLoop == pc \in {"select", "accept", "scan", "echo"}

\* Every descriptor main passes to select is open, or select would fail with
\* EBADF for ever, and is at most maxfd, or it would never be reported.
SelectSetValid ==
    InLoop => /\ allset \subseteq open
              /\ \A f \in allset : f <= maxfd

\* An entry of the table names an open connection, never the listening socket
\* and never one another entry names, although descriptors are closed, used
\* again and outlive their listening socket; entries up to maxi were used, so
\* the zeroes the table starts with are never taken for descriptor 0.
TableNamesOpen ==
    /\ \A s \in Slots : client[s] > 0 => client[s] \in open \ {sockfd}
    /\ \A s, u \in Slots : client[s] > 0 /\ client[s] = client[u] => s = u
    /\ \A s \in Slots : s <= maxi <=> client[s] # 0

\* nready counts the entries of the round that are still to be served: the
\* loop leaves when it runs out and never earlier, so no reported client is
\* skipped and the loop never goes past the table with some left over.  Each
\* of them has data, an end or an error to report: on the blocking sockets of
\* tcp_select.c a recv on any other would stop the server for all clients.
RoundIsExact ==
    pc = "scan" => /\ nready > 0
                   /\ nready = Cardinality(ReadySlots)
                   /\ \A s \in ReadySlots : Readable(client[s])

\* A client stays connected and never reads what is echoed to it: the blocking
\* send of tcp_select.c:151 holds main, and with it every client, for ever.
HeldByOneClient == <>[](pc = "echo" /\ peer[Echoed] = "up")

\* What a connected client sent is read, however many others connect, send or
\* leave meanwhile, as long as main still watches that client; main stops
\* watching only when it closes the connection, gives the listening socket up
\* or exits.  The one thing that stops this service is a single client of
\* tcp_select.c that stays and does not read.
WatchedIsServed ==
    \/ HeldByOneClient
    \/ \A f \in Fds :
          (f \in allset /\ inbox[f] > 0) ~>
              (f \notin allset \/ inbox[f] = 0 \/ pc = "exit")

\* A client main has forgotten: its entry is taken but select no longer covers
\* it.
Forgotten(s) == client[s] > 0 /\ client[s] \notin allset

\* tcp_select.c never forgets a client.  bind fails while one is connected, so
\* the restart after an error ends the server instead.
NoneForgotten == prog = "tcp_select" => \A s \in Slots : ~Forgotten(s)

\* What select watches is right after any accepts, ends, errors and restarts:
\* the types, the bounds of the set, and for tcp_select.c every client in it.
WatchInv == TypeOK /\ SelectSetValid /\ NoneForgotten

\* An entry is given up only together with its connection.  tcp_server.c
\* restarts the listener with the old table, so a client forgotten that way
\* keeps its entry for good, is never read and never closed, and every error
\* lessens the number of clients the server can take.
ForgottenForever ==
    [][\A s \in Slots :
          /\ client[s] > 0 => client'[s] = client[s] \/ client[s] \notin open'
          /\ Forgotten(s) =>
                client'[s] = client[s] /\ client[s] \notin allset']_vars
=============================================================================
