-------------------------- MODULE SelectServerProofs --------------------------
(***************************************************************************)
(* The select servers for every table size, descriptor range and number of *)
(* clients, messages and errors: what select watches is right, the table   *)
(* names open connections, the rounds serve exactly what select reported,  *)
(* and tcp_server.c never gets a forgotten entry back.                     *)
(***************************************************************************)
EXTENDS SelectServer, FiniteSetTheorems, TLAPS

\* No connection waits that was not made, and no message that was not sent.
Counters ==
    /\ backlog <= connects
    /\ \A f \in Fds : inbox[f] <= msgs

\* From socket_bind_listen to close(sockfd) the listening socket is open.
ListenerOpen == InLoop \/ pc = "close" => sockfd \in open

\* In the loop, select watches the listening socket and nothing that is not
\* in the table.
WatchedInTable ==
    InLoop => \A f \in allset : f = sockfd \/ \E s \in Slots : client[s] = f

\* What a round still has to serve: an entry whose descriptor is watched and
\* has something to report.
PendingReady ==
    \A s \in ReadySlots : client[s] \in allset /\ Readable(client[s])

\* A round counts the accept, when one is due, and the entries behind i.
RoundCounts ==
    /\ pc = "accept" => /\ PendingReady /\ backlog > 0
                        /\ rset \subseteq open
                        /\ nready = Cardinality(ReadySlots) + 1
    /\ pc = "scan" => /\ PendingReady /\ nready > 0
                      /\ nready = Cardinality(ReadySlots)
    /\ pc = "echo" => PendingReady /\ nready = Cardinality(ReadySlots) + 1

\* The inductive invariant.
IInv ==
    /\ WatchInv /\ TableNamesOpen
    /\ Counters /\ ListenerOpen /\ WatchedInTable /\ RoundCounts

-----------------------------------------------------------------------------
\* A descriptor is a positive number: 0 and -1 in the table are not one.
LEMMA FdsPositive ==
    /\ \A f \in Fds : f \in Nat /\ f > 0
    /\ 0 \notin Fds /\ -1 \notin Fds
  BY ServerAssumption DEF Fds

\* Table entries and descriptors are finite sets.
LEMMA Finite ==
    /\ IsFiniteSet(Slots) /\ IsFiniteSet(Fds) /\ Cardinality(Fds) \in Nat
    /\ IsFiniteSet(ReadySlots) /\ Cardinality(ReadySlots) \in Nat
    /\ IsFiniteSet(ReadySlots)' /\ Cardinality(ReadySlots)' \in Nat
<1>1. IsFiniteSet(Slots) /\ IsFiniteSet(Fds)
  BY FS_Interval, ServerAssumption DEF Slots, Fds
<1>2. IsFiniteSet(ReadySlots) /\ IsFiniteSet(ReadySlots')
  <2>1. ReadySlots \in SUBSET Slots /\ ReadySlots' \in SUBSET Slots
    BY DEF ReadySlots
  <2> QED
    BY <1>1, <2>1, FS_Subset
<1> QED
  BY <1>1, <1>2, FS_CardinalityType

\* A step that touches neither the table nor the sets keeps what is true of
\* them, as long as it does not enter the loop from outside.
LEMMA TableStep ==
    ASSUME IInv,
           UNCHANGED <<prog, sockfd, client, allset, maxfd, maxi, open>>,
           InLoop' => InLoop, pc' = "close" => InLoop \/ pc = "close"
    PROVE  /\ SelectSetValid' /\ NoneForgotten' /\ TableNamesOpen'
           /\ ListenerOpen' /\ WatchedInTable'
<1>1. SelectSetValid'
  BY DEF IInv, WatchInv, SelectSetValid
<1>2. NoneForgotten'
  BY DEF IInv, WatchInv, NoneForgotten, Forgotten
<1>3. TableNamesOpen'
  BY DEF IInv, TableNamesOpen
<1>4. ListenerOpen'
  BY DEF IInv, ListenerOpen
<1>5. WatchedInTable'
  BY DEF IInv, WatchedInTable
<1> QED
  BY <1>1, <1>2, <1>3, <1>4, <1>5

\* The for loop serves the entries in order: what is left is what was ready
\* without the one just served, whether or not its entry was cleared.
LEMMA ServedOne ==
    ASSUME IInv, NEW s \in Slots, NextReady(s), i' = s + 1,
           rset' = rset, maxi' = maxi,
           client' = client \/ client' = [client EXCEPT ![s] = -1]
    PROVE  /\ ReadySlots' = ReadySlots \ {s}
           /\ Cardinality(ReadySlots)' = Cardinality(ReadySlots) - 1
<1>1. /\ s \in Int /\ i \in Int /\ maxi \in Int
      /\ \A u \in Slots : u \in Int
  BY ServerAssumption DEF IInv, WatchInv, TypeOK, Slots
<1>2. client \in [Slots -> Fds \cup {0, -1}]
  BY DEF IInv, WatchInv, TypeOK
<1>3. s \in ReadySlots /\ \A u \in ReadySlots : s <= u
  BY DEF NextReady
<1>4. ASSUME NEW u \in Slots
      PROVE  u \in ReadySlots' <=> u \in ReadySlots /\ u # s
  <2>1. CASE u = s
    BY <2>1, <1>1 DEF ReadySlots
  <2>2. CASE u # s
    <3>1. client'[u] = client[u]
      BY <2>2, <1>2
    <3>2. s + 1 <= u <=> s < u
      BY <1>1
    <3>3. u \in ReadySlots => i <= u /\ s + 1 <= u
      BY <1>1, <1>3, <2>2 DEF ReadySlots
    <3>4. s + 1 <= u => i <= u
      BY <1>1, <1>3 DEF ReadySlots
    <3> QED
      BY <2>2, <3>1, <3>3, <3>4 DEF ReadySlots
  <2> QED
    BY <2>1, <2>2
<1>5. ReadySlots' = ReadySlots \ {s}
  BY <1>4 DEF ReadySlots
<1> QED
  BY <1>3, <1>5, Finite, FS_RemoveElement

\* select reports the listening socket or one entry of the table for each
\* descriptor in rset, so nready is the accept and the ready entries.
LEMMA RoundStarts ==
    ASSUME IInv, pc = "select", rset' = Reported, i' = 0,
           UNCHANGED <<client, maxi>>
    PROVE  /\ IsFiniteSet(Reported)
           /\ Cardinality(Reported) \in 0 .. Cardinality(Fds)
           /\ Cardinality(Reported) =
                Cardinality(ReadySlots)' + (IF sockfd \in Reported THEN 1 ELSE 0)
           /\ \A s \in ReadySlots' : client[s] \in Reported
<1>0. /\ client \in [Slots -> Fds \cup {0, -1}]
      /\ allset \subseteq Fds
      /\ \A s \in Slots : s \in Int /\ 0 <= s
  BY ServerAssumption DEF IInv, WatchInv, TypeOK, Slots
<1>1. Reported \in SUBSET Fds
  BY <1>0 DEF Reported
<1>2. /\ IsFiniteSet(Reported) /\ Cardinality(Reported) \in Nat
      /\ Cardinality(Reported) <= Cardinality(Fds)
  BY <1>1, Finite, FS_Subset, FS_CardinalityType
<1> DEFINE Entries == Reported \ {sockfd}
           g == [s \in ReadySlots' |-> client[s]]
<1>3. ASSUME NEW s \in Slots
      PROVE  s \in ReadySlots' <=> client[s] \in Entries
  <2>1. client[s] \in Reported => client[s] > 0
    BY <1>1, FdsPositive
  <2>2. client[s] > 0 => client[s] # sockfd /\ s <= maxi
    <3>1. client[s] > 0 => client[s] \in open \ {sockfd}
      BY DEF IInv, TableNamesOpen
    <3>2. client[s] # 0 => s <= maxi
      BY DEF IInv, TableNamesOpen
    <3> QED
      BY <3>1, <3>2
  <2>3. client[s] > 0 => client[s] >= 0
    BY <1>0, FdsPositive
  <2> QED
    BY <1>0, <2>1, <2>2, <2>3 DEF ReadySlots
<1>4. g \in Bijection(ReadySlots', Entries)
  <2>1. g \in [ReadySlots' -> Entries]
    BY <1>3 DEF ReadySlots
  <2>2. ASSUME NEW a \in ReadySlots', NEW b \in ReadySlots', g[a] = g[b]
        PROVE  a = b
    <3>1. client[a] = client[b] /\ client[a] \in Fds /\ a \in Slots /\ b \in Slots
      BY <2>2, <1>3, <1>1 DEF ReadySlots
    <3> QED
      BY <3>1, FdsPositive DEF IInv, TableNamesOpen
  <2>3. ASSUME NEW f \in Entries PROVE \E s \in ReadySlots' : g[s] = f
    <3>1. PICK s \in Slots : client[s] = f
      BY <2>3 DEF IInv, WatchedInTable, InLoop, Reported
    <3> QED
      BY <3>1, <1>3
  <2> QED
    BY <2>1, <2>2, <2>3 DEF Bijection, Injection, Surjection, IsInjective
<1>5. Cardinality(Entries) = Cardinality(ReadySlots)'
  BY <1>4, Finite, FS_Bijection DEF ExistsBijection
<1>6. Cardinality(Entries) =
        IF sockfd \in Reported THEN Cardinality(Reported) - 1
                               ELSE Cardinality(Reported)
  BY <1>2, FS_RemoveElement
<1>7. \A s \in ReadySlots' : client[s] \in Reported
  BY <1>3 DEF ReadySlots
<1> HIDE DEF Entries, g
<1> QED
  BY <1>2, <1>5, <1>6, <1>7, Finite

-----------------------------------------------------------------------------
\* main starts in the invariant, with an empty table.
LEMMA InitInv == Init => IInv
<1> SUFFICES ASSUME Init PROVE IInv
  OBVIOUS
<1>1. TypeOK
  BY ServerAssumption, Finite DEF Init, TypeOK
<1>2. \A s \in Slots : client[s] = 0 /\ s \in Nat
  BY ServerAssumption DEF Init, Slots
<1>3. SelectSetValid /\ ListenerOpen /\ WatchedInTable /\ RoundCounts
  BY DEF Init, SelectSetValid, ListenerOpen, WatchedInTable, RoundCounts,
         InLoop
<1>4. NoneForgotten /\ TableNamesOpen
  BY <1>2 DEF Init, NoneForgotten, Forgotten, TableNamesOpen
<1>5. Counters
  BY DEF Init, Counters
<1> QED
  BY <1>1, <1>3, <1>4, <1>5 DEF IInv, WatchInv

\* socket_bind_listen: the new socket is a descriptor no entry names.
LEMMA ListenInv ==
    ASSUME IInv, NEW f \in Fds, Listen(f) PROVE IInv'
<1>0. /\ f \notin open /\ open \subseteq Fds /\ prog \in Programs
      /\ client \in [Slots -> Fds \cup {0, -1}] /\ f \in Nat
  BY FdsPositive DEF IInv, WatchInv, TypeOK, Listen, NewFd
<1>1. TypeOK'
  BY <1>0 DEF IInv, WatchInv, TypeOK, Listen, TableKept
<1>2. SelectSetValid'
  BY <1>0 DEF Listen, SelectSetValid
<1>3. NoneForgotten'
  <2>1. CASE prog = "tcp_server"
    BY <2>1 DEF Listen, NoneForgotten
  <2>2. CASE prog # "tcp_server"
    <3>1. open = {}
      BY <2>2 DEF Listen, ReuseAddr
    <3>2. \A s \in Slots : ~(client[s] > 0)
      BY <3>1 DEF IInv, TableNamesOpen
    <3> QED
      BY <3>2 DEF Listen, TableKept, NoneForgotten, Forgotten
  <2> QED
    BY <2>1, <2>2
<1>4. TableNamesOpen'
  BY <1>0 DEF IInv, TableNamesOpen, Listen, TableKept
<1>5. Counters'
  BY DEF IInv, Counters, Listen
<1>6. ListenerOpen' /\ WatchedInTable' /\ RoundCounts'
  BY DEF Listen, ListenerOpen, WatchedInTable, RoundCounts, InLoop
<1> QED
  BY <1>1, <1>2, <1>3, <1>4, <1>5, <1>6 DEF IInv, WatchInv

\* accept: the entry is the first free one, so maxi still bounds the used
\* ones; the new descriptor was not reported in this round.
LEMMA AcceptInv ==
    ASSUME IInv, NEW f \in Fds, NEW s \in Slots, Accept(f, s) PROVE IInv'
<1>0. /\ f \notin open /\ open \subseteq Fds /\ prog \in Programs
      /\ client \in [Slots -> Fds \cup {0, -1}]
      /\ allset \subseteq Fds /\ rset \subseteq Fds
      /\ maxi \in Slots \cup {-1} /\ maxfd \in Fds \cup {-1}
      /\ nready \in Nat /\ nready \in 0 .. Cardinality(Fds)
      /\ backlog \in 0 .. MaxConnects
  BY FdsPositive, Finite DEF IInv, WatchInv, TypeOK, Accept, NewFd
<1>1. /\ pc = "accept" /\ InLoop /\ sockfd \in open /\ allset \subseteq open
      /\ sockfd # f
  BY <1>0 DEF IInv, WatchInv, SelectSetValid, ListenerOpen, Accept, InLoop
<1>2. /\ client' = [client EXCEPT ![s] = f] /\ sockfd' = sockfd
      /\ open' = open \cup {f} /\ allset' = allset \cup {f}
      /\ rset' = rset /\ i' = i /\ prog' = prog
  BY DEF Accept, Watch
<1>3. PendingReady /\ backlog > 0 /\ rset \subseteq open
      /\ nready = Cardinality(ReadySlots) + 1
  BY <1>1 DEF IInv, RoundCounts
<1>4. /\ \A u \in Slots : u \in Nat
      /\ client[s] <= 0 /\ \A u \in Slots : client[u] <= 0 => s <= u
  BY ServerAssumption DEF Accept, FirstFree, FreeSlots, Slots
<1>5. /\ \A u \in Slots : client[u] > 0 => client[u] \in open
      /\ \A u \in Slots : client[u] > 0 <=> client[u] \in Fds
      /\ client[s] \notin Fds
  <2>1. \A u \in Slots : client[u] > 0 => client[u] \in open
    BY DEF IInv, TableNamesOpen
  <2>2. \A u \in Slots : client[u] > 0 <=> client[u] \in Fds
    BY <1>0, FdsPositive
  <2> QED
    BY <2>1, <2>2, <1>4, FdsPositive
<1>6. maxfd' \in Fds /\ f <= maxfd' /\ \A g \in Fds : g <= maxfd => g <= maxfd'
  BY <1>0, FdsPositive DEF Accept, MaxfdAfter, Larger
<1>7. /\ maxi' \in Slots
      /\ \A u \in Slots : u <= maxi' <=> u <= maxi \/ u = s
  <2>1. maxi' = IF s > maxi THEN s ELSE maxi
    BY DEF Accept, MaxiAfter, Larger
  <2>2. \A u \in Slots : u <= maxi <=> client[u] # 0
    BY DEF IInv, TableNamesOpen
  <2>3. \A u \in Slots : u < s => u <= maxi
    <3> SUFFICES ASSUME NEW u \in Slots, u < s PROVE u <= maxi
      OBVIOUS
    <3>1. ~(client[u] <= 0)
      BY <1>4
    <3>2. client[u] # 0
      BY <3>1
    <3> QED
      BY <3>2, <2>2
  <2>4. s \in Int /\ maxi \in Int /\ \A u \in Slots : u \in Int
    BY <1>0, <1>4
  <2> QED
    BY <1>0, <1>4, <2>1, <2>3, <2>4
<1>8. ReadySlots' = ReadySlots
  <2>1. ASSUME NEW u \in Slots PROVE u \in ReadySlots' <=> u \in ReadySlots
    <3>1. CASE u = s
      <4>1. client'[u] = f
        BY <3>1, <1>0, <1>2
      <4>2. u \notin ReadySlots
        BY <3>1, <1>0, <1>5 DEF ReadySlots
      <4>3. u \notin ReadySlots'
        BY <4>1, <1>0, <1>2, <1>3 DEF ReadySlots
      <4> QED
        BY <4>2, <4>3
    <3>2. CASE u # s
      <4>1. client'[u] = client[u]
        BY <3>2, <1>0, <1>2
      <4> QED
        BY <3>2, <4>1, <1>2, <1>7 DEF ReadySlots
    <3> QED
      BY <3>1, <3>2
  <2> QED
    BY <2>1 DEF ReadySlots
<1>9. TypeOK'
  <2>1. nready' \in 0 .. Cardinality(Fds) /\ backlog' \in 0 .. MaxConnects
    BY <1>0, <1>3, Finite, ServerAssumption DEF Accept
  <2>2. client' \in [Slots -> Fds \cup {0, -1}]
    BY <1>0, <1>2
  <2>3. inbox' \in [Fds -> 0 .. MaxMsgs]
    BY ServerAssumption DEF IInv, WatchInv, TypeOK, Accept
  <2>4. peer' \in [Fds -> {"none", "up", "closed", "reset"}]
    BY DEF IInv, WatchInv, TypeOK, Accept
  <2>5. pc' \in {"select", "scan"}
    BY DEF Accept
  <2> QED
    BY <2>1, <2>2, <2>3, <2>4, <2>5, <1>6, <1>7
       DEF IInv, WatchInv, TypeOK, Accept, Watch
<1>10. SelectSetValid'
  BY <1>0, <1>1, <1>2, <1>6 DEF IInv, WatchInv, SelectSetValid
<1>11. NoneForgotten'
  BY <1>0, <1>2 DEF IInv, WatchInv, NoneForgotten, Forgotten
<1>12. TableNamesOpen'
  <2>1. \A u \in Slots : client'[u] > 0 => client'[u] \in open' \ {sockfd'}
    BY <1>0, <1>1, <1>2 DEF IInv, TableNamesOpen
  <2>2. \A u, v \in Slots :
            client'[u] > 0 /\ client'[u] = client'[v] => u = v
    <3> SUFFICES ASSUME NEW u \in Slots, NEW v \in Slots,
                        client'[u] > 0, client'[u] = client'[v]
                 PROVE  u = v
      OBVIOUS
    <3>1. \A w \in Slots : w # s => client'[w] = client[w] /\
                                    (client[w] > 0 => client[w] # f)
      BY <1>0, <1>2, <1>5
    <3>2. client'[s] = f
      BY <1>0, <1>2
    <3> QED
      BY <3>1, <3>2 DEF IInv, TableNamesOpen
  <2>3. \A u \in Slots : u <= maxi' <=> client'[u] # 0
    BY <1>0, <1>2, <1>7, FdsPositive DEF IInv, TableNamesOpen
  <2> QED
    BY <2>1, <2>2, <2>3 DEF TableNamesOpen
<1>13. Counters'
  <2>1. backlog' <= connects'
    BY ServerAssumption DEF IInv, WatchInv, TypeOK, Counters, Accept
  <2>2. \A g \in Fds : inbox'[g] <= msgs'
    BY ServerAssumption DEF IInv, WatchInv, TypeOK, Counters, Accept
  <2> QED
    BY <2>1, <2>2 DEF Counters
<1>14. ListenerOpen'
  BY <1>1, <1>2 DEF ListenerOpen
<1>15. WatchedInTable'
  <2> SUFFICES ASSUME NEW g \in allset'
               PROVE  g = sockfd' \/ \E u \in Slots : client'[u] = g
    BY DEF WatchedInTable
  <2>1. CASE g = f
    BY <2>1, <1>0, <1>2
  <2>2. CASE g \in allset
    <3>1. CASE g = sockfd
      BY <3>1, <1>2
    <3>2. CASE g # sockfd
      <4>1. PICK u \in Slots : client[u] = g
        BY <2>2, <3>2, <1>1 DEF IInv, WatchedInTable
      <4>2. u # s
        BY <2>2, <4>1, <1>0, <1>5
      <4> QED
        BY <4>1, <4>2, <1>0, <1>2
    <3> QED
      BY <3>1, <3>2
  <2> QED
    BY <2>1, <2>2, <1>2
<1>16. RoundCounts'
  <2>1. PendingReady'
    <3> SUFFICES ASSUME NEW u \in ReadySlots'
                 PROVE  client'[u] \in allset' /\ Readable(client[u])'
                        /\ client'[u] = client[u]
      BY DEF PendingReady
    <3>1. u \in ReadySlots /\ u \in Slots /\ client[u] \in rset
      BY <1>8 DEF ReadySlots
    <3>2. client[u] \in allset /\ Readable(client[u]) /\ client[u] \in Fds
          /\ client[u] \in open
      BY <3>1, <1>0, <1>3 DEF PendingReady
    <3>3. u # s /\ client'[u] = client[u]
      BY <3>1, <3>2, <1>0, <1>2, <1>5
    <3>4. client[u] # sockfd /\ client[u] # f
      <4>1. client[u] > 0
        BY <3>1, <3>2, <1>5
      <4> QED
        BY <4>1, <3>1, <3>2, <1>0 DEF IInv, TableNamesOpen
    <3>5. Readable(client[u])'
      BY <3>2, <3>3, <3>4, <1>2
         DEF Readable, Accept, IInv, WatchInv, TypeOK
    <3> QED
      BY <3>2, <3>3, <3>5, <1>2
  <2>2. CASE nready = 1
    BY <2>2 DEF Accept, RoundCounts
  <2>3. CASE nready # 1
    <3>1. /\ pc' = "scan" /\ nready' = nready - 1
      BY <2>3 DEF Accept
    <3>2. Cardinality(ReadySlots)' = Cardinality(ReadySlots)
      BY <1>8
    <3>3. nready' = Cardinality(ReadySlots)' /\ nready' > 0
      BY <2>3, <3>1, <3>2, <1>3, Finite
    <3> QED
      BY <2>1, <3>1, <3>3 DEF RoundCounts
  <2> QED
    BY <2>2, <2>3
<1> QED
  BY <1>9, <1>10, <1>11, <1>12, <1>13, <1>14, <1>15, <1>16 DEF IInv, WatchInv

\* select: the round that begins holds exactly what was reported.
LEMMA SelectInv ==
    ASSUME IInv, Select PROVE IInv'
<1>1. /\ IsFiniteSet(Reported)
      /\ Cardinality(Reported) \in 0 .. Cardinality(Fds)
      /\ Cardinality(Reported) =
           Cardinality(ReadySlots)' + (IF sockfd \in Reported THEN 1 ELSE 0)
      /\ \A s \in ReadySlots' : client[s] \in Reported
  BY RoundStarts DEF Select
<1>2. Reported \subseteq allset /\ \A f \in Reported : Readable(f)
  BY DEF Reported
<1>3. allset \subseteq open /\ allset \subseteq Fds
  BY DEF Select, IInv, WatchInv, SelectSetValid, TypeOK, InLoop
<1>4. TypeOK'
  <2>1. i' \in 0 .. NClient /\ nready' \in 0 .. Cardinality(Fds)
    BY <1>1, ServerAssumption DEF Select
  <2>2. pc' \in {"accept", "scan"}
    BY DEF Select
  <2> QED
    BY <2>1, <2>2, <1>2, <1>3 DEF IInv, WatchInv, TypeOK, Select
<1>5. /\ SelectSetValid' /\ NoneForgotten' /\ TableNamesOpen'
      /\ ListenerOpen' /\ WatchedInTable'
  BY TableStep DEF Select, InLoop
<1>6. Counters'
  BY DEF IInv, Counters, Select
<1>7. RoundCounts'
  <2>1. PendingReady'
    BY <1>1, <1>2 DEF PendingReady, Select, Readable
  <2>2. CASE sockfd \in Reported
    <3>1. pc' = "accept" /\ nready' = Cardinality(ReadySlots)' + 1
      BY <2>2, <1>1 DEF Select
    <3>2. backlog' > 0
      BY <2>2, <1>2 DEF Readable, Select
    <3>3. rset' \subseteq open'
      BY <1>2, <1>3 DEF Select
    <3> QED
      BY <2>1, <3>1, <3>2, <3>3 DEF RoundCounts
  <2>3. CASE sockfd \notin Reported
    <3>1. pc' = "scan" /\ nready' = Cardinality(Reported)
      BY <2>3 DEF Select
    <3>2. nready' = Cardinality(ReadySlots)'
      BY <2>3, <3>1, <1>1, Finite
    <3>3. Cardinality(Reported) # 0
      BY <1>1, FS_EmptySet DEF Select
    <3>4. nready' > 0
      BY <3>1, <3>3, <1>1, Finite
    <3> QED
      BY <2>1, <3>1, <3>2, <3>4 DEF RoundCounts
  <2> QED
    BY <2>2, <2>3
<1> QED
  BY <1>4, <1>5, <1>6, <1>7 DEF IInv, WatchInv

\* After an entry is served: the round goes on with the others, which are
\* still watched and still readable, or is over.
LEMMA ServedRound ==
    ASSUME IInv, NEW s \in Slots, pc = "scan", NextReady(s), Served(s),
           rset' = rset, maxi' = maxi, sockfd' = sockfd,
           client' = client \/ client' = [client EXCEPT ![s] = -1],
           allset' = allset \/ allset' = allset \ {client[s]},
           \A f \in Fds \ {client[s]} : inbox'[f] = inbox[f] /\ peer'[f] = peer[f],
           UNCHANGED backlog
    PROVE  /\ RoundCounts'
           /\ i' \in 0 .. NClient /\ nready' \in 0 .. Cardinality(Fds)
           /\ pc' \in {"select", "scan"}
<1>1. /\ ReadySlots' = ReadySlots \ {s}
      /\ Cardinality(ReadySlots)' = Cardinality(ReadySlots) - 1
  BY ServedOne DEF Served
<1>2. /\ PendingReady /\ nready > 0 /\ nready = Cardinality(ReadySlots)
      /\ nready \in 0 .. Cardinality(Fds)
  BY DEF IInv, RoundCounts, WatchInv, TypeOK
<1>3. /\ client \in [Slots -> Fds \cup {0, -1}] /\ rset \subseteq Fds
      /\ s \in ReadySlots
  BY DEF IInv, WatchInv, TypeOK, NextReady
<1>4. PendingReady'
  <2> SUFFICES ASSUME NEW u \in ReadySlots'
               PROVE  client'[u] \in allset' /\ Readable(client[u])'
                      /\ client'[u] = client[u]
    BY DEF PendingReady
  <2>1. u \in ReadySlots /\ u # s /\ u \in Slots /\ client[u] \in Fds
        /\ client[s] \in Fds
    BY <1>1, <1>3 DEF ReadySlots
  <2>2. client[u] # client[s] /\ client[u] # sockfd
    BY <2>1, FdsPositive DEF IInv, TableNamesOpen
  <2>3. client'[u] = client[u]
    BY <2>1, <1>3
  <2>4. client[u] \in allset /\ Readable(client[u])
    BY <2>1, <1>2 DEF PendingReady
  <2>5. Readable(client[u])'
    BY <2>1, <2>2, <2>3, <2>4 DEF Readable
  <2> QED
    BY <2>2, <2>3, <2>4, <2>5
<1>5. i' \in 0 .. NClient /\ nready' \in 0 .. Cardinality(Fds)
  BY <1>2, Finite, ServerAssumption DEF Served, Slots
<1>6. CASE nready = 1
  BY <1>5, <1>6 DEF Served, RoundCounts
<1>7. CASE nready # 1
  <2>1. pc' = "scan" /\ nready' = nready - 1
    BY <1>7 DEF Served
  <2>2. nready' > 0 /\ nready' = Cardinality(ReadySlots)'
    BY <1>1, <1>2, <1>7, <2>1, Finite
  <2> QED
    BY <1>4, <1>5, <2>1, <2>2 DEF RoundCounts
<1> QED
  BY <1>6, <1>7

\* What recv leaves in an inbox is a number of messages that were sent.
LEMMA RecvTakes ==
    ASSUME IInv, NEW s \in Slots, NEW k \in 1 .. MaxMsgs, NextReady(s),
           k <= inbox[client[s]], UNCHANGED <<backlog, connects, msgs>>,
           inbox' = [inbox EXCEPT ![client[s]] = @ - k]
    PROVE  /\ client[s] \in Fds
           /\ inbox' \in [Fds -> 0 .. MaxMsgs]
           /\ Counters'
<1>1. client[s] \in Fds
  BY DEF IInv, WatchInv, TypeOK, NextReady, ReadySlots
<1>2. inbox \in [Fds -> 0 .. MaxMsgs]
  BY DEF IInv, WatchInv, TypeOK
<1>3. \A f \in Fds : inbox'[f] \in 0 .. MaxMsgs /\ inbox'[f] <= inbox[f]
  BY <1>1, <1>2, ServerAssumption
<1>4. inbox' \in [Fds -> 0 .. MaxMsgs]
  BY <1>2, <1>3
<1>5. msgs \in 0 .. MaxMsgs
  BY DEF IInv, WatchInv, TypeOK
<1>6. \A f \in Fds : inbox[f] <= msgs
  BY DEF IInv, Counters
<1>7. \A f \in Fds : inbox'[f] <= msgs'
  BY <1>2, <1>3, <1>5, <1>6, ServerAssumption
<1> QED
  BY <1>1, <1>4, <1>7 DEF IInv, Counters

\* recv of data.
LEMMA RecvDataInv ==
    ASSUME IInv, NEW s \in Slots, NEW k \in 1 .. MaxMsgs, RecvData(s, k)
    PROVE  IInv'
<1>1. client[s] \in Fds /\ inbox' \in [Fds -> 0 .. MaxMsgs] /\ Counters'
  BY RecvTakes DEF RecvData
<1>2. \A f \in Fds \ {client[s]} : inbox'[f] = inbox[f] /\ peer'[f] = peer[f]
  BY <1>1 DEF RecvData, IInv, WatchInv, TypeOK
<1>3. /\ RoundCounts'
      /\ i' \in 0 .. NClient /\ nready' \in 0 .. Cardinality(Fds)
      /\ pc' \in {"select", "scan"}
  BY <1>2, ServedRound DEF RecvData
<1>4. TypeOK'
  BY <1>1, <1>3 DEF IInv, WatchInv, TypeOK, RecvData
<1>5. /\ SelectSetValid' /\ NoneForgotten' /\ TableNamesOpen'
      /\ ListenerOpen' /\ WatchedInTable'
  <2>1. InLoop /\ pc' # "close"
    BY <1>3 DEF RecvData, InLoop
  <2> QED
    BY <2>1, TableStep DEF RecvData
<1> QED
  BY <1>1, <1>3, <1>4, <1>5 DEF IInv, WatchInv

\* The echo that fails ends the round.
LEMMA EchoFailsInv ==
    ASSUME IInv, NEW s \in Slots, NEW k \in 1 .. MaxMsgs, EchoFails(s, k)
    PROVE  IInv'
<1>1. inbox' \in [Fds -> 0 .. MaxMsgs] /\ Counters'
  BY RecvTakes DEF EchoFails
<1>2. TypeOK'
  BY <1>1 DEF IInv, WatchInv, TypeOK, EchoFails
<1>3. /\ SelectSetValid' /\ NoneForgotten' /\ TableNamesOpen'
      /\ ListenerOpen' /\ WatchedInTable'
  BY TableStep DEF EchoFails, InLoop
<1>4. RoundCounts'
  BY DEF EchoFails, RoundCounts
<1> QED
  BY <1>1, <1>2, <1>3, <1>4 DEF IInv, WatchInv

\* The echo that blocks takes its entry out of the round, but not out of nready.
LEMMA EchoBlocksInv ==
    ASSUME IInv, NEW s \in Slots, NEW k \in 1 .. MaxMsgs, EchoBlocks(s, k)
    PROVE  IInv'
<1>0. /\ pc = "scan" /\ pc' = "echo" /\ nready' = nready
      /\ NextReady(s) /\ i' = s + 1
      /\ UNCHANGED <<prog, sockfd, client, allset, rset, maxfd, maxi, open>>
  BY DEF EchoBlocks
<1>1. client[s] \in Fds /\ inbox' \in [Fds -> 0 .. MaxMsgs] /\ Counters'
  BY RecvTakes DEF EchoBlocks
<1>2. \A f \in Fds \ {client[s]} : inbox'[f] = inbox[f] /\ peer'[f] = peer[f]
  BY <1>1 DEF EchoBlocks, IInv, WatchInv, TypeOK
<1>3. RoundCounts'
  <2>1. /\ ReadySlots' = ReadySlots \ {s}
        /\ Cardinality(ReadySlots)' = Cardinality(ReadySlots) - 1
    BY <1>0, ServedOne
  <2>2. PendingReady /\ nready = Cardinality(ReadySlots)
    BY <1>0 DEF IInv, RoundCounts
  <2>3. ASSUME NEW u \in ReadySlots \ {s}
        PROVE  client[u] \in allset /\ Readable(client[u])'
    <3>1. /\ u \in Slots /\ client[u] \in allset /\ Readable(client[u])
          /\ client[u] \in Fds
      BY <2>2 DEF PendingReady, ReadySlots, IInv, WatchInv, TypeOK
    <3>2. client[u] # sockfd /\ client[u] # client[s]
      BY <1>1, <3>1, FdsPositive DEF IInv, TableNamesOpen
    <3> QED
      BY <1>0, <1>2, <3>1, <3>2 DEF Readable
  <2>4. PendingReady'
    BY <1>0, <2>1, <2>3 DEF PendingReady
  <2> QED
    BY <1>0, <2>1, <2>2, <2>4, Finite DEF RoundCounts
<1>4. TypeOK'
  <2>1. i' \in 0 .. NClient
    BY <1>0, ServerAssumption DEF Slots
  <2> QED
    BY <1>0, <1>1, <2>1 DEF IInv, WatchInv, TypeOK, EchoBlocks
<1>5. /\ SelectSetValid' /\ NoneForgotten' /\ TableNamesOpen'
      /\ ListenerOpen' /\ WatchedInTable'
  BY <1>0, TableStep DEF InLoop
<1> QED
  BY <1>1, <1>3, <1>4, <1>5 DEF IInv, WatchInv

\* When it returns, the entry leaves nready too and the round goes on.
LEMMA ClientReadsInv ==
    ASSUME IInv, ClientReads PROVE IInv'
<1>1. /\ PendingReady /\ nready = Cardinality(ReadySlots) + 1
      /\ nready \in 0 .. Cardinality(Fds)
  BY DEF ClientReads, IInv, RoundCounts, WatchInv, TypeOK
<1>2. ReadySlots' = ReadySlots
  BY DEF ClientReads, ReadySlots
<1>3. PendingReady'
  BY <1>1, <1>2 DEF ClientReads, PendingReady, Readable
<1>4. nready' = Cardinality(ReadySlots) /\ nready' \in 0 .. Cardinality(Fds)
  BY <1>1, Finite DEF ClientReads
<1>5. TypeOK'
  BY <1>4 DEF IInv, WatchInv, TypeOK, ClientReads
<1>6. RoundCounts'
  <2>1. pc' = "scan" => nready' > 0
    BY <1>1, Finite DEF ClientReads
  <2> QED
    BY <1>2, <1>3, <1>4, <2>1 DEF ClientReads, RoundCounts
<1>7. /\ SelectSetValid' /\ NoneForgotten' /\ TableNamesOpen'
      /\ ListenerOpen' /\ WatchedInTable'
  BY TableStep DEF ClientReads, InLoop
<1>8. Counters'
  BY DEF IInv, Counters, ClientReads
<1> QED
  BY <1>5, <1>6, <1>7, <1>8 DEF IInv, WatchInv

\* recv returns 0: entry, bit and descriptor go together, and no other entry
\* names the descriptor.
LEMMA RecvEofInv ==
    ASSUME IInv, NEW s \in Slots, RecvEof(s) PROVE IInv'
<1>0. /\ client \in [Slots -> Fds \cup {0, -1}] /\ allset \subseteq Fds
      /\ open \subseteq Fds /\ prog \in Programs /\ s \in ReadySlots
      /\ client[s] \in Fds /\ InLoop /\ pc = "scan"
  BY DEF IInv, WatchInv, TypeOK, RecvEof, NextReady, ReadySlots, InLoop
<1>1. /\ client' = [client EXCEPT ![s] = -1]
      /\ allset' = allset \ {client[s]} /\ open' = open \ {client[s]}
      /\ UNCHANGED <<prog, sockfd, maxfd, maxi>>
  BY DEF RecvEof, ClearTable, SetCleared
<1>2. \A u \in Slots : u # s /\ client[u] > 0 => client[u] # client[s]
  BY DEF IInv, TableNamesOpen
<1>3. /\ RoundCounts'
      /\ i' \in 0 .. NClient /\ nready' \in 0 .. Cardinality(Fds)
      /\ pc' \in {"select", "scan"}
  <2>1. \A f \in Fds \ {client[s]} : inbox'[f] = inbox[f] /\ peer'[f] = peer[f]
    BY <1>0 DEF RecvEof, IInv, WatchInv, TypeOK
  <2> QED
    BY <2>1, <1>1, ServedRound DEF RecvEof
<1>4. TypeOK'
  <2>1. client' \in [Slots -> Fds \cup {0, -1}]
    BY <1>0, <1>1
  <2>2. peer' \in [Fds -> {"none", "up", "closed", "reset"}]
    BY DEF IInv, WatchInv, TypeOK, RecvEof
  <2> QED
    BY <1>0, <1>1, <1>3, <2>1, <2>2 DEF IInv, WatchInv, TypeOK, RecvEof
<1>5. SelectSetValid'
  BY <1>0, <1>1 DEF IInv, WatchInv, SelectSetValid
<1>6. client[s] > 0 /\ client[s] # 0 /\ client'[s] = -1
      /\ \A u \in Slots : u # s => client'[u] = client[u]
  BY <1>0, <1>1, FdsPositive
<1>7. NoneForgotten'
  BY <1>1, <1>2, <1>6 DEF IInv, WatchInv, NoneForgotten, Forgotten
<1>8. TableNamesOpen'
  <2>1. \A u \in Slots : client'[u] > 0 => client'[u] \in open' \ {sockfd'}
    BY <1>1, <1>2, <1>6 DEF IInv, TableNamesOpen
  <2>2. \A u, v \in Slots :
            client'[u] > 0 /\ client'[u] = client'[v] => u = v
    BY <1>6 DEF IInv, TableNamesOpen
  <2>3. \A u \in Slots : u <= maxi' <=> client'[u] # 0
    BY <1>1, <1>6 DEF IInv, TableNamesOpen
  <2> QED
    BY <2>1, <2>2, <2>3 DEF TableNamesOpen
<1>9. Counters'
  BY DEF IInv, Counters, RecvEof
<1>10. ListenerOpen'
  BY <1>0, <1>1, <1>6 DEF IInv, ListenerOpen, TableNamesOpen
<1>11. WatchedInTable'
  BY <1>0, <1>1, <1>6 DEF IInv, WatchedInTable
<1> QED
  BY <1>3, <1>4, <1>5, <1>7, <1>8, <1>9, <1>10, <1>11 DEF IInv, WatchInv

\* The accepted descriptor that is forgotten is new, too.
LEMMA TooManyInv ==
    ASSUME IInv, NEW f \in Fds, TooMany(f) PROVE IInv'
<1>1. TypeOK'
  <2>1. backlog' \in 0 .. MaxConnects
    BY ServerAssumption DEF IInv, WatchInv, TypeOK, RoundCounts, TooMany
  <2>2. inbox' \in [Fds -> 0 .. MaxMsgs]
    BY ServerAssumption DEF IInv, WatchInv, TypeOK, TooMany
  <2>3. peer' \in [Fds -> {"none", "up", "closed", "reset"}]
    BY DEF IInv, WatchInv, TypeOK, TooMany
  <2> QED
    BY <2>1, <2>2, <2>3 DEF IInv, WatchInv, TypeOK, TooMany
<1>2. SelectSetValid' /\ WatchedInTable' /\ RoundCounts'
  BY DEF TooMany, SelectSetValid, WatchedInTable, RoundCounts, InLoop
<1>3. NoneForgotten'
  BY DEF IInv, WatchInv, NoneForgotten, Forgotten, TooMany
<1>4. TableNamesOpen'
  BY DEF IInv, TableNamesOpen, TooMany
<1>5. Counters'
  <2>1. backlog' <= connects'
    BY ServerAssumption DEF IInv, WatchInv, TypeOK, Counters, TooMany
  <2>2. \A g \in Fds : inbox'[g] <= msgs'
    BY ServerAssumption DEF IInv, WatchInv, TypeOK, Counters, TooMany
  <2> QED
    BY <2>1, <2>2 DEF Counters
<1>6. ListenerOpen'
  BY DEF IInv, ListenerOpen, InLoop, TooMany
<1> QED
  BY <1>1, <1>2, <1>3, <1>4, <1>5, <1>6 DEF IInv, WatchInv

\* close(sockfd): no entry names the listening socket.
LEMMA CloseListenerInv ==
    ASSUME IInv, CloseListener PROVE IInv'
<1>1. TypeOK'
  BY ServerAssumption DEF IInv, WatchInv, TypeOK, CloseListener
<1>2. /\ SelectSetValid' /\ WatchedInTable' /\ RoundCounts' /\ ListenerOpen'
  BY DEF CloseListener, SelectSetValid, WatchedInTable, RoundCounts,
         ListenerOpen, InLoop
<1>3. NoneForgotten'
  BY DEF IInv, WatchInv, NoneForgotten, Forgotten, CloseListener
<1>4. TableNamesOpen'
  BY DEF IInv, TableNamesOpen, CloseListener
<1>5. Counters'
  BY ServerAssumption DEF IInv, WatchInv, TypeOK, Counters, CloseListener
<1> QED
  BY <1>1, <1>2, <1>3, <1>4, <1>5 DEF IInv, WatchInv

\* Calls that only move main on, or end it.
LEMMA MoveOnInv ==
    ASSUME IInv,
           \/ ListenFails \/ SelectTimeout \/ SelectError \/ AcceptFails
           \/ EchoDropped
           \/ \E s \in Slots : RecvFails(s)
    PROVE  IInv'
<1> USE DEF ListenFails, SelectTimeout, SelectError, AcceptFails, RecvFails,
            EchoDropped
<1>1. TypeOK'
  <2>1. errors' \in 0 .. MaxErrors
    BY ServerAssumption DEF IInv, WatchInv, TypeOK
  <2>2. nready' \in 0 .. Cardinality(Fds)
    BY Finite DEF IInv, WatchInv, TypeOK
  <2> QED
    BY <2>1, <2>2 DEF IInv, WatchInv, TypeOK
<1>2. /\ SelectSetValid' /\ NoneForgotten' /\ TableNamesOpen'
      /\ ListenerOpen' /\ WatchedInTable'
  <2>1. /\ UNCHANGED <<prog, sockfd, client, allset, maxfd, maxi, open>>
        /\ InLoop' => InLoop
        /\ pc' = "close" => InLoop \/ pc = "close"
    BY DEF InLoop
  <2> QED
    BY <2>1, TableStep
<1>3. Counters'
  BY DEF IInv, Counters
<1>4. RoundCounts'
  BY DEF RoundCounts
<1> QED
  BY <1>1, <1>2, <1>3, <1>4 DEF IInv, WatchInv

\* What a client does leaves main where it was and takes nothing from a
\* descriptor that was reported: data, an end or a reset stay readable.
LEMMA ClientsInv ==
    ASSUME IInv, Clients PROVE IInv'
<1> DEFINE Effect ==
      /\ UNCHANGED server
      /\ backlog <= backlog' /\ backlog' <= connects'
      /\ backlog' \in 0 .. MaxConnects /\ connects' \in 0 .. MaxConnects
      /\ inbox' \in [Fds -> 0 .. MaxMsgs] /\ msgs' \in 0 .. MaxMsgs
      /\ \A g \in Fds : inbox'[g] <= msgs'
      /\ peer' \in [Fds -> {"none", "up", "closed", "reset"}]
      /\ \A g \in Fds : inbox[g] > 0 \/ peer[g] \in {"closed", "reset"} =>
                        inbox'[g] > 0 \/ peer'[g] \in {"closed", "reset"}
      /\ errors' = errors
<1>1. Effect
  <2>0. /\ backlog \in 0 .. MaxConnects /\ connects \in 0 .. MaxConnects
        /\ inbox \in [Fds -> 0 .. MaxMsgs] /\ msgs \in 0 .. MaxMsgs
        /\ peer \in [Fds -> {"none", "up", "closed", "reset"}]
        /\ backlog <= connects /\ \A g \in Fds : inbox[g] <= msgs
    BY DEF IInv, WatchInv, TypeOK, Counters
  <2>1. CASE ClientConnects
    BY <2>0, <2>1, ServerAssumption DEF ClientConnects
  <2>2. ASSUME NEW f \in Fds, ClientSends(f) PROVE Effect
    <3>1. /\ msgs' \in 0 .. MaxMsgs /\ msgs' = msgs + 1
          /\ inbox' = [inbox EXCEPT ![f] = @ + 1]
      BY <2>0, <2>2, ServerAssumption DEF ClientSends
    <3>2. \A g \in Fds : /\ inbox'[g] \in Nat /\ inbox'[g] <= msgs'
                         /\ inbox[g] <= inbox'[g]
      BY <2>0, <3>1, ServerAssumption
    <3>3. inbox' \in [Fds -> 0 .. MaxMsgs]
      BY <2>0, <3>1, <3>2, ServerAssumption
    <3>4. \A g \in Fds : inbox[g] > 0 => inbox'[g] > 0
      BY <2>0, <3>2
    <3> QED
      BY <2>0, <2>2, <3>1, <3>2, <3>3, <3>4, ServerAssumption DEF ClientSends
  <2>3. ASSUME NEW f \in Fds, ClientCloses(f) PROVE Effect
    BY <2>0, <2>3, ServerAssumption DEF ClientCloses
  <2>4. ASSUME NEW f \in Fds, ClientResets(f) PROVE Effect
    BY <2>0, <2>4, ServerAssumption DEF ClientResets
  <2> QED
    BY <2>1, <2>2, <2>3, <2>4 DEF Clients
<1>2. /\ SelectSetValid' /\ NoneForgotten' /\ TableNamesOpen'
      /\ ListenerOpen' /\ WatchedInTable'
  <2>1. /\ UNCHANGED <<prog, sockfd, client, allset, maxfd, maxi, open>>
        /\ pc' = pc
    BY <1>1 DEF server
  <2> QED
    BY <2>1, TableStep DEF InLoop
<1>3. TypeOK'
  BY <1>1 DEF IInv, WatchInv, TypeOK, server
<1>4. Counters'
  BY <1>1 DEF Counters
<1>5. RoundCounts'
  <2>1. ReadySlots' = ReadySlots
    BY <1>1 DEF ReadySlots, server
  <2>2. PendingReady => PendingReady'
    <3> SUFFICES ASSUME PendingReady, NEW s \in ReadySlots
                 PROVE  client[s] \in allset /\ Readable(client[s])'
      BY <1>1, <2>1 DEF PendingReady, server
    <3>1. /\ client[s] \in allset /\ Readable(client[s]) /\ s \in Slots
          /\ client[s] \in Fds
      BY DEF PendingReady, ReadySlots, IInv, WatchInv, TypeOK
    <3>2. client[s] # sockfd
      BY <3>1, FdsPositive DEF IInv, TableNamesOpen
    <3> QED
      BY <1>1, <3>1, <3>2 DEF Readable, server
  <2>3. backlog > 0 => backlog' > 0
    BY <1>1 DEF IInv, WatchInv, TypeOK
  <2> QED
    BY <1>1, <2>1, <2>2, <2>3 DEF IInv, RoundCounts, server
<1> QED
  BY <1>2, <1>3, <1>4, <1>5 DEF IInv, WatchInv

\* Every step of main and of the clients keeps the invariant.
LEMMA NextInv == IInv /\ [Next]_vars => IInv'
<1> SUFFICES ASSUME IInv, [Next]_vars PROVE IInv'
  OBVIOUS
<1>1. CASE UNCHANGED vars
  <2>1. /\ SelectSetValid' /\ NoneForgotten' /\ TableNamesOpen'
        /\ ListenerOpen' /\ WatchedInTable'
    BY <1>1, TableStep DEF vars, server, InLoop
  <2>2. TypeOK' /\ Counters'
    BY <1>1 DEF IInv, WatchInv, TypeOK, Counters, vars, server
  <2>3. RoundCounts'
    <3>1. ReadySlots' = ReadySlots
      BY <1>1 DEF ReadySlots, vars, server
    <3>2. PendingReady' <=> PendingReady
      BY <1>1, <3>1 DEF PendingReady, Readable, vars, server
    <3> QED
      BY <1>1, <3>1, <3>2 DEF IInv, RoundCounts, vars, server
  <2> QED
    BY <2>1, <2>2, <2>3 DEF IInv, WatchInv
<1>2. CASE Main
  BY <1>2, ListenInv, TooManyInv, AcceptInv, SelectInv, CloseListenerInv,
     MoveOnInv, RecvEofInv, RecvDataInv, EchoFailsInv, EchoBlocksInv DEF Main
<1>3. CASE Clients
  BY <1>3, ClientsInv
<1>4. CASE ClientReads
  BY <1>4, ClientReadsInv
<1> QED
  BY <1>1, <1>2, <1>3, <1>4 DEF Next, Exited

\* The inductive invariant holds of every run of the servers.
LEMMA Invariance == Spec => []IInv
  BY InitInv, NextInv, PTL DEF Spec

-----------------------------------------------------------------------------
\* WatchInv: types; every descriptor passed to select is open and at most
\* maxfd; tcp_select.c never stops watching a client in its table.
THEOREM Watched == Spec => []WatchInv
<1>1. IInv => WatchInv
  BY DEF IInv
<1> QED
  BY <1>1, Invariance, PTL

\* TableNamesOpen: entries of client[] name open connections, each one once
\* and never the listening socket, and are in use exactly up to maxi.
THEOREM TableNames == Spec => []TableNamesOpen
<1>1. IInv => TableNamesOpen
  BY DEF IInv
<1> QED
  BY <1>1, Invariance, PTL

\* RoundIsExact: nready is the number of entries left to serve, never 0 while
\* the for loop runs, and none of them would block in recv.
THEOREM RoundExact == Spec => []RoundIsExact
<1>1. IInv => RoundIsExact
  BY DEF IInv, RoundCounts, PendingReady, RoundIsExact
<1> QED
  BY <1>1, Invariance, PTL

\* ForgottenForever: an entry is given up only together with its connection,
\* and one that select no longer covers is never given up at all.
THEOREM ForgottenStays == Spec => ForgottenForever
<1> DEFINE KeepsEntry(s) ==
      /\ client[s] > 0 => client'[s] = client[s] \/ client[s] \notin open'
      /\ Forgotten(s) =>
            client'[s] = client[s] /\ client[s] \notin allset'
<1>1. IInv /\ [Next]_vars => [\A s \in Slots : KeepsEntry(s)]_vars
  <2> SUFFICES ASSUME IInv, Next, NEW s \in Slots PROVE KeepsEntry(s)
    OBVIOUS
  <2>0. client \in [Slots -> Fds \cup {0, -1}]
    BY DEF IInv, WatchInv, TypeOK
  <2>1. CASE UNCHANGED <<client, allset>>
    BY <2>1 DEF Forgotten
  <2>2. ASSUME NEW f \in Fds, Listen(f) PROVE KeepsEntry(s)
    BY <2>2 DEF Listen, NewFd, TableKept, Forgotten, IInv, TableNamesOpen
  <2>3. ASSUME NEW f \in Fds, NEW u \in Slots, Accept(f, u) PROVE KeepsEntry(s)
    <3>1. client[u] <= 0 /\ f \notin open /\ allset' = allset \cup {f}
          /\ client' = [client EXCEPT ![u] = f]
      BY <2>3 DEF Accept, NewFd, FirstFree, FreeSlots, Watch
    <3>2. client[s] > 0 => s # u /\ client[s] # f
      BY <2>0, <3>1, FdsPositive DEF IInv, TableNamesOpen
    <3> QED
      BY <2>0, <3>1, <3>2 DEF Forgotten
  <2>4. ASSUME NEW u \in Slots, RecvEof(u) PROVE KeepsEntry(s)
    <3>1. client[u] \in allset
      BY <2>4 DEF RecvEof, NextReady, IInv, RoundCounts, PendingReady
    <3>2. Forgotten(s) => s # u
      BY <3>1 DEF Forgotten
    <3> QED
      BY <2>0, <2>4, <3>2 DEF RecvEof, ClearTable, SetCleared, Forgotten
  <2>5. CASE Main
    <3>1. \/ UNCHANGED <<client, allset>>
          \/ \E f \in Fds : Listen(f) \/ \E u \in Slots : Accept(f, u)
          \/ \E u \in Slots : RecvEof(u)
      BY <2>5 DEF Main, TooMany, ListenFails, Select, SelectTimeout,
                  SelectError, AcceptFails, CloseListener, RecvFails,
                  RecvData, EchoFails, EchoBlocks, EchoDropped
    <3> QED
      BY <3>1, <2>1, <2>2, <2>3, <2>4
  <2>6. CASE Clients
    BY <2>1, <2>6 DEF Clients, ClientConnects, ClientSends, ClientCloses,
                      ClientResets, server
  <2>7. CASE ClientReads
    BY <2>1, <2>7 DEF ClientReads
  <2> QED
    BY <2>1, <2>5, <2>6, <2>7 DEF Next, Exited, vars, server
<1> QED
  BY <1>1, Invariance, PTL DEF Spec, ForgottenForever
=============================================================================
