-------------------------- MODULE HttpAnalyseProofs --------------------------
(***************************************************************************)
(* The image-analysis server for every set of connections, number of       *)
(* requests, length of their ids and limit on streams: which posts are     *)
(* turned down, that a request starts at most one job, and that as long as *)
(* nothing fails to be sent or removed a job reports its own result, and   *)
(* no result twice.                                                        *)
(***************************************************************************)
EXTENDS HttpAnalyse, FiniteSetTheorems, TLAPS

States == {"ready", "half", "wait", "spent", "closed", "gone"}

Unanswered == {"half", "wait"}

\* main is between the first recv of a message from c and its answer.
Receiving(c) == c = cur /\ pc \in {"more", "parse"}

\* Nothing is received that was not sent, a client that may send a request or
\* is gone has nothing pending, and of one that waits main has received nothing
\* yet.
Pending(c) ==
    /\ got[c] <= put[c]
    /\ st[c] \in {"ready", "gone"} => got[c] = put[c]
    /\ put[c] > 0 => want[c] \in Reqs
    /\ st[c] \in {"half", "wait", "spent"} => put[c] > 0
    /\ st[c] \in Unanswered /\ ~Receiving(c) => got[c] = 0 /\ cuts[c] = {}

TwoCuts(x) == \E p, q \in x : p # q

\* The message in buf.  One that is not answered is there from its beginning,
\* and when main is done receiving it is there to the end, or was cut where
\* main does not receive again.
Buffered ==
    /\ pc \in {"more", "parse"} =>
          /\ cur \in Conns
          /\ st[cur] \notin {"ready", "gone"}
          /\ from < got[cur]
          /\ st[cur] \in Unanswered => from = 0
    /\ pc = "more" /\ st[cur] \in Unanswered =>
          got[cur] \in cuts[cur] /\ got[cur] < BodyPiece
    /\ pc = "parse" /\ st[cur] \in Unanswered =>
          got[cur] = LastPiece \/ BodyPiece \in cuts[cur] \/ TwoCuts(cuts[cur])

Messages == pc # "exit" => Buffered /\ \A c \in Conns : Pending(c)

\* Clients whose last request has not been looked at.  Every other request has
\* started its one job, or none.
Live ==
    {c \in Conns : \/ got[c] = 0 /\ put[c] > 0
                   \/ Receiving(c) /\ from = 0}

JobsCounted ==
    pc # "exit" => IsFiniteSet(Live) /\ job + Cardinality(Live) <= sent

\* main works on a job and has not reported it.
InJob == pc \in {"get", "clean", "alg", "read", "put", "callback"}

\* Job numbers are not used twice, and what the structures and the files hold
\* is no younger than the job.
JobsFresh ==
    /\ InJob => jobFor \in Reqs
    /\ \A cb \in callbacks : cb.result <= cb.job /\ cb.job <= job
    /\ InJob => \A cb \in callbacks : cb.job < job

\* Until something cannot be sent, both structures are zero between jobs and
\* request_content_A belongs to the job.
RequestOwn ==
    ~sendFailed =>
        /\ pc \in {"idle", "more", "parse"} =>
              req = None /\ reqLen = 0 /\ result = None
        /\ InJob => req \in {None, jobFor}
        /\ pc \in {"get", "clean", "alg", "read"} => result = None

\* Until something cannot be removed, the files are the job's.
FilesOwn ==
    ~removeFailed =>
        /\ pc = "alg" => \A p \in Paths : file[p] = None
        /\ pc = "read" => \A p \in Paths : file[p] \in {None, job}

ResultOwn ==
    ~sendFailed /\ ~removeFailed /\ pc \in {"put", "callback"} =>
        result \in {None, job}

\* A result that is kept was not reported: what follows the callback that
\* reports it is that it is zeroed.
KeptUnreported ==
    ~removeFailed /\ result # None /\ pc # "answer" =>
        \A cb \in callbacks : cb.result # result

\* The inductive invariant: of the messages, and of the jobs.
Conversation == Messages /\ JobsCounted /\ WholePostAccepted

History ==
    /\ JobsFresh /\ RequestOwn /\ FilesOwn /\ ResultOwn /\ KeptUnreported
    /\ OwnUntilFailure /\ ReportedOnce

IInv == TypeOK /\ Conversation /\ History

-----------------------------------------------------------------------------
\* Request numbers are neither None nor Mixed.
LEMMA ReqNumbers ==
    /\ Reqs \subseteq Nat /\ None \notin Reqs /\ Mixed \notin Reqs
    /\ Mixed # None /\ None = 0 /\ MaxReqs \in Nat /\ PipeLimit \in Nat
    /\ \A r \in Reqs : IdLen[r] \in Nat
  BY HttpAssumption DEF Reqs, None, Mixed

-----------------------------------------------------------------------------
\* Steps that neither receive nor answer nor start a job keep the messages.
LEMMA ConversationKept ==
    ASSUME IInv, UNCHANGED <<client_vars, job>>,
           pc \notin {"more", "parse"}, pc' \notin {"more", "parse"},
           pc # "exit"
    PROVE  Conversation'
<1>0. UNCHANGED <<st, want, put, got, cuts, sent, refused, job>>
  BY DEF client_vars, message_vars, recv_vars
<1>1. WholePostAccepted'
  BY <1>0 DEF IInv, Conversation, WholePostAccepted
<1>2. \A c \in Conns : ~Receiving(c) /\ ~Receiving(c)'
  BY DEF Receiving
<1>3. Messages'
  BY <1>0, <1>2 DEF IInv, Conversation, Messages, Pending, Buffered
<1>4. Live' = Live
  BY <1>0, <1>2 DEF Live
<1>5. JobsCounted'
  BY <1>0, <1>4 DEF IInv, Conversation, JobsCounted
<1> QED
  BY <1>1, <1>3, <1>5 DEF Conversation

\* A process that is gone leaves nothing to keep.
LEMMA ConversationExit ==
    ASSUME IInv, UNCHANGED refused, pc' = "exit"
    PROVE  Conversation'
  BY DEF IInv, Conversation, Messages, JobsCounted, WholePostAccepted

\* Receiving and answering a message, and all that clients do, leave the
\* structures and the files alone.
LEMMA HistoryKept ==
    ASSUME IInv, UNCHANGED <<job_vars, sendFailed>>,
           \/ pc' = pc
           \/ pc # "answer" /\ pc' = "exit"
           \/ /\ pc \in {"idle", "more", "parse"}
              /\ pc' \in {"idle", "more", "parse"}
    PROVE  History'
<1>1. JobsFresh'
  BY DEF IInv, History, JobsFresh, InJob, job_vars
<1>2. RequestOwn'
  BY DEF IInv, History, RequestOwn, InJob, job_vars
<1>3. FilesOwn' /\ ResultOwn' /\ KeptUnreported'
  BY DEF IInv, History, FilesOwn, ResultOwn, KeptUnreported, job_vars
<1>4. OwnUntilFailure' /\ ReportedOnce'
  BY DEF IInv, History, OwnUntilFailure, CallbacksAreOwn, ReportedOnce,
         job_vars
<1> QED
  BY <1>1, <1>2, <1>3, <1>4 DEF History

-----------------------------------------------------------------------------
\* The server starts with no message and no job.
LEMMA InitInv == Init => IInv
<1> SUFFICES ASSUME Init PROVE IInv
  OBVIOUS
<1>a. /\ reqLen \in Nat /\ job \in 0 .. MaxReqs /\ result \in 0 .. job
      /\ pipes \in 0 .. PipeLimit /\ sent \in 0 .. MaxReqs /\ from \in 0 .. 3
  BY ReqNumbers DEF Init
<1>b. file \in [Paths -> 0 .. job]
  BY ReqNumbers DEF Init
<1>c. /\ put \in [Conns -> 0 .. 4] /\ got \in [Conns -> 0 .. 4]
      /\ cuts \in [Conns -> SUBSET (1 .. 3)] /\ kind \in [Conns -> Kinds]
  BY DEF Init, Kinds, Posts
<1>1. TypeOK
  BY <1>a, <1>b, <1>c DEF Init, TypeOK
<1>2. Messages /\ WholePostAccepted
  BY DEF Init, Messages, Pending, Buffered, WholePostAccepted, Unanswered
<1>3. JobsCounted
  <2>1. Live = {}
    BY DEF Init, Live, Receiving
  <2> QED
    BY <2>1, FS_EmptySet DEF Init, JobsCounted
<1>4. History
  BY DEF Init, History, JobsFresh, RequestOwn, FilesOwn, ResultOwn,
         KeptUnreported, OwnUntilFailure, CallbacksAreOwn, ReportedOnce, InJob
<1> QED
  BY <1>1, <1>2, <1>3, <1>4 DEF IInv, Conversation

\* What a recv leaves of the message.
LEMMA TakeFacts ==
    ASSUME IInv, NEW c \in Conns, NEW p \in Pieces, Take(c, p)
    PROVE  /\ got[c] < p /\ p <= put[c] /\ got[c] \in 0 .. 3
           /\ got' \in [Conns -> 0 .. 4] /\ got'[c] = p
           /\ cuts' \in [Conns -> SUBSET (1 .. 3)]
           /\ cuts[c] \subseteq cuts'[c] /\ (p # LastPiece => p \in cuts'[c])
           /\ \A d \in Conns : d # c => got'[d] = got[d] /\ cuts'[d] = cuts[d]
<1>1. /\ got \in [Conns -> 0 .. 4] /\ put \in [Conns -> 0 .. 4]
      /\ cuts \in [Conns -> SUBSET (1 .. 3)]
  BY DEF IInv, TypeOK
<1>2. /\ p \in (got[c] + 1) .. put[c]
      /\ got' = [got EXCEPT ![c] = p]
      /\ cuts' = [cuts EXCEPT ![c] = cuts[c] \cup ({p} \ {LastPiece})]
  BY DEF Take
<1>3. got[c] \in 0 .. 4 /\ put[c] \in 0 .. 4 /\ p \in 1 .. 4
  BY <1>1 DEF Pieces
<1>4. got[c] < p /\ p <= put[c] /\ got[c] \in 0 .. 3
  BY <1>2, <1>3
<1>5. got' \in [Conns -> 0 .. 4] /\ got'[c] = p
  BY <1>1, <1>2, <1>3
<1>6. cuts'[c] = cuts[c] \cup ({p} \ {LastPiece})
  BY <1>1, <1>2
<1>7. cuts[c] \cup ({p} \ {LastPiece}) \in SUBSET (1 .. 3)
  BY <1>1, <1>3 DEF LastPiece
<1>8. cuts' \in [Conns -> SUBSET (1 .. 3)]
  BY <1>1, <1>2, <1>7
<1>9. \A d \in Conns : d # c => got'[d] = got[d] /\ cuts'[d] = cuts[d]
  BY <1>1, <1>2
<1> QED
  BY <1>4, <1>5, <1>6, <1>8, <1>9

\* The first recv: of a message that nobody has answered, from its beginning.
LEMMA RecvFirstInv ==
    ASSUME IInv, NEW c \in Conns, NEW p \in Pieces, RecvFirst(c, p)
    PROVE  IInv'
<1>0. /\ pc = "idle" /\ cur' = c /\ from' = got[c] /\ Take(c, p)
      /\ pc' = IF NeedsMore(got[c] + 1, p) THEN "more" ELSE "parse"
      /\ UNCHANGED <<job_vars, st, message_vars, refused, sendFailed>>
  BY DEF RecvFirst
<1>1. /\ got[c] < p /\ p <= put[c] /\ got[c] \in 0 .. 3
      /\ got' \in [Conns -> 0 .. 4] /\ got'[c] = p
      /\ cuts' \in [Conns -> SUBSET (1 .. 3)]
      /\ cuts[c] \subseteq cuts'[c] /\ (p # LastPiece => p \in cuts'[c])
      /\ \A d \in Conns : d # c => got'[d] = got[d] /\ cuts'[d] = cuts[d]
  BY <1>0, TakeFacts
<1>2. UNCHANGED <<want, kind, put, sent, st, refused, job>>
  BY <1>0 DEF message_vars, job_vars
<1>3. pc' \in {"more", "parse"}
  BY <1>0
<1>4. TypeOK'
  BY <1>0, <1>1, <1>2, <1>3 DEF IInv, TypeOK, job_vars
<1>5. \A d \in Conns : ~Receiving(d) /\ Pending(d) /\ (Receiving(d)' <=> d = c)
  BY <1>0, <1>3 DEF IInv, Conversation, Messages, Receiving
<1>6. st[c] # "ready"
  BY <1>1, <1>5 DEF Pending
<1>7. p \in 1 .. 4
  BY DEF Pieces
<1>8. Messages'
  <2>1. ASSUME NEW d \in Conns PROVE Pending(d)'
    <3>1. CASE d = c
      BY <3>1, <1>1, <1>2, <1>5, <1>6, <1>7 DEF Pending
    <3>2. CASE d # c
      BY <3>2, <1>1, <1>2, <1>5 DEF Pending
    <3> QED
      BY <3>1, <3>2
  <2>2. st[c] \in Unanswered => got[c] = 0
    BY <1>5 DEF Pending
  <2>3. st[c] # "gone"
    BY <1>1, <1>5, <1>7 DEF IInv, TypeOK, Pending
  <2>4. pc' = "more" /\ st[c] \in Unanswered => p < BodyPiece /\ p \in cuts'[c]
    <3>1. pc' = "more" /\ got[c] = 0 => p < BodyPiece
      BY <1>0, <1>7 DEF NeedsMore, BodyPiece
    <3> QED
      BY <3>1, <2>2, <1>1, <1>7 DEF BodyPiece, LastPiece
  <2>5. pc' = "parse" /\ st[c] \in Unanswered =>
            p = LastPiece \/ BodyPiece \in cuts'[c]
    <3>1. pc' = "parse" => BodyPiece <= p
      BY <1>0 DEF NeedsMore
    <3>2. pc' = "parse" => p = BodyPiece \/ p = LastPiece
      BY <3>1, <1>7 DEF BodyPiece, LastPiece
    <3> QED
      BY <3>2, <1>1 DEF BodyPiece, LastPiece
  <2>6. Buffered'
    BY <2>2, <2>3, <2>4, <2>5, <1>0, <1>1, <1>2, <1>6 DEF Buffered
  <2> QED
    BY <2>1, <2>6 DEF Messages
<1>9. JobsCounted'
  <2>1. Live' = Live
    <3>1. c \in Live' <=> c \in Live
      <4>1. c \in Live <=> got[c] = 0 /\ put[c] > 0
        BY <1>5 DEF Live
      <4>2. c \in Live' <=> (p = 0 /\ put[c] > 0) \/ got[c] = 0
        BY <1>0, <1>1, <1>2, <1>5 DEF Live
      <4>3. put[c] > 0 /\ p # 0
        BY <1>1, <1>7 DEF IInv, TypeOK
      <4> QED
        BY <4>1, <4>2, <4>3
    <3>2. \A d \in Conns : d # c => (d \in Live' <=> d \in Live)
      BY <1>1, <1>2, <1>5 DEF Live
    <3> QED
      BY <3>1, <3>2 DEF Live
  <2> QED
    BY <2>1, <1>0, <1>2 DEF IInv, Conversation, JobsCounted
<1>10. WholePostAccepted'
  BY <1>2 DEF IInv, Conversation, WholePostAccepted
<1>11. History'
  BY <1>0, <1>3, HistoryKept
<1> QED
  BY <1>4, <1>8, <1>9, <1>10, <1>11 DEF IInv, Conversation

\* The second recv: it reaches the end, or the message is cut twice.
LEMMA RecvMoreInv ==
    ASSUME IInv, NEW p \in Pieces, RecvMore(p)
    PROVE  IInv'
<1>0. /\ pc = "more" /\ pc' = "parse" /\ cur \in Conns /\ Take(cur, p)
      /\ UNCHANGED <<cur, from, job_vars, st, message_vars, refused, sendFailed>>
  BY DEF RecvMore, IInv, Conversation, Messages, Buffered
<1>1. /\ got[cur] < p /\ p <= put[cur] /\ got[cur] \in 0 .. 3
      /\ got' \in [Conns -> 0 .. 4] /\ got'[cur] = p
      /\ cuts' \in [Conns -> SUBSET (1 .. 3)]
      /\ cuts[cur] \subseteq cuts'[cur] /\ (p # LastPiece => p \in cuts'[cur])
      /\ \A d \in Conns : d # cur => got'[d] = got[d] /\ cuts'[d] = cuts[d]
  BY <1>0, TakeFacts
<1>2. UNCHANGED <<want, kind, put, sent, st, refused, job>>
  BY <1>0 DEF message_vars, job_vars
<1>3. TypeOK'
  BY <1>0, <1>1, <1>2 DEF IInv, TypeOK, job_vars
<1>4. \A d \in Conns : Pending(d) /\ (Receiving(d) <=> d = cur)
                       /\ (Receiving(d)' <=> d = cur)
  BY <1>0 DEF IInv, Conversation, Messages, Receiving
<1>5. p \in 1 .. 4
  BY DEF Pieces
<1>6. Buffered
  BY <1>0 DEF IInv, Conversation, Messages
<1>7. st[cur] \notin {"ready", "gone"} /\ from < got[cur] /\ from \in 0 .. 3
  BY <1>0, <1>6 DEF Buffered, IInv, TypeOK
<1>8. Messages'
  <2>1. ASSUME NEW d \in Conns PROVE Pending(d)'
    <3>1. CASE d = cur
      BY <3>1, <1>0, <1>1, <1>2, <1>4, <1>5, <1>7 DEF Pending
    <3>2. CASE d # cur
      BY <3>2, <1>1, <1>2, <1>4 DEF Pending
    <3> QED
      BY <3>1, <3>2
  <2>2. st[cur] \in Unanswered => p = LastPiece \/ TwoCuts(cuts'[cur])
    <3>1. st[cur] \in Unanswered => got[cur] \in cuts'[cur] /\ got[cur] # p
      BY <1>0, <1>1, <1>5, <1>6 DEF Buffered
    <3> QED
      BY <3>1, <1>1 DEF TwoCuts
  <2>3. from < p /\ (st[cur] \in Unanswered => from = 0)
    BY <1>0, <1>1, <1>5, <1>6, <1>7 DEF Buffered
  <2>4. Buffered'
    BY <2>2, <2>3, <1>0, <1>1, <1>2, <1>7 DEF Buffered
  <2> QED
    BY <2>1, <2>4 DEF Messages
<1>9. JobsCounted'
  <2>1. Live' = Live
    <3>1. cur \in Live' <=> cur \in Live
      BY <1>0, <1>1, <1>2, <1>4, <1>5, <1>7 DEF Live
    <3>2. \A d \in Conns : d # cur => (d \in Live' <=> d \in Live)
      BY <1>1, <1>2, <1>4 DEF Live
    <3> QED
      BY <3>1, <3>2 DEF Live
  <2> QED
    BY <2>1, <1>0, <1>2 DEF IInv, Conversation, JobsCounted
<1>10. WholePostAccepted'
  BY <1>2 DEF IInv, Conversation, WholePostAccepted
<1>11. History'
  BY <1>0, HistoryKept
<1> QED
  BY <1>3, <1>8, <1>9, <1>10, <1>11 DEF IInv, Conversation

\* The second recv meets the end: the client is gone.
LEMMA RecvMoreEofInv ==
    ASSUME IInv, RecvMoreEof PROVE IInv'
<1>0. /\ pc = "more" /\ pc' = "parse" /\ cur \in Conns /\ st[cur] = "closed"
      /\ UNCHANGED <<cur, job_vars, client_vars, sendFailed>>
  BY DEF RecvMoreEof, AtEof, IInv, Conversation, Messages, Buffered
<1>1. UNCHANGED <<st, want, kind, put, got, cuts, from, sent, refused>>
  BY <1>0 DEF client_vars, message_vars, recv_vars
<1>2. TypeOK'
  BY <1>0, <1>1 DEF IInv, TypeOK, job_vars
<1>3. WholePostAccepted'
  BY <1>1 DEF IInv, Conversation, WholePostAccepted
<1>4. \A c \in Conns : Receiving(c)' <=> Receiving(c)
  BY <1>0 DEF Receiving
<1>5. Messages'
  <2>1. Buffered'
    BY <1>0, <1>1 DEF IInv, Conversation, Messages, Buffered, Unanswered
  <2>2. \A c \in Conns : Pending(c)'
    BY <1>0, <1>1, <1>4 DEF IInv, Conversation, Messages, Pending
  <2> QED
    BY <2>1, <2>2 DEF Messages
<1>6. JobsCounted'
  <2>1. Live' = Live
    BY <1>1, <1>4 DEF Live
  <2> QED
    BY <2>1, <1>0, <1>1 DEF IInv, Conversation, JobsCounted, job_vars
<1>7. History'
  BY <1>0, HistoryKept
<1> QED
  BY <1>2, <1>3, <1>5, <1>6, <1>7 DEF IInv, Conversation

\* recv returns 0 on a connection with nothing left.
LEMMA RecvEofInv ==
    ASSUME IInv, NEW c \in Conns, RecvEof(c) PROVE IInv'
<1>0. /\ pc = "idle" /\ pc' = pc /\ got[c] = put[c] /\ st[c] = "closed"
      /\ st' = [st EXCEPT ![c] = "gone"]
      /\ UNCHANGED <<cur, job_vars, message_vars, recv_vars, refused, sendFailed>>
      /\ st \in [Conns -> States]
  BY DEF RecvEof, AtEof, IInv, TypeOK, States
<1>1. UNCHANGED <<want, kind, put, got, cuts, from, sent, refused>>
  BY <1>0 DEF message_vars, recv_vars
<1>2. TypeOK'
  BY <1>0, <1>1 DEF IInv, TypeOK, job_vars, States
<1>3. WholePostAccepted'
  BY <1>1 DEF IInv, Conversation, WholePostAccepted
<1>4. \A d \in Conns : ~Receiving(d) /\ ~Receiving(d)'
  BY <1>0 DEF Receiving
<1>5. Messages'
  <2>1. Buffered'
    BY <1>0 DEF Buffered
  <2>2. \A d \in Conns : Pending(d)'
    BY <1>0, <1>1, <1>4 DEF IInv, Conversation, Messages, Pending, Unanswered
  <2> QED
    BY <2>1, <2>2 DEF Messages
<1>6. JobsCounted'
  <2>1. Live' = Live
    BY <1>1, <1>4 DEF Live
  <2> QED
    BY <2>1, <1>0, <1>1 DEF IInv, Conversation, JobsCounted, job_vars
<1>7. History'
  BY <1>0, HistoryKept
<1> QED
  BY <1>2, <1>3, <1>5, <1>6, <1>7 DEF IInv, Conversation

-----------------------------------------------------------------------------
\* recv fails, or the message cannot be parsed: main is over.
LEMMA EndsInv ==
    ASSUME IInv, RecvFails \/ ParseCrash PROVE IInv'
<1>0. /\ pc' = "exit" /\ pc # "answer"
      /\ UNCHANGED <<cur, job_vars, client_vars, sendFailed>>
  BY DEF RecvFails, ParseCrash
<1>1. TypeOK'
  BY <1>0 DEF IInv, TypeOK, job_vars, client_vars, message_vars, recv_vars
<1>2. Conversation'
  BY <1>0, ConversationExit DEF client_vars
<1>3. History'
  BY <1>0, HistoryKept
<1> QED
  BY <1>1, <1>2, <1>3 DEF IInv

\* The message is handled: its client has one request less to be looked at, if
\* that was one.
LEMMA MessageHandled ==
    ASSUME IInv, pc = "parse", pc' \notin {"more", "parse"}, Forget(cur),
           Answered \/ (UNCHANGED st /\ st[cur] = "closed"),
           WholePostAccepted',
           job' = job \/ (job' = job + 1 /\ from = 0)
    PROVE  /\ Conversation'
           /\ cur' \in Conns \cup {Nobody} /\ from' \in 0 .. 3
           /\ st' \in [Conns -> States] /\ kind' \in [Conns -> Kinds]
           /\ cuts' \in [Conns -> SUBSET (1 .. 3)]
           /\ job' \in 0 .. MaxReqs
<1>0. /\ cur \in Conns /\ st[cur] \notin {"ready", "gone"} /\ from < got[cur]
      /\ \A d \in Conns : Pending(d)
      /\ IsFiniteSet(Live) /\ job + Cardinality(Live) <= sent
  BY DEF IInv, Conversation, Messages, Buffered, JobsCounted
<1>1. /\ st \in [Conns -> States] /\ kind \in [Conns -> Kinds]
      /\ cuts \in [Conns -> SUBSET (1 .. 3)] /\ from \in 0 .. 3
      /\ put \in [Conns -> 0 .. 4] /\ got \in [Conns -> 0 .. 4]
      /\ job \in Nat /\ sent \in 0 .. MaxReqs
  BY DEF IInv, TypeOK, States
<1>2. /\ cur' = Nobody /\ from' = 0 /\ UNCHANGED <<want, put, got, sent>>
      /\ kind' = [kind EXCEPT ![cur] = "full"]
      /\ cuts' = [cuts EXCEPT ![cur] = {}]
  BY DEF Forget
<1>3. kind' \in [Conns -> Kinds] /\ cuts' \in [Conns -> SUBSET (1 .. 3)]
      /\ \A d \in Conns : d # cur => cuts'[d] = cuts[d]
  BY <1>1, <1>2 DEF Kinds, Posts
<1>4. /\ \A d \in Conns : d # cur => st'[d] = st[d]
      /\ st' \in [Conns -> States]
      /\ st'[cur] \in {"ready", "spent", "closed"}
      /\ st'[cur] = "ready" => got[cur] = LastPiece
  BY <1>0, <1>1 DEF Answered, States
<1>5. \A d \in Conns : ~Receiving(d)' /\ (Receiving(d) <=> d = cur)
  BY DEF Receiving
<1>6. Messages'
  <2>1. ASSUME NEW d \in Conns PROVE Pending(d)'
    <3>1. CASE d = cur
      <4>1. got[cur] = LastPiece => got[cur] = put[cur]
        BY <1>0, <1>1 DEF Pending, LastPiece
      <4>2. /\ got[cur] <= put[cur] /\ (put[cur] > 0 => want[cur] \in Reqs)
            /\ put[cur] > 0
        BY <1>0, <1>1 DEF Pending
      <4> QED
        BY <3>1, <4>1, <4>2, <1>2, <1>4 DEF Pending, Unanswered
    <3>2. CASE d # cur
      BY <3>2, <1>0, <1>2, <1>3, <1>4, <1>5 DEF Pending
    <3> QED
      BY <3>1, <3>2
  <2>2. Buffered'
    BY DEF Buffered
  <2> QED
    BY <2>1, <2>2 DEF Messages
<1>7. Live' = Live \ {cur} /\ (from = 0 => cur \in Live)
  <2>1. cur \notin Live' /\ (from = 0 => cur \in Live)
    BY <1>0, <1>1, <1>2, <1>5 DEF Live
  <2>2. \A d \in Conns : d # cur => (d \in Live' <=> d \in Live)
    BY <1>2, <1>5 DEF Live
  <2> QED
    BY <2>1, <2>2 DEF Live
<1>8. /\ IsFiniteSet(Live') /\ Cardinality(Live') \in Nat
      /\ Cardinality(Live) \in Nat /\ Cardinality(Live') <= Cardinality(Live)
      /\ from = 0 => Cardinality(Live') = Cardinality(Live) - 1
  <2>1. /\ IsFiniteSet(Live \ {cur})
        /\ Cardinality(Live \ {cur}) =
              IF cur \in Live THEN Cardinality(Live) - 1 ELSE Cardinality(Live)
        /\ Cardinality(Live) \in Nat /\ Cardinality(Live \ {cur}) \in Nat
    BY <1>0, FS_RemoveElement, FS_CardinalityType
  <2> QED
    BY <2>1, <1>7
<1>9. job' + Cardinality(Live') <= sent /\ job' \in Nat
  BY <1>0, <1>1, <1>8
<1>10. job' \in 0 .. MaxReqs
  BY <1>1, <1>8, <1>9, ReqNumbers
<1>11. JobsCounted'
  BY <1>2, <1>8, <1>9 DEF JobsCounted
<1> QED
  BY <1>2, <1>3, <1>4, <1>6, <1>10, <1>11 DEF Conversation

\* 400: the message was already answered, or it was cut inside its body or
\* twice.
LEMMA RejectInv ==
    ASSUME IInv, Reject PROVE IInv'
<1>1. /\ pc = "parse" /\ pc' \in {"idle", "exit"} /\ Answered /\ Forget(cur)
      /\ UNCHANGED <<job_vars, sendFailed>> /\ check_if_post = "other"
      /\ refused' = refused \cup
            (IF st[cur] \in Unanswered THEN {cuts[cur]} ELSE {})
  BY DEF Reject, Unanswered
<1>2. /\ Buffered /\ cur \in Conns /\ refused \subseteq SUBSET (1 .. 3)
      /\ cuts \in [Conns -> SUBSET (1 .. 3)]
  BY <1>1 DEF IInv, TypeOK, Conversation, Messages, Buffered
<1>3. st[cur] \in Unanswered =>
          BodyPiece \in cuts[cur] \/ TwoCuts(cuts[cur])
  BY <1>1, <1>2 DEF Buffered, check_if_post
<1>4. WholePostAccepted'
  <2>1. \A x \in refused : BodyPiece \in x \/ TwoCuts(x)
    BY DEF IInv, Conversation, WholePostAccepted, TwoCuts
  <2>2. \A x \in refused' :
           x \in refused \/ (x = cuts[cur] /\ st[cur] \in Unanswered)
    BY <1>1
  <2>3. \A x \in refused' : BodyPiece \in x \/ TwoCuts(x)
    BY <1>3, <2>1, <2>2
  <2> QED
    BY <2>3 DEF WholePostAccepted, TwoCuts
<1>5. refused' \subseteq SUBSET (1 .. 3)
  <2>1. cuts[cur] \in SUBSET (1 .. 3)
    BY <1>2
  <2> QED
    BY <1>1, <1>2, <2>1
<1>6. job' = job
  BY <1>1 DEF job_vars
<1>7. /\ Conversation'
      /\ cur' \in Conns \cup {Nobody} /\ from' \in 0 .. 3
      /\ st' \in [Conns -> States] /\ kind' \in [Conns -> Kinds]
      /\ cuts' \in [Conns -> SUBSET (1 .. 3)]
  <2>1. pc' \notin {"more", "parse"}
    BY <1>1
  <2> QED
    BY <2>1, <1>1, <1>4, <1>6, MessageHandled, Zenon
<1>8. TypeOK'
  BY <1>1, <1>5, <1>7 DEF IInv, TypeOK, job_vars, Forget, States
<1>9. History'
  BY <1>1, HistoryKept
<1> QED
  BY <1>7, <1>8, <1>9 DEF IInv

\* What parse_post_A_content leaves in request_content_A.
LEMMA ParsedRequest ==
    ASSUME IInv, pc = "parse", parse_post_A_content(want[cur])
    PROVE  /\ want[cur] \in Reqs
           /\ req' \in Reqs \cup {None, Mixed} /\ reqLen' \in Nat
           /\ req = None /\ reqLen = 0 => req' \in {None, want[cur]}
<1> DEFINE r == want[cur]
<1>1. cur \in Conns /\ from < got[cur] /\ Pending(cur)
  BY DEF IInv, Conversation, Messages, Buffered
<1>2. r \in Reqs
  BY <1>1 DEF IInv, TypeOK, Pending
<1> HIDE DEF r
<1>3. IdLen[r] \in Nat /\ req \in Reqs \cup {None, Mixed} /\ reqLen \in Nat
  BY <1>2, ReqNumbers DEF IInv, TypeOK
<1>4. reqLen = 0 => IdLen[r] >= reqLen
  BY <1>3
<1>5. /\ req' \in Reqs \cup {None, Mixed} /\ reqLen' \in Nat
      /\ req = None /\ IdLen[r] >= reqLen => req' \in {None, r}
  BY <1>2, <1>3 DEF parse_post_A_content, Overlay, r
<1> QED
  BY <1>2, <1>4, <1>5 DEF r

\* The job begins with a number of its own.
LEMMA StartJobInv ==
    ASSUME IInv, StartJob PROVE IInv'
<1>1. /\ pc = "parse" /\ pc' = "get" /\ Answered /\ Forget(cur)
      /\ job' = job + 1 /\ jobFor' = want[cur] /\ from = 0
      /\ UNCHANGED <<result, file, pipes, callbacks, removeFailed, refused,
                     sendFailed>>
  BY DEF StartJob, check_if_post
<1>2. /\ jobFor' \in Reqs
      /\ req' \in Reqs \cup {None, Mixed} /\ reqLen' \in Nat
      /\ req = None /\ reqLen = 0 => req' \in {None, jobFor'}
  BY <1>1, ParsedRequest DEF StartJob
<1>a. WholePostAccepted'
  BY <1>1 DEF IInv, Conversation, WholePostAccepted
<1>3. /\ Conversation'
      /\ cur' \in Conns \cup {Nobody} /\ from' \in 0 .. 3
      /\ st' \in [Conns -> States] /\ kind' \in [Conns -> Kinds]
      /\ cuts' \in [Conns -> SUBSET (1 .. 3)]
      /\ job' \in 0 .. MaxReqs
  BY <1>1, <1>a, MessageHandled
<1>4. /\ job \in Nat /\ result \in 0 .. job /\ file \in [Paths -> 0 .. job]
      /\ callbacks \subseteq Callback
  BY DEF IInv, TypeOK
<1>5. TypeOK'
  <2>1. result' \in 0 .. job' /\ file' \in [Paths -> 0 .. job']
    <3>1. 0 .. job \subseteq 0 .. job'
      BY <1>1, <1>4
    <3> QED
      BY <3>1, <1>1, <1>4
  <2> QED
    BY <2>1, <1>1, <1>2, <1>3 DEF IInv, TypeOK, Forget, States
<1>6. JobsFresh'
  <2>1. \A cb \in callbacks : /\ cb.result <= cb.job /\ cb.job <= job
                              /\ cb.job \in Nat
    BY <1>4 DEF IInv, History, JobsFresh, Callback
  <2>2. \A cb \in callbacks : cb.job < job'
    BY <2>1, <1>1, <1>4
  <2>3. \A cb \in callbacks : cb.job <= job'
    BY <2>1, <1>1, <1>4
  <2> QED
    BY <2>1, <2>2, <2>3, <1>1, <1>2 DEF JobsFresh
<1>7. RequestOwn'
  <2>1. ~sendFailed => req = None /\ reqLen = 0 /\ result = None
    BY <1>1 DEF IInv, History, RequestOwn
  <2> QED
    BY <2>1, <1>1, <1>2 DEF RequestOwn
<1>8. FilesOwn' /\ ResultOwn' /\ KeptUnreported'
  BY <1>1 DEF IInv, History, FilesOwn, ResultOwn, KeptUnreported
<1>9. OwnUntilFailure' /\ ReportedOnce'
  BY <1>1 DEF IInv, History, OwnUntilFailure, CallbacksAreOwn, ReportedOnce
<1> QED
  BY <1>3, <1>5, <1>6, <1>7, <1>8, <1>9 DEF IInv, History

\* The 200 that cannot be sent.
LEMMA StartFailsInv ==
    ASSUME IInv, StartFails PROVE IInv'
<1>1. /\ pc = "parse" /\ pc' \in {"idle", "exit"} /\ Forget(cur)
      /\ sendFailed' = TRUE /\ st[cur] = "closed"
      /\ UNCHANGED <<result, file, pipes, job, jobFor, callbacks,
                     removeFailed, st, refused>>
  BY DEF StartFails, Gone
<1>2. req' \in Reqs \cup {None, Mixed} /\ reqLen' \in Nat
  BY <1>1, ParsedRequest DEF StartFails
<1>a. WholePostAccepted'
  BY <1>1 DEF IInv, Conversation, WholePostAccepted
<1>3. /\ Conversation'
      /\ cur' \in Conns \cup {Nobody} /\ from' \in 0 .. 3
      /\ kind' \in [Conns -> Kinds]
      /\ cuts' \in [Conns -> SUBSET (1 .. 3)]
  BY <1>1, <1>a, MessageHandled
<1>4. TypeOK'
  <2>1. {sendFailed', removeFailed'} \subseteq BOOLEAN
    BY <1>1 DEF IInv, TypeOK
  <2> QED
    BY <1>1, <1>2, <1>3, <2>1 DEF IInv, TypeOK, Forget
<1>5. JobsFresh'
  BY <1>1 DEF IInv, History, JobsFresh, InJob
<1>6. RequestOwn' /\ ResultOwn' /\ OwnUntilFailure'
  BY <1>1 DEF RequestOwn, ResultOwn, OwnUntilFailure
<1>7. FilesOwn' /\ KeptUnreported' /\ ReportedOnce'
  BY <1>1 DEF IInv, History, FilesOwn, KeptUnreported, ReportedOnce
<1> QED
  BY <1>3, <1>4, <1>5, <1>6, <1>7 DEF IInv, History

-----------------------------------------------------------------------------
\* popen_exe, whether it goes on, repeats or crashes: streams are counted.
LEMMA PopenInv ==
    ASSUME IInv, GetImage \/ PutImage \/ PopenRedo \/ PopenCrash PROVE IInv'
<1>0. /\ pc \in {"get", "put"}
      /\ \/ pc' \in {pc, "exit"}
         \/ pc = "get" /\ pc' = "clean"
         \/ pc = "put" /\ pc' = "callback"
      /\ UNCHANGED <<job_rest, result, file, removeFailed>>
  BY DEF GetImage, PutImage, PopenRedo, PopenCrash, PopenDone, job_rest,
         job_vars
<1>1. pipes' \in 0 .. PipeLimit
  <2>1. pipes \in 0 .. PipeLimit
    BY DEF IInv, TypeOK
  <2>2. pipes' = pipes \/ (pipes < PipeLimit /\ pipes' = pipes + 1)
    BY DEF StreamsLeft, GetImage, PutImage, PopenRedo, PopenCrash, PopenDone,
           job_vars
  <2> QED
    BY <2>1, <2>2, ReqNumbers
<1>2. TypeOK'
  BY <1>0, <1>1 DEF IInv, TypeOK, job_rest, client_vars, message_vars,
                    recv_vars
<1>3. Conversation'
  BY <1>0, ConversationKept DEF job_rest
<1>4. History'
  <2>1. JobsFresh'
    BY <1>0 DEF IInv, History, JobsFresh, InJob, job_rest
  <2>2. RequestOwn'
    BY <1>0 DEF IInv, History, RequestOwn, InJob, job_rest
  <2>3. FilesOwn' /\ ResultOwn' /\ KeptUnreported'
    BY <1>0 DEF IInv, History, FilesOwn, ResultOwn, KeptUnreported, job_rest
  <2>4. OwnUntilFailure' /\ ReportedOnce'
    BY <1>0 DEF IInv, History, OwnUntilFailure, CallbacksAreOwn, ReportedOnce,
                job_rest
  <2> QED
    BY <2>1, <2>2, <2>3, <2>4 DEF History
<1> QED
  BY <1>2, <1>3, <1>4 DEF IInv

\* The old files go, or it is recorded that they did not.
LEMMA DeleteInv ==
    ASSUME IInv, NEW kept \in SUBSET Paths, DeleteLastResult(kept) PROVE IInv'
<1>0. /\ pc = "clean" /\ pc' = "alg"
      /\ UNCHANGED <<job_rest, result, pipes>>
      /\ file' = [p \in Paths |-> IF p \in kept THEN file[p] ELSE None]
      /\ removeFailed' = (removeFailed \/ \E p \in kept : file[p] # None)
  BY DEF DeleteLastResult, RemoveOld
<1>1. removeFailed \in BOOLEAN /\ removeFailed' \in BOOLEAN
  BY <1>0 DEF IInv, TypeOK
<1>2. ~removeFailed' => ~removeFailed /\ \A p \in Paths : file'[p] = None
  BY <1>0
<1>3. TypeOK'
  <2>1. file' \in [Paths -> 0 .. job]
    BY <1>0 DEF IInv, TypeOK, None
  <2> QED
    BY <1>0, <1>1, <2>1 DEF IInv, TypeOK, job_rest, client_vars,
                            message_vars, recv_vars
<1>4. Conversation'
  BY <1>0, ConversationKept DEF job_rest
<1>5. JobsFresh'
  BY <1>0 DEF IInv, History, JobsFresh, InJob, job_rest
<1>6. RequestOwn' /\ ResultOwn'
  BY <1>0 DEF IInv, History, RequestOwn, ResultOwn, InJob, job_rest
<1>7. FilesOwn'
  BY <1>0, <1>2 DEF FilesOwn
<1>8. KeptUnreported' /\ OwnUntilFailure' /\ ReportedOnce'
  BY <1>0, <1>2 DEF IInv, History, KeptUnreported, OwnUntilFailure,
                    CallbacksAreOwn, ReportedOnce, job_rest
<1> QED
  BY <1>3, <1>4, <1>5, <1>6, <1>7, <1>8 DEF IInv, History

\* The algorithm leaves its own result or none.
LEMMA RunAlgInv ==
    ASSUME IInv, RunAlg PROVE IInv'
<1>0. /\ pc = "alg" /\ pc' = "read"
      /\ UNCHANGED <<job_rest, result, pipes, removeFailed>>
      /\ UNCHANGED file \/ \E p \in Paths : file' = [file EXCEPT ![p] = job]
  BY DEF RunAlg
<1>1. job \in 0 .. MaxReqs /\ file \in [Paths -> 0 .. job]
  BY DEF IInv, TypeOK
<1>2. file' \in [Paths -> 0 .. job]
      /\ \A p \in Paths : file'[p] \in {file[p], job}
  BY <1>0, <1>1, ReqNumbers
<1>3. TypeOK'
  BY <1>0, <1>2 DEF IInv, TypeOK, job_rest, client_vars, message_vars,
                    recv_vars
<1>4. Conversation'
  BY <1>0, ConversationKept DEF job_rest
<1>5. JobsFresh'
  BY <1>0 DEF IInv, History, JobsFresh, InJob, job_rest
<1>6. RequestOwn' /\ ResultOwn'
  BY <1>0 DEF IInv, History, RequestOwn, ResultOwn, InJob, job_rest
<1>7. FilesOwn'
  BY <1>0, <1>2 DEF IInv, History, FilesOwn, job_rest
<1>8. KeptUnreported' /\ OwnUntilFailure' /\ ReportedOnce'
  BY <1>0 DEF IInv, History, KeptUnreported, OwnUntilFailure,
              CallbacksAreOwn, ReportedOnce, job_rest
<1> QED
  BY <1>3, <1>4, <1>5, <1>6, <1>7, <1>8 DEF IInv, History

\* The result read is the job's, which nobody has reported yet, or the one
\* kept.
LEMMA ReadResultInv ==
    ASSUME IInv, ReadResult PROVE IInv'
<1>0. /\ pc = "read" /\ pc' = "put" /\ result' = parse_result_json
      /\ UNCHANGED <<job_rest, file, pipes, removeFailed>>
  BY DEF ReadResult
<1>1. /\ job \in Nat /\ file \in [Paths -> 0 .. job] /\ result \in 0 .. job
      /\ callbacks \subseteq Callback
  BY DEF IInv, TypeOK
<1>2. result' = result \/ \E p \in Paths : result' = file[p] /\ file[p] # None
  BY <1>0 DEF parse_result_json, read_result_json, Paths
<1>3. result' \in 0 .. job
  BY <1>1, <1>2
<1>4. ~removeFailed => result' \in {result, job}
  BY <1>0, <1>2 DEF IInv, History, FilesOwn
<1>5. TypeOK'
  BY <1>0, <1>3 DEF IInv, TypeOK, job_rest, client_vars, message_vars,
                    recv_vars
<1>6. Conversation'
  BY <1>0, ConversationKept DEF job_rest
<1>7. JobsFresh'
  BY <1>0 DEF IInv, History, JobsFresh, InJob, job_rest
<1>8. RequestOwn' /\ FilesOwn'
  BY <1>0 DEF IInv, History, RequestOwn, FilesOwn, InJob, job_rest
<1>9. ResultOwn'
  BY <1>0, <1>4 DEF IInv, History, RequestOwn, ResultOwn, job_rest
<1>10. KeptUnreported'
  <2>1. \A cb \in callbacks : cb.result # job
    <3>1. \A cb \in callbacks : /\ cb.result \in Nat /\ cb.job \in Nat
                                /\ cb.result <= cb.job /\ cb.job < job
      BY <1>0, <1>1 DEF IInv, History, JobsFresh, InJob, Callback
    <3> QED
      BY <3>1, <1>1
  <2> QED
    BY <2>1, <1>0, <1>4 DEF IInv, History, KeptUnreported, job_rest
<1>11. OwnUntilFailure' /\ ReportedOnce'
  BY <1>0 DEF IInv, History, OwnUntilFailure, CallbacksAreOwn, ReportedOnce,
              job_rest
<1> QED
  BY <1>5, <1>6, <1>7, <1>8, <1>9, <1>10, <1>11 DEF IInv, History

\* The report: of the job's own request and result unless something failed,
\* and of a result that no other report has.
LEMMA SendCallbackInv ==
    ASSUME IInv, SendCallback PROVE IInv'
<1>0. /\ pc = "callback" /\ pc' = "answer" /\ req # None
      /\ callbacks' = callbacks \cup {build_A_callback_content}
      /\ UNCHANGED <<cur, req, reqLen, result, file, pipes, job, jobFor,
                     removeFailed, client_vars, sendFailed>>
  BY DEF SendCallback, tcp_connect
<1> DEFINE new == build_A_callback_content
<1>1. /\ job \in Nat /\ result \in 0 .. job /\ jobFor \in Reqs
      /\ req \in Reqs \cup {Mixed} /\ callbacks \subseteq Callback
  BY <1>0 DEF IInv, TypeOK, History, JobsFresh, InJob
<1>2. /\ new.job = job /\ new.for = jobFor /\ new.id = req
      /\ new.result = result /\ new \in Callback
  BY <1>1 DEF build_A_callback_content, Callback
<1> HIDE DEF new
<1>3. callbacks' = callbacks \cup {new}
  BY <1>0 DEF new
<1>4. TypeOK'
  <2>1. callbacks' \subseteq Callback
    BY <1>1, <1>2, <1>3
  <2> QED
    BY <1>0, <2>1 DEF IInv, TypeOK, client_vars, message_vars, recv_vars
<1>5. Conversation'
  BY <1>0, ConversationKept
<1>6. JobsFresh'
  <2>1. new.result <= new.job /\ new.job <= job
    BY <1>1, <1>2
  <2> QED
    BY <2>1, <1>0, <1>3 DEF IInv, History, JobsFresh, InJob
<1>7. RequestOwn' /\ FilesOwn' /\ ResultOwn' /\ KeptUnreported'
  BY <1>0 DEF RequestOwn, FilesOwn, ResultOwn, KeptUnreported, InJob
<1>8. OwnUntilFailure'
  <2>1. ~sendFailed /\ ~removeFailed => Own(new)
    BY <1>0, <1>2 DEF IInv, History, RequestOwn, ResultOwn, InJob, Own
  <2> QED
    BY <2>1, <1>0, <1>3 DEF IInv, History, OwnUntilFailure, CallbacksAreOwn
<1>9. ReportedOnce'
  <2>1. ~removeFailed /\ new.result # None =>
            \A cb \in callbacks : cb.result # new.result
    BY <1>0, <1>2 DEF IInv, History, KeptUnreported
  <2> QED
    BY <2>1, <1>0, <1>3 DEF IInv, History, ReportedOnce
<1> QED
  BY <1>4, <1>5, <1>6, <1>7, <1>8, <1>9 DEF IInv, History

\* The answer, or the end of the connection: both structures are zeroed.
LEMMA PlatformAnswersInv ==
    ASSUME IInv, PlatformAnswers PROVE IInv'
<1>0. /\ pc = "answer" /\ pc' = "idle" /\ jobFor' = None
      /\ req' = None /\ reqLen' = 0 /\ result' = None
      /\ UNCHANGED <<cur, file, pipes, job, callbacks, removeFailed,
                     client_vars, sendFailed>>
  BY DEF PlatformAnswers, Reset
<1>1. TypeOK'
  <2>1. reqLen' \in Nat /\ result' \in 0 .. job'
    BY <1>0 DEF None, IInv, TypeOK
  <2> QED
    BY <1>0, <2>1 DEF IInv, TypeOK, client_vars, message_vars, recv_vars
<1>2. Conversation'
  BY <1>0, ConversationKept
<1>3. JobsFresh'
  BY <1>0 DEF IInv, History, JobsFresh, InJob
<1>4. RequestOwn' /\ FilesOwn' /\ ResultOwn' /\ KeptUnreported'
  BY <1>0 DEF RequestOwn, FilesOwn, ResultOwn, KeptUnreported, InJob
<1>5. OwnUntilFailure' /\ ReportedOnce'
  BY <1>0 DEF IInv, History, OwnUntilFailure, CallbacksAreOwn, ReportedOnce
<1> QED
  BY <1>1, <1>2, <1>3, <1>4, <1>5 DEF IInv, History

\* The report that cannot be sent leaves both structures as they are.
LEMMA CallbackFailsInv ==
    ASSUME IInv, CallbackFails PROVE IInv'
<1>0. /\ pc = "callback" /\ pc' = "idle" /\ jobFor' = None
      /\ sendFailed' = TRUE
      /\ UNCHANGED <<cur, req, reqLen, result, file, pipes, job, callbacks,
                     removeFailed, client_vars>>
  BY DEF CallbackFails
<1>1. TypeOK'
  <2>1. {sendFailed', removeFailed'} \subseteq BOOLEAN
    BY <1>0 DEF IInv, TypeOK
  <2> QED
    BY <1>0, <2>1 DEF IInv, TypeOK, client_vars, message_vars, recv_vars
<1>2. Conversation'
  BY <1>0, ConversationKept
<1>3. JobsFresh'
  BY <1>0 DEF IInv, History, JobsFresh, InJob
<1>4. RequestOwn' /\ ResultOwn' /\ OwnUntilFailure'
  BY <1>0 DEF RequestOwn, ResultOwn, OwnUntilFailure
<1>5. FilesOwn' /\ KeptUnreported' /\ ReportedOnce'
  BY <1>0 DEF IInv, History, FilesOwn, KeptUnreported, ReportedOnce
<1> QED
  BY <1>1, <1>2, <1>3, <1>4, <1>5 DEF IInv, History

-----------------------------------------------------------------------------
\* A new request: the client had nothing pending.
LEMMA ClientSendsInv ==
    ASSUME IInv, NEW c \in Conns, NEW k \in Kinds, NEW p \in Pieces,
           ClientSends(c, k, p)
    PROVE  IInv'
<1>0. /\ pc # "exit" /\ st[c] = "ready" /\ sent < MaxReqs /\ sent' = sent + 1
      /\ want' = [want EXCEPT ![c] = sent + 1]
      /\ kind' = [kind EXCEPT ![c] = k]
      /\ put' = [put EXCEPT ![c] = p]
      /\ got' = [got EXCEPT ![c] = 0]
      /\ cuts' = [cuts EXCEPT ![c] = {}]
      /\ st' = [st EXCEPT ![c] = IF p = LastPiece THEN "wait" ELSE "half"]
      /\ UNCHANGED <<pc, cur, from, job_vars, refused, sendFailed>>
  BY DEF ClientSends
<1>1. /\ sent \in 0 .. MaxReqs /\ want \in [Conns -> Reqs \cup {None}]
      /\ st \in [Conns -> States] /\ kind \in [Conns -> Kinds]
      /\ put \in [Conns -> 0 .. 4] /\ got \in [Conns -> 0 .. 4]
      /\ cuts \in [Conns -> SUBSET (1 .. 3)] /\ job \in Nat /\ p \in 1 .. 4
  BY DEF IInv, TypeOK, States, Pieces
<1>2. Buffered /\ (\A d \in Conns : Pending(d)) /\ ~Receiving(c)
  BY <1>0 DEF IInv, Conversation, Messages, Buffered, Receiving
<1>3. sent' \in 0 .. MaxReqs /\ sent + 1 \in Reqs
  BY <1>0, <1>1, ReqNumbers DEF Reqs
<1>4. /\ want'[c] = sent + 1 /\ put'[c] = p /\ got'[c] = 0 /\ cuts'[c] = {}
      /\ st'[c] \in Unanswered
      /\ \A d \in Conns \ {c} :
            /\ want'[d] = want[d] /\ put'[d] = put[d] /\ got'[d] = got[d]
            /\ cuts'[d] = cuts[d] /\ st'[d] = st[d]
  BY <1>0, <1>1 DEF Unanswered
<1>5. TypeOK'
  <2>1. /\ want' \in [Conns -> Reqs \cup {None}] /\ kind' \in [Conns -> Kinds]
        /\ st' \in [Conns -> States]
    BY <1>0, <1>1, <1>3 DEF States
  <2>2. /\ put' \in [Conns -> 0 .. 4] /\ got' \in [Conns -> 0 .. 4]
        /\ cuts' \in [Conns -> SUBSET (1 .. 3)]
    BY <1>0, <1>1
  <2> QED
    BY <1>0, <1>3, <2>1, <2>2 DEF IInv, TypeOK, job_vars, States
<1>6. WholePostAccepted'
  BY <1>0 DEF IInv, Conversation, WholePostAccepted
<1>7. \A d \in Conns : Receiving(d)' <=> Receiving(d)
  BY <1>0 DEF Receiving
<1>8. Messages'
  <2>1. ASSUME NEW d \in Conns PROVE Pending(d)'
    <3>1. CASE d = c
      BY <3>1, <1>1, <1>3, <1>4 DEF Pending, Unanswered
    <3>2. CASE d # c
      BY <3>2, <1>2, <1>4, <1>7 DEF Pending
    <3> QED
      BY <3>1, <3>2
  <2>2. Buffered'
    <3>1. pc \in {"more", "parse"} => cur \in Conns \ {c}
      BY <1>2 DEF Buffered, Receiving
    <3> QED
      BY <3>1, <1>0, <1>2, <1>4 DEF Buffered
  <2> QED
    BY <2>1, <2>2 DEF Messages
<1>9. JobsCounted'
  <2>1. c \notin Live
    BY <1>0, <1>1, <1>2 DEF Live, Pending
  <2>2. c \in Live'
    BY <1>1, <1>4 DEF Live
  <2>3. \A d \in Conns \ {c} : d \in Live' <=> d \in Live
    BY <1>0, <1>4, <1>7 DEF Live
  <2>4. Live' = Live \cup {c}
    BY <2>2, <2>3 DEF Live
  <2>5. IsFiniteSet(Live) /\ job + Cardinality(Live) <= sent
    BY <1>0 DEF IInv, Conversation, JobsCounted
  <2>6. /\ IsFiniteSet(Live') /\ Cardinality(Live') = Cardinality(Live) + 1
        /\ Cardinality(Live) \in Nat
    BY <2>1, <2>4, <2>5, FS_AddElement, FS_CardinalityType
  <2>7. job' = job
    BY <1>0 DEF job_vars
  <2>8. job' + Cardinality(Live') <= sent'
    BY <2>5, <2>6, <2>7, <1>0, <1>1
  <2> QED
    BY <2>6, <2>8 DEF JobsCounted
<1>10. History'
  BY <1>0, HistoryKept
<1> QED
  BY <1>5, <1>6, <1>8, <1>9, <1>10 DEF IInv, Conversation

\* More of a message, and a client that leaves: what main has received of it
\* stays as it is.
LEMMA ClientGoesOnInv ==
    ASSUME IInv, NEW c \in Conns,
           ClientCloses(c) \/ \E p \in Pieces : ClientSendsMore(c, p)
    PROVE  IInv'
<1>0. /\ pc # "exit" /\ st[c] \notin {"gone", "closed"}
      /\ UNCHANGED <<pc, cur, from, job_vars, want, kind, sent, got, cuts,
                     refused, sendFailed>>
  BY DEF ClientCloses, ClientSendsMore, recv_vars, message_vars
<1>1. st \in [Conns -> States] /\ put \in [Conns -> 0 .. 4]
      /\ got \in [Conns -> 0 .. 4]
  BY DEF IInv, TypeOK, States
<1>2. /\ st' \in [Conns -> States] /\ put' \in [Conns -> 0 .. 4]
      /\ \A d \in Conns \ {c} : st'[d] = st[d] /\ put'[d] = put[d]
      /\ \/ st'[c] = "closed" /\ put'[c] = put[c]
         \/ /\ put[c] < put'[c]
            /\ \/ st[c] \in Unanswered /\ st'[c] \in Unanswered
               \/ st[c] = "spent" /\ st'[c] = "spent"
  <2>1. CASE ClientCloses(c)
    BY <2>1, <1>1 DEF ClientCloses, States, message_vars
  <2>2. ASSUME NEW p \in Pieces, ClientSendsMore(c, p)
        PROVE  /\ st' \in [Conns -> States] /\ put' \in [Conns -> 0 .. 4]
               /\ \A d \in Conns \ {c} : st'[d] = st[d] /\ put'[d] = put[d]
               /\ put[c] < put'[c]
               /\ \/ st[c] \in Unanswered /\ st'[c] \in Unanswered
                  \/ st[c] = "spent" /\ st'[c] = "spent"
    <3>1. /\ p \in 0 .. 4 /\ put[c] < p /\ put' = [put EXCEPT ![c] = p]
          /\ st[c] \in {"half", "spent"}
      BY <2>2 DEF ClientSendsMore, Pieces
    <3>2. st' = [st EXCEPT ![c] = IF st[c] = "half" /\ p = LastPiece
                                  THEN "wait" ELSE st[c]]
      BY <2>2, <1>1 DEF ClientSendsMore
    <3>3. /\ put' \in [Conns -> 0 .. 4] /\ put'[c] = p
          /\ \A d \in Conns \ {c} : put'[d] = put[d]
      BY <3>1, <1>1
    <3>4. /\ st' \in [Conns -> States]
          /\ st'[c] = IF st[c] = "half" /\ p = LastPiece THEN "wait" ELSE st[c]
          /\ \A d \in Conns \ {c} : st'[d] = st[d]
      BY <3>1, <3>2, <1>1 DEF States
    <3> QED
      BY <3>1, <3>3, <3>4 DEF Unanswered
  <2> QED
    BY <2>1, <2>2
<1>3. TypeOK'
  BY <1>0, <1>2 DEF IInv, TypeOK, job_vars, States
<1>4. WholePostAccepted'
  BY <1>0 DEF IInv, Conversation, WholePostAccepted
<1>5. \A d \in Conns : Receiving(d)' <=> Receiving(d)
  BY <1>0 DEF Receiving
<1>6. /\ Buffered /\ \A d \in Conns : Pending(d)
  BY <1>0 DEF IInv, Conversation, Messages
<1>7. put'[c] = put[c] \/ (put[c] > 0 /\ put[c] < put'[c])
  BY <1>2, <1>6 DEF Pending, Unanswered
<1>8. Messages'
  <2>1. ASSUME NEW d \in Conns PROVE Pending(d)'
    <3>1. CASE d = c
      <4>1. got[c] <= put'[c] /\ (put'[c] > 0 => want[c] \in Reqs)
        BY <1>1, <1>2, <1>6, <1>7 DEF Pending
      <4>2. st'[c] \in {"half", "wait", "spent"} => put'[c] > 0
        BY <1>1, <1>2, <1>7 DEF Unanswered
      <4>3. st'[c] \in Unanswered => st[c] \in Unanswered
        BY <1>2 DEF Unanswered
      <4>4. st'[c] \notin {"ready", "gone"}
        BY <1>2 DEF Unanswered
      <4> QED
        BY <3>1, <4>1, <4>2, <4>3, <4>4, <1>0, <1>5, <1>6 DEF Pending
    <3>2. CASE d # c
      BY <3>2, <1>0, <1>2, <1>5, <1>6 DEF Pending
    <3> QED
      BY <3>1, <3>2
  <2>2. Buffered'
    <3>1. CASE cur = c
      <4>1. /\ st'[c] \in Unanswered => st[c] \in Unanswered
            /\ st'[c] \notin {"ready", "gone"}
        BY <1>2 DEF Unanswered
      <4> QED
        BY <3>1, <4>1, <1>0, <1>6 DEF Buffered
    <3>2. CASE cur # c
      BY <3>2, <1>0, <1>2, <1>6 DEF Buffered
    <3> QED
      BY <3>1, <3>2
  <2> QED
    BY <2>1, <2>2 DEF Messages
<1>9. JobsCounted'
  <2>1. \A d \in Conns : put'[d] > 0 <=> put[d] > 0
    BY <1>1, <1>2, <1>7
  <2>2. Live' = Live
    BY <2>1, <1>0, <1>5 DEF Live
  <2> QED
    BY <2>2, <1>0 DEF IInv, Conversation, JobsCounted, job_vars
<1>10. History'
  BY <1>0, HistoryKept
<1> QED
  BY <1>3, <1>4, <1>8, <1>9, <1>10 DEF IInv, Conversation

-----------------------------------------------------------------------------
\* Every step of the server and of the clients keeps the invariant.
LEMMA NextInv == IInv /\ [Next]_vars => IInv'
<1> SUFFICES ASSUME IInv, [Next]_vars PROVE IInv'
  OBVIOUS
<1>1. CASE MainRuns
  BY <1>1, RecvFirstInv, RecvEofInv, RecvMoreInv, RecvMoreEofInv, EndsInv,
     RejectInv, StartJobInv, StartFailsInv, PopenInv, DeleteInv,
     ReadResultInv, SendCallbackInv, CallbackFailsInv DEF MainRuns
<1>2. CASE OthersEnd
  BY <1>2, PopenInv, RunAlgInv, PlatformAnswersInv DEF OthersEnd
<1>3. CASE Clients
  BY <1>3, ClientSendsInv, ClientGoesOnInv DEF Clients
<1>4. CASE UNCHANGED vars
  <2>0. /\ UNCHANGED <<pc, cur, job_vars, sendFailed>>
        /\ UNCHANGED <<st, want, kind, put, got, cuts, from, sent, refused>>
    BY <1>4 DEF vars, client_vars, message_vars, recv_vars
  <2>1. TypeOK' /\ WholePostAccepted'
    BY <2>0 DEF IInv, TypeOK, Conversation, WholePostAccepted, job_vars
  <2>2. \A d \in Conns : Receiving(d)' <=> Receiving(d)
    BY <2>0 DEF Receiving
  <2>3. Messages'
    BY <2>0, <2>2 DEF IInv, Conversation, Messages, Pending, Buffered
  <2>4. JobsCounted'
    <3>1. Live' = Live
      BY <2>0, <2>2 DEF Live
    <3> QED
      BY <2>0, <3>1 DEF IInv, Conversation, JobsCounted, job_vars
  <2>5. History'
    BY <2>0, HistoryKept
  <2> QED
    BY <2>1, <2>3, <2>4, <2>5 DEF IInv, Conversation
<1> QED
  BY <1>1, <1>2, <1>3, <1>4 DEF Next, Over

\* The inductive invariant holds of every run of the server.
LEMMA Invariance == Spec => []IInv
  BY InitInv, NextInv, PTL DEF Spec

\* RequestInv: types, among them that every request starts at most one job
\* however many pieces it comes in; and a post is answered 400 only if its
\* arrival was cut between '{' and '}' or in more than one place.
THEOREM RequestsAccepted == Spec => []RequestInv
<1>1. IInv => RequestInv
  BY DEF IInv, Conversation, RequestInv
<1> QED
  BY <1>1, Invariance, PTL

\* OwnUntilFailure: until a 200 or a callback could not be sent or an old
\* result.json not removed, each callback carries the id of the request that
\* started its job and that job's result or none, although request_content_A,
\* result_json and the files are shared by all jobs.
THEOREM CallbacksOwn == Spec => []OwnUntilFailure
<1>1. IInv => OwnUntilFailure
  BY DEF IInv, History
<1> QED
  BY <1>1, Invariance, PTL

\* ReportedOnce: while old files can be removed no result is reported twice,
\* even when callbacks fail and leave result_json behind for the next job.
THEOREM ResultsReportedOnce == Spec => []ReportedOnce
<1>1. IInv => ReportedOnce
  BY DEF IInv, History
<1> QED
  BY <1>1, Invariance, PTL
=============================================================================
