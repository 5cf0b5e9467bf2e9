----------------------------- MODULE HttpAnalyse -----------------------------
(***************************************************************************)
(* The image-analysis server of http_server/http_anlyse.c.  A client posts *)
(* a job; the server answers 200 at once, fetches the image with the ftps  *)
(* client, converts it, runs the algorithm, reads the result.json the      *)
(* algorithm left, uploads the image and reports the result to the host    *)
(* named in the request.  Everything happens in main's select loop, on two *)
(* global structures, request_content_A and result_json, that are zeroed   *)
(* only at the very end of a job.                                          *)
(*                                                                         *)
(* Requests are numbered in the order they are sent; jobs are numbered by  *)
(* the server.  The select loop with its table of clients is the one of    *)
(* SelectServer; here a round of it is the choice of a readable            *)
(* connection.                                                             *)
(*                                                                         *)
(* A message is four pieces, the places at which its arrival may be cut    *)
(* that main tells apart: its beginning, POST or HTTP/; the rest of the    *)
(* head; the body from its '{'; the end of the body with the '}'.          *)
(***************************************************************************)
EXTENDS Naturals, FiniteSets

CONSTANTS
    Conns,       \* connections, accepted already
    MaxReqs,     \* bound: requests sent by all clients
    IdLen,       \* length of each request's id string
    PipeLimit    \* streams popen can open before it fails

ASSUME HttpAssumption ==
    /\ MaxReqs \in Nat \ {0}
    /\ IdLen \in [1 .. MaxReqs -> Nat \ {0}]
    /\ PipeLimit \in Nat \ {0}

Reqs == 1 .. MaxReqs

None == 0

Mixed == MaxReqs + 1   \* a string of which only the beginning was overwritten

Nobody == "nobody"

Pieces == 1 .. 4

BodyPiece == 3

LastPiece == 4

\* A post with every field, without requestHostIp, or with requestHostIp but
\* without another field; an HTTP/1.1 reply, or one of another version.
Posts == {"full", "nohost", "nofield"}

Kinds == Posts \cup {"reply", "oldreply"}

Paths == {"/result.json", "/root/result.json"}

VARIABLES
    pc, cur,        \* main, and the connection it is serving
    from,           \* pieces of the message received before those in buf
    req, reqLen,    \* request_content_A: whose strings it holds, and how long
    result,         \* result_json: the job whose values it holds
    file,           \* the job whose result each result.json holds
    pipes,          \* streams popen_exe opened and never closed
    job, jobFor,    \* the job under way and the request it is for
    st,             \* each client ...
    want, kind,     \* ... its last request, and of what kind that is
    put, got,       \* ... how many pieces of it were sent, and received
    cuts,           \* history: the pieces a recv of it ended with, but the last
    sent,           \* requests sent so far
    refused,        \* history: the cuts of the requests that were answered 400
    callbacks,      \* results reported to the platform
    sendFailed,     \* history: a 200 or a callback could not be sent
    removeFailed    \* history: an old result.json could not be removed

job_vars == <<req, reqLen, result, file, pipes, job, jobFor, callbacks,
              removeFailed>>
message_vars == <<want, kind, put, sent>>
recv_vars == <<from, got, cuts>>
client_vars == <<st, message_vars, recv_vars, refused>>
vars == <<pc, cur, job_vars, client_vars, sendFailed>>

Init ==
    /\ pc = "idle" /\ cur = Nobody /\ from = 0
    /\ req = None /\ reqLen = 0 /\ result = None
    /\ file = [p \in Paths |-> None]
    /\ pipes = 0 /\ job = 0 /\ jobFor = None
    /\ st = [c \in Conns |-> "ready"]
    /\ want = [c \in Conns |-> None]
    /\ kind = [c \in Conns |-> "full"]
    /\ put = [c \in Conns |-> 0] /\ got = [c \in Conns |-> 0]
    /\ cuts = [c \in Conns |-> {}]
    /\ sent = 0
    /\ refused = {}
    /\ callbacks = {}
    /\ sendFailed = FALSE /\ removeFailed = FALSE

-----------------------------------------------------------------------------
(* Receiving a message.                                                    *)

NeverMore(first, last) == FALSE

\* strchr finds no '{' in what was received.
NeedsMore(first, last) == ~(first <= BodyPiece /\ BodyPiece <= last)

\* recv returns what has arrived up to piece p.
Take(c, p) ==
    /\ p \in (got[c] + 1) .. put[c]
    /\ got' = [got EXCEPT ![c] = p]
    /\ cuts' = [cuts EXCEPT ![c] = @ \cup ({p} \ {LastPiece})]

\* select reports the connection and recv returns data; without a '{' in it a
\* second recv will follow.
RecvFirst(c, p) ==
    /\ pc = "idle"
    /\ Take(c, p)
    /\ cur' = c
    /\ from' = got[c]
    /\ pc' = IF NeedsMore(got[c] + 1, p) THEN "more" ELSE "parse"
    /\ UNCHANGED <<job_vars, st, message_vars, refused, sendFailed>>

\* The second recv waits for whatever comes, and so does every other client.
RecvMore(p) ==
    /\ pc = "more"
    /\ Take(cur, p)
    /\ pc' = "parse"
    /\ UNCHANGED <<cur, from, job_vars, st, message_vars, refused, sendFailed>>

AtEof(c) == got[c] = put[c] /\ st[c] = "closed"

RecvMoreEof ==
    /\ pc = "more"
    /\ AtEof(cur)
    /\ pc' = "parse"
    /\ UNCHANGED <<cur, job_vars, client_vars, sendFailed>>

\* recv returns 0: close, and the table entry is freed.
RecvEof(c) ==
    /\ pc = "idle"
    /\ AtEof(c)
    /\ st' = [st EXCEPT ![c] = "gone"]
    /\ UNCHANGED <<pc, cur, job_vars, message_vars, recv_vars, refused,
                   sendFailed>>

\* recv fails: main returns -1.
RecvFails ==
    /\ \/ pc = "idle" /\ \E c \in Conns : st[c] = "closed"
       \/ pc = "more" /\ st[cur] = "closed"
    /\ pc' = "exit"
    /\ UNCHANGED <<cur, job_vars, client_vars, sendFailed>>

\* check_if_post: 0 for what starts with POST and reaches to the '}', 2 for
\* what starts with HTTP/, else -1.
check_if_post ==
    IF from # 0 THEN "other"
    ELSE IF kind[cur] \notin Posts THEN "callback"
    ELSE IF got[cur] = LastPiece THEN "post" ELSE "other"

\* memset of buf; and what is known of the message, which nothing looks at
\* once it is answered.
Forget(c) ==
    /\ cur' = Nobody /\ from' = 0
    /\ kind' = [kind EXCEPT ![c] = "full"]
    /\ cuts' = [cuts EXCEPT ![c] = {}]
    /\ UNCHANGED <<want, put, got, sent>>


\* build_error_callback and send.  A client that has sent all of its message,
\* and main received it, may go on; one that is answered before that can only
\* send the rest.
Answered ==
    st' = IF st[cur] = "closed" THEN st
          ELSE [st EXCEPT ![cur] = IF got[cur] = LastPiece THEN "ready"
                                                           ELSE "spent"]

\* send to a client that is gone may fail, or raise SIGPIPE.
Gone(c) == st[c] = "closed"

\* "receive data not post": 400, whether or not it can be sent.
Reject ==
    /\ pc = "parse"
    /\ check_if_post = "other"
    /\ refused' = refused \cup
                     (IF st[cur] \in {"half", "wait"} THEN {cuts[cur]} ELSE {})
    /\ Answered
    /\ Forget(cur)
    /\ pc' \in IF Gone(cur) THEN {"idle", "exit"} ELSE {"idle"}
    /\ UNCHANGED <<job_vars, sendFailed>>

-----------------------------------------------------------------------------
(* The job.                                                                *)

\* strncpy of n characters into the structure, with no end of string: what was
\* there beyond n stays.
Overlay(r) == IF IdLen[r] >= reqLen THEN r ELSE Mixed

\* parse_post_A_content; without requestHostIp it gives up before it changes
\* anything, and an HTTP reply is only printed.  main goes on in every case.
parse_post_A_content(r) ==
    IF kind[cur] = "full"
    THEN /\ req' = Overlay(r)
         /\ reqLen' = IF IdLen[r] >= reqLen THEN IdLen[r] ELSE reqLen
    ELSE UNCHANGED <<req, reqLen>>

\* Any other field is looked for behind a null pointer when it is not there,
\* and parse_callback_packet stores the reason of an HTTP/1.1 reply through
\* one.
Fatal == {"nofield", "reply"}

ParseCrash ==
    /\ pc = "parse"
    /\ check_if_post # "other"
    /\ kind[cur] \in Fatal
    /\ pc' = "exit"
    /\ UNCHANGED <<cur, job_vars, client_vars, sendFailed>>

\* A post or an HTTP reply: 200 is sent and the job begins ...
StartJob ==
    /\ pc = "parse"
    /\ check_if_post # "other"
    /\ kind[cur] \notin Fatal
    /\ parse_post_A_content(want[cur])
    /\ Answered
    /\ job' = job + 1
    /\ jobFor' = want[cur]
    /\ pc' = "get"
    /\ Forget(cur)
    /\ UNCHANGED <<result, file, pipes, callbacks, removeFailed, refused,
                   sendFailed>>

\* ... or the 200 cannot be sent, and the request stays in the structure.
StartFails ==
    /\ pc = "parse"
    /\ check_if_post # "other"
    /\ kind[cur] \notin Fatal
    /\ Gone(cur)
    /\ parse_post_A_content(want[cur])
    /\ sendFailed' = TRUE
    /\ pc' \in {"idle", "exit"}
    /\ Forget(cur)
    /\ UNCHANGED <<result, file, pipes, job, jobFor, callbacks,
                   removeFailed, st, refused>>

StreamsLeft == pipes < PipeLimit

\* popen_exe: the command's output has no "failed" in it, and the last stream
\* is closed ...
PopenDone(here, next) ==
    /\ pc = here
    /\ StreamsLeft
    /\ pc' = next
    /\ UNCHANGED pipes

\* ... or it has, and the command is run again on a new stream; the old one is
\* never closed.
PopenRedo ==
    /\ pc \in {"get", "put"}
    /\ StreamsLeft
    /\ pipes' = pipes + 1
    /\ UNCHANGED <<pc, cur, req, reqLen, result, file, job, jobFor, callbacks,
                   removeFailed, client_vars, sendFailed>>

\* popen returns NULL and fgets reads from it.
PopenCrash ==
    /\ pc \in {"get", "put"}
    /\ ~StreamsLeft
    /\ pc' = "exit"
    /\ UNCHANGED <<cur, job_vars, client_vars, sendFailed>>

job_rest == <<cur, req, reqLen, job, jobFor, callbacks, client_vars,
              sendFailed>>

\* ftps_client get, then jpg2rgb.
GetImage ==
    /\ PopenDone("get", "clean")
    /\ UNCHANGED <<job_rest, result, file, removeFailed>>

RemoveOldNot(kept) == UNCHANGED <<file, removeFailed>>

\* access and remove of both files; a remove that fails is only printed.
RemoveOld(kept) ==
    /\ file' = [p \in Paths |-> IF p \in kept THEN file[p] ELSE None]
    /\ removeFailed' = (removeFailed \/ \E p \in kept : file[p] # None)

DeleteLastResult(kept) ==
    /\ pc = "clean"
    /\ RemoveOld(kept)
    /\ pc' = "alg"
    /\ UNCHANGED <<job_rest, result, pipes>>

\* system(lenovo_alg): it leaves its result in one of the places, or none.
RunAlg ==
    /\ pc = "alg"
    /\ \/ UNCHANGED file
       \/ \E p \in Paths : file' = [file EXCEPT ![p] = job]
    /\ pc' = "read"
    /\ UNCHANGED <<job_rest, result, pipes, removeFailed>>

\* The first place is looked at before the second.
read_result_json ==
    IF file["/result.json"] # None THEN file["/result.json"]
                                   ELSE file["/root/result.json"]

\* parse_result_json sets only the fields it finds, and a file that is not
\* there has none.
parse_result_json ==
    IF read_result_json # None THEN read_result_json ELSE result

ReadResult ==
    /\ pc = "read"
    /\ result' = parse_result_json
    /\ pc' = "put"
    /\ UNCHANGED <<job_rest, file, pipes, removeFailed>>

\* ftps_client put.
PutImage ==
    /\ PopenDone("put", "callback")
    /\ UNCHANGED <<job_rest, result, file, removeFailed>>

ResetNothing == UNCHANGED <<req, reqLen, result>>

\* memset of both structures.
Reset == req' = None /\ reqLen' = 0 /\ result' = None

\* The report is made of what the two structures hold; job and for are history.
build_A_callback_content ==
    [job |-> job, for |-> jobFor, id |-> req, result |-> result]

\* There is an address only when a request was parsed.
tcp_connect == req # None

\* The report is sent, and main waits for the answer ...
SendCallback ==
    /\ pc = "callback"
    /\ tcp_connect
    /\ callbacks' = callbacks \cup {build_A_callback_content}
    /\ pc' = "answer"
    /\ UNCHANGED <<cur, req, reqLen, result, file, pipes, job, jobFor,
                   removeFailed, client_vars, sendFailed>>

\* ... which is not looked at; then everything is zeroed.
PlatformAnswers ==
    /\ pc = "answer"
    /\ Reset
    /\ pc' = "idle"
    /\ jobFor' = None
    /\ UNCHANGED <<cur, file, pipes, job, callbacks, removeFailed, client_vars,
                   sendFailed>>

\* connect or send fails, as it must without an address: the loop is left
\* before anything is zeroed.
CallbackFails ==
    /\ pc = "callback"
    /\ sendFailed' = TRUE
    /\ pc' = "idle"
    /\ jobFor' = None
    /\ UNCHANGED <<cur, req, reqLen, result, file, pipes, job, callbacks,
                   removeFailed, client_vars>>

\* main's steps that wait for nobody but a client that has left or has sent
\* something.
MainRuns ==
    \/ \E c \in Conns : (\E p \in Pieces : RecvFirst(c, p)) \/ RecvEof(c)
    \/ (\E p \in Pieces : RecvMore(p)) \/ RecvMoreEof \/ RecvFails
    \/ Reject \/ ParseCrash \/ StartJob \/ StartFails \/ PopenCrash
    \/ (\E kept \in SUBSET Paths : DeleteLastResult(kept))
    \/ ReadResult \/ SendCallback \/ CallbackFails

\* A program main has started comes to its end, or the platform answers.
OthersEnd == GetImage \/ PopenRedo \/ RunAlg \/ PutImage \/ PlatformAnswers

-----------------------------------------------------------------------------
(* Clients: each waits for the answer to a request before the next one.    *)

\* A request, or its first pieces.
ClientSends(c, k, p) ==
    /\ pc # "exit" /\ st[c] = "ready" /\ sent < MaxReqs
    /\ sent' = sent + 1
    /\ want' = [want EXCEPT ![c] = sent + 1]
    /\ kind' = [kind EXCEPT ![c] = k]
    /\ put' = [put EXCEPT ![c] = p]
    /\ got' = [got EXCEPT ![c] = 0]
    /\ cuts' = [cuts EXCEPT ![c] = {}]
    /\ st' = [st EXCEPT ![c] = IF p = LastPiece THEN "wait" ELSE "half"]
    /\ UNCHANGED <<pc, cur, from, job_vars, refused, sendFailed>>

\* More of it, some time later, even if the answer has come already.
ClientSendsMore(c, p) ==
    /\ pc # "exit" /\ st[c] \in {"half", "spent"} /\ put[c] < p
    /\ put' = [put EXCEPT ![c] = p]
    /\ st' = [st EXCEPT ![c] = IF @ = "half" /\ p = LastPiece THEN "wait"
                                                               ELSE @]
    /\ UNCHANGED <<pc, cur, job_vars, want, kind, sent, recv_vars, refused,
                   sendFailed>>

ClientCloses(c) ==
    /\ pc # "exit" /\ st[c] \notin {"closed", "gone"}
    /\ st' = [st EXCEPT ![c] = "closed"]
    /\ UNCHANGED <<pc, cur, job_vars, message_vars, recv_vars, refused,
                   sendFailed>>

Clients ==
    \E c \in Conns :
        \/ ClientCloses(c)
        \/ \E p \in Pieces :
              ClientSendsMore(c, p) \/ \E k \in Kinds : ClientSends(c, k, p)

Over ==
    /\ \/ pc = "exit"
       \/ pc = "idle" /\ \A c \in Conns : st[c] = "gone"
    /\ UNCHANGED vars

Next == MainRuns \/ OthersEnd \/ Clients \/ Over

Spec == Init /\ [][Next]_vars

\* The process is scheduled.  Nothing is assumed of the clients, of the
\* programs it starts or of the platform.
FairSpec == Spec /\ WF_vars(MainRuns)

-----------------------------------------------------------------------------
(* Properties.                                                             *)

Callback == [job : Nat, for : Reqs, id : Reqs \cup {Mixed}, result : Nat]

\* The type invariant.
TypeOK ==
    /\ pc \in {"idle", "more", "parse", "get", "clean", "alg", "read", "put",
               "callback", "answer", "exit"}
    /\ cur \in Conns \cup {Nobody}
    /\ from \in 0 .. 3
    /\ req \in Reqs \cup {None, Mixed}
    /\ reqLen \in Nat
    /\ job \in 0 .. MaxReqs /\ jobFor \in Reqs \cup {None}
    /\ result \in 0 .. job
    /\ file \in [Paths -> 0 .. job]
    /\ pipes \in 0 .. PipeLimit
    /\ st \in [Conns -> {"ready", "half", "wait", "spent", "closed", "gone"}]
    /\ want \in [Conns -> Reqs \cup {None}]
    /\ kind \in [Conns -> Kinds]
    /\ put \in [Conns -> 0 .. 4] /\ got \in [Conns -> 0 .. 4]
    /\ cuts \in [Conns -> SUBSET (1 .. 3)]
    /\ sent \in 0 .. MaxReqs
    /\ refused \subseteq SUBSET (1 .. 3)
    /\ callbacks \subseteq Callback
    /\ {sendFailed, removeFailed} \subseteq BOOLEAN

\* A post that arrives cut in two, anywhere in its head or just before its
\* '{', is still one request and is not answered 400.  Those that are were cut
\* inside the body, after the '{' and before the '}', or more than once: main
\* receives at most twice, and the second time only to get to the '{'.
WholePostAccepted ==
    \A x \in refused : BodyPiece \in x \/ \E p, q \in x : p # q

\* The types, with them that a request starts at most one job, and which posts
\* are turned down.
RequestInv == TypeOK /\ WholePostAccepted

Own(cb) == cb.id = cb.for /\ cb.result \in {None, cb.job}

\* http_anlyse.c:722 "delete the result of last time": what is reported for a
\* job is its own result, or none, under the id of its own request.
CallbacksAreOwn == \A cb \in callbacks : Own(cb)

\* As long as every 200 and every callback could be sent and every old file
\* removed, the structures and the files do not carry anything from one job
\* to the next.
OwnUntilFailure == ~sendFailed /\ ~removeFailed => CallbacksAreOwn

\* Whatever else fails, no result of the algorithm is reported twice while old
\* files can be removed.
ReportedOnce ==
    ~removeFailed =>
        \A a, b \in callbacks : a.result = b.result /\ a.result # None => a = b

\* The process ends only because a client left, because of a message main
\* cannot parse, or for want of streams, of which every failed run of the ftps
\* client costs one for good.
Ended ==
    /\ pc = "exit"
    /\ \/ \E c \in Conns : st[c] = "closed"
       \/ cur \in Conns /\ kind[cur] \in Fatal
       \/ pipes = PipeLimit

\* main waits for ever: in the second recv for a client that neither sends
\* more nor leaves, for a program it started, or for the platform's answer.
HeldForever ==
    \/ <>[](pc = "more" /\ got[cur] = put[cur] /\ st[cur] # "closed")
    \/ <>[](pc \in {"get", "alg", "put"})
    \/ <>[](pc = "answer")

=============================================================================
