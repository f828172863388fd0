--------------------------- MODULE InvertingProxy ---------------------------
(***************************************************************************)
(* The stand-alone proxy together with the forwarding agent                *)
(* (src/agent/agent.go, src/agent/utils/utils.go) and a backend.           *)
(*                                                                         *)
(* The agent polls the proxy with one list call after another and starts a *)
(* goroutine for each ID it has not seen.  That worker reads the request   *)
(* (with retries), runs it against the backend, and at the same time posts *)
(* the response (with retries; a retry replays the response, it does not   *)
(* run the request again).  Any HTTP call between the two may be lost on   *)
(* the way there or on the way back, or time out; the agent may stop and   *)
(* be started again.                                                       *)
(***************************************************************************)
EXTENDS Server, Sequences

CONSTANTS
    SeenLimit,     \* requestCacheLimit
    ReadRetries,   \* maxReadRequestRetryCount
    WriteRetries,  \* maxWriteResponseRetryCount
    MaxFaults      \* bound: calls lost or timed out, and signals to the agent

ASSUME RetriesAssumption ==
    SeenLimit \in Nat \ {0} /\ ReadRetries \in Nat /\ WriteRetries \in Nat /\ MaxFaults \in Nat

\* The n-th POST that the worker of i makes.
ASSUME PostsAssumption == Posts = IDs \X (0 .. WriteRetries)

VARIABLES
    apc,       \* "running", "draining" or "exited"
    awaiting,  \* the list call the poll loop waits for
    todo,      \* IDs of the last list that the loop has not come to
    seen,      \* previouslySeenRequests, most recent first
    wpc,       \* where the worker of each ID is
    tries,     \* GETs it has made in vain
    request,   \* what it fetched
    backend,   \* how far the backend has come with it
    qpc,       \* where its posting goroutine is
    attempt,   \* POSTs that goroutine has made in vain
    carried,   \* POSTs whose connection has carried a response header
    runs,      \* how often the backend ran each client's request
    faults     \* how many faults there have been

pollVars   == <<apc, awaiting, todo, seen>>
workVars   == <<wpc, tries, request>>
sendVars   == <<backend, qpc, attempt, carried, runs>>
agentVars  == <<pollVars, workVars, sendVars, faults>>
allVars    == <<vars, agentVars>>

AgentInit ==
    /\ apc = "running"
    /\ awaiting = None
    /\ todo = {}
    /\ seen = <<>>
    /\ wpc = [i \in IDs |-> "none"]
    /\ tries = [i \in IDs |-> 0]
    /\ request = [i \in IDs |-> None]
    /\ backend = [i \in IDs |-> "none"]
    /\ qpc = [i \in IDs |-> "none"]
    /\ attempt = [i \in IDs |-> 0]
    /\ carried = {}
    /\ runs = [f \in Frontends |-> 0]
    /\ faults = 0

Fault == faults < MaxFaults /\ faults' = faults + 1

\* The POST that the worker of i is making or about to make.
Current(i) == <<i, attempt[i]>>

\* The agent's end of the connection of a POST is open.
Open(p) == qpc[p[1]] = "calling" /\ attempt[p[1]] = p[2]

\* A response, from the backend or from the agent in its place, is being sent.
Responding(i) == backend[i] \in {"response", "error"}

-----------------------------------------------------------------------------
(* Defects: what some definitions below would be with a plausible mistake.  *)
(* They show that the properties at the end can fail; nothing else uses     *)
(* them.                                                                   *)

\* The answer to a list call that timed out is not noticed.
PollEmptyUnnoticed(l) ==
    /\ ListTimeout(l)
    /\ UNCHANGED agentVars

\* One GET too many.
GetOnceMore(i) ==
    /\ tries' = [tries EXCEPT ![i] = @ + 1]
    /\ wpc' = IF tries[i] <= ReadRetries THEN wpc ELSE [wpc EXCEPT ![i] = "end"]
    /\ UNCHANGED <<request, pollVars, sendVars>>

-----------------------------------------------------------------------------
(* pollForNewRequests *)

\* The next turn of the loop: ListPendingRequests.
PollStart(l) ==
    /\ apc = "running"
    /\ awaiting = None
    /\ todo = {}
    /\ ListStart(l)
    /\ awaiting' = l
    /\ UNCHANGED <<apc, todo, seen, workVars, sendVars, faults>>

\* IDs arrive.
PollReply(l) ==
    /\ awaiting = l
    /\ ListReturn(l, TRUE)
    /\ awaiting' = None
    /\ todo' = batch[l]
    /\ UNCHANGED <<apc, seen, workVars, sendVars, faults>>

\* The proxy's reply is lost, or the agent no longer waits for it.
PollReplyLost(l) ==
    /\ ListReturn(l, FALSE)
    /\ IF awaiting = l THEN Fault ELSE UNCHANGED faults
    /\ UNCHANGED <<pollVars, workVars, sendVars>>

\* An empty list arrives, if anyone waits for it.
PollEmpty(l) ==
    /\ ListTimeout(l)
    /\ awaiting' = IF awaiting = l THEN None ELSE awaiting
    /\ UNCHANGED <<apc, todo, seen, workVars, sendVars, faults>>

\* The call fails or exceeds the proxy timeout; the loop sleeps and goes on.
PollFail ==
    /\ awaiting # None
    /\ awaiting' = None
    /\ UNCHANGED <<vars, apc, todo, seen, workVars, sendVars>>
    /\ Fault

\* lru.Cache: an ID that is looked up or added moves to the front, and the
\* last one falls out when there are too many.
Holds(s, i) == \E k \in DOMAIN s : s[k] = i
Place(s, i) == CHOOSE k \in DOMAIN s : s[k] = i
Without(s, i) == SubSeq(s, 1, Place(s, i) - 1) \o SubSeq(s, Place(s, i) + 1, Len(s))
Touch(s, i) == <<i>> \o IF Holds(s, i) THEN Without(s, i) ELSE s
Limit(s) == IF Len(s) > SeenLimit THEN SubSeq(s, 1, SeenLimit) ELSE s
Seen(i) == Holds(seen, i)

\* go processOneRequest: a worker knows nothing of an earlier one for its ID.
StartWorker(i) ==
    /\ wpc' = [wpc EXCEPT ![i] = "get"]
    /\ tries' = [tries EXCEPT ![i] = 0]
    /\ request' = [request EXCEPT ![i] = None]
    /\ backend' = [backend EXCEPT ![i] = "none"]
    /\ qpc' = [qpc EXCEPT ![i] = "none"]
    /\ attempt' = [attempt EXCEPT ![i] = 0]
    /\ UNCHANGED <<carried, runs>>

\* One turn of the loop over the listed IDs.
Dispatch(i) ==
    /\ i \in todo
    /\ todo' = todo \ {i}
    /\ seen' = Limit(Touch(seen, i))
    /\ IF Seen(i) THEN UNCHANGED <<workVars, sendVars>> ELSE StartWorker(i)
    /\ UNCHANGED <<vars, apc, awaiting, faults>>

-----------------------------------------------------------------------------
(* processOneRequest: utils.ReadRequest *)

\* A GET that brought nothing is repeated ReadRetries times.
GetAgain(i) ==
    /\ tries' = [tries EXCEPT ![i] = @ + 1]
    /\ wpc' = IF tries[i] < ReadRetries THEN wpc ELSE [wpc EXCEPT ![i] = "end"]
    /\ UNCHANGED <<request, pollVars, sendVars>>

\* The request arrives; NewResponseForwarder starts the posting goroutine.
GetReply(i, whole) ==
    /\ wpc[i] = "get"
    /\ GetRequest(i, whole)
    /\ wpc' = [wpc EXCEPT ![i] = "forward"]
    /\ request' = [request EXCEPT ![i] = <<i, requests[i], whole>>]
    /\ qpc' = [qpc EXCEPT ![i] = "start"]
    /\ UNCHANGED <<tries, pollVars, backend, attempt, carried, runs, faults>>

\* The proxy wrote the request and the agent did not get it.
GetReplyLost(i, whole) ==
    /\ wpc[i] = "get"
    /\ GetRequest(i, whole)
    /\ GetAgain(i)
    /\ Fault

\* What arrived under status 200 cannot be parsed, as the connection broke or
\* the start time is not one: that is not retried.
GetUnparsed(i, whole) ==
    /\ wpc[i] = "get"
    /\ GetRequest(i, whole)
    /\ wpc' = [wpc EXCEPT ![i] = "end"]
    /\ UNCHANGED <<tries, request, pollVars, sendVars>>
    /\ Fault

\* The GET did not reach the proxy, or its 404 was lost.
GetFail(i) ==
    /\ wpc[i] = "get"
    /\ GetAgain(i)
    /\ UNCHANGED vars
    /\ Fault

\* A 404 is not retried.
GetNotFound(i) ==
    /\ wpc[i] = "get"
    /\ requests[i] = None
    /\ wpc' = [wpc EXCEPT ![i] = "end"]
    /\ UNCHANGED <<vars, tries, request, pollVars, sendVars, faults>>

-----------------------------------------------------------------------------
(* forwardRequest: hostProxy.ServeHTTP on one side ... *)

\* The backend begins to run the request.
BackendRun(i) ==
    /\ wpc[i] = "forward"
    /\ backend[i] = "none"
    /\ backend' = [backend EXCEPT ![i] = "running"]
    /\ runs' = [runs EXCEPT ![request[i][2]] = @ + 1]
    /\ UNCHANGED <<vars, pollVars, workVars, qpc, attempt, carried, faults>>

\* A response header is written to the posting goroutine's pipe.
Respond(i, kind) ==
    /\ wpc[i] = "forward"
    /\ backend' = [backend EXCEPT ![i] = kind]
    /\ carried' = IF Open(Current(i)) THEN carried \cup {Current(i)} ELSE carried
    /\ UNCHANGED <<vars, pollVars, workVars, qpc, attempt, runs, faults>>

\* The backend responds.
BackendRespond(i) ==
    /\ backend[i] = "running"
    /\ Respond(i, "response")

\* The backend cannot be reached, or fails before it responds: the reverse
\* proxy responds with status 502.
BackendError(i) ==
    /\ backend[i] \in {"none", "running"}
    /\ Respond(i, "error")

-----------------------------------------------------------------------------
(* ... and postResponseWithRetries on the other *)

\* The POST reaches the proxy before there is anything to send: net/http
\* flushes the header of a request with a body at once.
PostCall(i) ==
    /\ qpc[i] = "start"
    /\ PostStart(Current(i), request[i])
    /\ qpc' = [qpc EXCEPT ![i] = "calling"]
    /\ carried' = IF Responding(i) THEN carried \cup {Current(i)} ELSE carried
    /\ UNCHANGED <<pollVars, workVars, backend, attempt, runs, faults>>

\* A failed POST is repeated WriteRetries times, if what was sent of the
\* response still is in the buffer of the bufferedReadSeeker.
PostAgain(i) ==
    /\ \E seekable \in BOOLEAN :
         IF seekable /\ attempt[i] < WriteRetries
         THEN /\ attempt' = [attempt EXCEPT ![i] = @ + 1]
              /\ qpc' = [qpc EXCEPT ![i] = "start"]
         ELSE /\ qpc' = [qpc EXCEPT ![i] = "closed"]
              /\ UNCHANGED attempt
    /\ UNCHANGED <<vars, pollVars, workVars, backend, carried, runs>>

\* client.Do fails: the POST or its reply is lost, or the timeout is over.
PostFail(i) ==
    /\ qpc[i] \in {"start", "calling"}
    /\ PostAgain(i)
    /\ Fault

\* A status in the 500s.
PostRejected(i) ==
    /\ qpc[i] = "calling"
    /\ ppc[Current(i)] = "failed"
    /\ PostAgain(i)
    /\ UNCHANGED faults

\* Any other status, 400 and 404 included, ends the posting.
PostReply(i) ==
    /\ qpc[i] = "calling"
    /\ ppc[Current(i)] \in PostReturned \ {"failed"}
    /\ qpc' = [qpc EXCEPT ![i] = "closed"]
    /\ UNCHANGED <<vars, pollVars, workVars, backend, attempt, carried, runs, faults>>

\* responseForwarder.Close returns: the worker is done.
WorkerEnd(i) ==
    /\ wpc[i] = "forward"
    /\ qpc[i] = "closed"
    /\ Responding(i)
    /\ wpc' = [wpc EXCEPT ![i] = "end"]
    /\ UNCHANGED <<vars, tries, request, pollVars, sendVars, faults>>

-----------------------------------------------------------------------------
(* main *)

\* SIGTERM with a graceful-shutdown-timeout: polling stops, work goes on.
AgentDrain ==
    /\ apc = "running"
    /\ apc' = "draining"
    /\ awaiting' = None
    /\ UNCHANGED <<vars, todo, seen, workVars, sendVars>>
    /\ Fault

\* The process ends: by SIGTERM without that timeout, when the timeout is
\* over, by too many bad health checks, or by a crash.
AgentExit ==
    /\ apc # "exited"
    /\ apc' = "exited"
    /\ awaiting' = None
    /\ todo' = {}
    /\ seen' = <<>>
    /\ wpc' = [i \in IDs |-> IF wpc[i] = "none" THEN "none" ELSE "end"]
    /\ qpc' = [i \in IDs |-> IF qpc[i] = "none" THEN "none" ELSE "closed"]
    /\ IF apc = "running" THEN Fault ELSE UNCHANGED faults
    /\ UNCHANGED <<vars, tries, request, backend, attempt, carried, runs>>

\* It is started again.
AgentRestart ==
    /\ apc = "exited"
    /\ apc' = "running"
    /\ UNCHANGED <<vars, awaiting, todo, seen, workVars, sendVars, faults>>

-----------------------------------------------------------------------------
(* The proxy's own steps.  What a POST call reads from the agent is what the *)
(* agent sent, and it fails only when the agent has hung up.               *)

ProxyFrontend(f) == FrontendStep(f) /\ UNCHANGED agentVars

ProxyParsed(p) == p \in carried /\ PostParsed(p) /\ UNCHANGED agentVars

ProxyReadFail(p) ==
    /\ ~Open(p)
    /\ PostParseFail(p) \/ PostReadFail(p)
    /\ UNCHANGED agentVars

ProxyContextDone(p) == ~Open(p) /\ PostContextDone(p) /\ UNCHANGED agentVars

ProxyPump(p) ==
    /\ PostRead(p) \/ PostEOF(p) \/ PostWrite(p) \/ PostWriteFail(p)
    /\ UNCHANGED agentVars

ProxyStep(p) == ProxyParsed(p) \/ ProxyReadFail(p) \/ ProxyPump(p)

ProxyDeliver(p) == Deliveries(p) /\ UNCHANGED agentVars

ProxyReceive(l, f) == ListReceive(l, f) /\ UNCHANGED agentVars

ClientStep(f) == (NewID(f) \/ ClientActs(f)) /\ UNCHANGED agentVars

PollStep(l) == PollStart(l) \/ PollReply(l) \/ PollReplyLost(l) \/ PollEmpty(l)

GetStep(i) ==
    \/ \E whole \in BOOLEAN : GetReply(i, whole) \/ GetReplyLost(i, whole) \/ GetUnparsed(i, whole)
    \/ GetFail(i)
    \/ GetNotFound(i)

BackendStep(i) == BackendRun(i) \/ BackendRespond(i) \/ BackendError(i)

SendStep(i) == PostCall(i) \/ PostFail(i) \/ PostRejected(i) \/ PostReply(i)

NextAll ==
    \/ \E f \in Frontends : ClientStep(f) \/ ProxyFrontend(f)
    \/ \E l \in Lists : PollStep(l)
    \/ \E l \in Lists, f \in Frontends : ProxyReceive(l, f)
    \/ \E p \in Posts : ProxyStep(p) \/ ProxyContextDone(p) \/ ProxyDeliver(p)
    \/ \E i \in IDs : Dispatch(i) \/ GetStep(i) \/ BackendStep(i) \/ SendStep(i) \/ WorkerEnd(i)
    \/ PollFail \/ AgentDrain \/ AgentExit \/ AgentRestart

AllSpec == Init /\ AgentInit /\ [][NextAll]_allVars

(***************************************************************************)
(* Fairness: of the proxy as in Server; every loop and goroutine of the    *)
(* agent goes on, its calls to the proxy end (http.Client.Timeout), and    *)
(* the backend answers or fails.  A list call that is made again and again *)
(* while a request is on offer takes it: at the entry of its select the    *)
(* receive is ready and the 30 second timer is not.                        *)
(***************************************************************************)
FairAllSpec ==
    /\ AllSpec
    /\ \A f \in Frontends : WF_allVars(ProxyFrontend(f))
    /\ \A p \in Posts :
         /\ WF_allVars(ProxyStep(p))
         /\ WF_allVars(ProxyDeliver(p))
    /\ \A l \in Lists : WF_allVars(PollStep(l))
    /\ \A l \in Lists, f \in Frontends : SF_allVars(ProxyReceive(l, f))
    /\ WF_allVars(PollFail)
    /\ \A i \in IDs :
         /\ WF_allVars(Dispatch(i))
         /\ WF_allVars(GetStep(i))
         /\ WF_allVars(BackendStep(i))
         /\ WF_allVars(SendStep(i))
         /\ WF_allVars(WorkerEnd(i))

-----------------------------------------------------------------------------
(* Properties *)

AgentTypeOK ==
    /\ TypeOK
    /\ apc \in {"running", "draining", "exited"}
    /\ awaiting \in Lists \cup {None}
    /\ todo \subseteq IDs
    /\ seen \in Seq(IDs) /\ Len(seen) <= SeenLimit
    /\ wpc \in [IDs -> {"none", "get", "forward", "end"}]
    /\ tries \in [IDs -> 0 .. ReadRetries + 1]
    /\ request \in [IDs -> fetched \cup {None}]
    /\ backend \in [IDs -> {"none", "running", "response", "error"}]
    /\ qpc \in [IDs -> {"none", "start", "calling", "closed"}]
    /\ attempt \in [IDs -> 0 .. WriteRetries]
    /\ carried \subseteq Posts
    /\ runs \in [Frontends -> Nat]
    /\ faults \in 0 .. MaxFaults

\* How far a client's exchange has come.
Phase(f) ==
    IF fpc[f] \in {"idle", "drawn", "register"} THEN "new"
    ELSE IF resp[f] # None
         THEN IF backend[resp[f][1]] = "response" THEN "answered" ELSE "refused"
    ELSE IF fpc[f] \in {"cleanup", "done"} THEN "left"
    ELSE "waiting"

\* Proxy, agent and backend together keep the promise of an exchange: lost and
\* repeated calls, an agent that dies and comes back, clients that leave, never
\* run a request twice or answer one that did not run.
E == INSTANCE Exchange WITH Clients <- Frontends,
                            phase <- [f \in Frontends |-> Phase(f)],
                            runs <- runs
KeepsPromise == E!Spec

\* The agent has lost a client that waits: a list reply went astray, or the
\* worker gave up.
Lost(f) ==
    /\ fpc[f] = "wait"
    /\ id[f] \notin todo
    /\ \A l \in Lists : id[f] \notin batch[l]
    /\ wpc[id[f]] \in {"none", "end"}

\* As long as the agent runs, losing it is the only way to keep a client that
\* reads its response waiting: a request on offer is listed, fetched, run and
\* answered, however the goroutines interleave and whichever calls are retried.
ClientServed ==
    \A f \in Frontends :
        fpc[f] = "enqueue" ~> fpc[f] = "done" \/ Lost(f) \/ Waits(f) \/ apc # "running"

\* A worker holds a request whose body is cut off, and runs it against the
\* backend as if it were whole, only if the client has left or the worker itself
\* made a GET before whose reply was lost: no other worker, of this agent or of
\* one that ran before it, has read the client's body.
CutOffOnlyAfterLoss ==
    \A i \in IDs :
        request[i] # None /\ ~request[i][3] => tries[i] > 0 \/ gone[request[i][2]]
=============================================================================
