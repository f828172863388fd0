------------------------------ MODULE AppProxy ------------------------------
(***************************************************************************)
(* The App Engine proxy (src/app/proxy.go) with its store                  *)
(* (src/app/store/store.go) and the cache in front of it                   *)
(* (src/app/cache/cache.go), for one backend.                              *)
(*                                                                         *)
(* Nothing is kept in memory: a client's handler stores its request and    *)
(* looks for a stored response until it times out; an agent's calls list   *)
(* the requests that are not completed, read one, and store a response     *)
(* while they mark the request completed.  Handlers run in different       *)
(* processes and meet only in the datastore and in memcache, which may     *)
(* miss anything at any time.  A cron job deletes what is old, and an      *)
(* administrator adds and deletes the backend.                             *)
(***************************************************************************)
EXTENDS Naturals, FiniteSets

CONSTANTS
    Requests,   \* client requests, each with the ID App Engine gave it
    Cacheable,  \* GET requests of one user for one URL
    MaxPosts,   \* bound: response calls that agents make
    Lists,      \* pending calls that agents make, one after the other each
    MaxFaults,  \* bound: datastore operations that fail
    ListLimit,  \* the most requests that one query for pending requests returns
    DeleteLimit,    \* the most responses that one run of the cron job deletes
    BackendStays,   \* TRUE where the backend is not deleted and no hour passes
                    \* without a list call
    None

ASSUME CacheableAssumption == Cacheable \subseteq Requests

ASSUME BoundsAssumption == MaxPosts \in Nat /\ MaxFaults \in Nat

ASSUME LimitsAssumption == ListLimit \in Nat \ {0} /\ DeleteLimit \in Nat \ {0}

ASSUME StaysAssumption == BackendStays \in BOOLEAN

ASSUME NoneAssumption == None \notin Requests \cup {"pending", "completed", "ok", "error"}

\* Response calls are numbered as they arrive.
Posts == 1 .. MaxPosts

VARIABLES
    hpc,        \* where the client handler of each request is
    answer,     \* the request whose response it returned
    memReq,     \* requests that were put into memcache
    dbReq,      \* requests in the datastore: None, "pending" or "completed"
    memResp,    \* responses that were put into memcache
    dbResp,     \* responses in the datastore
    page,       \* the cached response to the Cacheable requests
    old,        \* requests that started more than 2 minutes ago
    defined,    \* whether the backend is in the datastore
    tracker,    \* its LastSeen: None, "fresh" (less than 5 minutes ago), "stale",
                \* or "expired" (more than 1 hour ago)
    lpc,        \* where each pending call is
    batch,      \* what it answered
    known,      \* IDs that agents have been told
    fetched,    \* requests that they have read
    ppc,        \* where each response call is
    target,     \* the request it responds to
    errs,       \* errors in its notFoundErrs
    apc,        \* where the administrator's call is
    cpc,        \* where the cron job is
    faults

clientVars == <<hpc, answer, page>>
storeVars  == <<memReq, dbReq, memResp, dbResp, old>>
regVars    == <<defined, tracker, apc, cpc>>
agentVars  == <<lpc, batch, known, fetched>>
postVars   == <<ppc, target, errs>>
vars       == <<clientVars, storeVars, regVars, agentVars, postVars, faults>>

Init ==
    /\ hpc = [r \in Requests |-> "start"]
    /\ answer = [r \in Requests |-> None]
    /\ memReq = {}
    /\ dbReq = [r \in Requests |-> None]
    /\ memResp = {}
    /\ dbResp = {}
    /\ page = None
    /\ old = {}
    /\ defined = FALSE
    /\ tracker = None
    /\ lpc = [l \in Lists |-> "idle"]
    /\ batch = [l \in Lists |-> {}]
    /\ known = {}
    /\ fetched = {}
    /\ ppc = [p \in Posts |-> [resp |-> "new", req |-> "new", reply |-> None]]
    /\ target = [p \in Posts |-> None]
    /\ errs = [p \in Posts |-> 0]
    /\ apc = "idle"
    /\ cpc = "idle"
    /\ faults = 0

Fault == faults < MaxFaults /\ faults' = faults + 1

\* A Get of something that was put into memcache may miss, because Set failed
\* (nobody looks at its error), because memcache dropped the item, or because
\* Get fails; the caller then turns to the datastore.
MayFind(r, mem, db) == r \in mem \cup db
MayMiss(r, db) == r \notin db

Stored == {r \in Requests : dbReq[r] # None}

Pending == {r \in Requests : dbReq[r] = "pending"}

\* What a query for the elements of S may return with Limit(n): the order of
\* the keys decides, which has nothing to do with that of the arrivals.
Limit(S, n) ==
    {T \in SUBSET S : Cardinality(T) = IF n < Cardinality(S) THEN n ELSE Cardinality(S)}

\* LookupBackend: the backend is defined and an agent listed its requests less
\* than 5 minutes ago.
Lookup == defined /\ tracker = "fresh"

\* IsBackendUserAllowed: the agent's account may act as the backend.
Allowed == defined

\* listRecentBackends has the backend.
Recent == tracker \in {"fresh", "stale"}

\* cap(notFoundErrs)
ErrCap == 1

\* deleteRequestsForBackend
DropRequests(rs) == dbReq' = [r \in Requests |-> IF r \in rs THEN None ELSE dbReq[r]]

-----------------------------------------------------------------------------
(* Defects: what some definitions below would be with a plausible mistake.  *)
(* They show that the properties at the end can fail; nothing else uses     *)
(* them.                                                                   *)

\* ReadResponse looks for a response of the backend instead of for the request's.
ClientReadAny(r) ==
    /\ hpc[r] = "wait"
    /\ \E q \in Requests :
         MayFind(q, memResp, dbResp) /\ answer' = [answer EXCEPT ![r] = q]
    /\ hpc' = [hpc EXCEPT ![r] = "ok"]
    /\ UNCHANGED <<page, storeVars, regVars, agentVars, postVars, faults>>

\* The response to any method goes into the page cache.
ClientReadAnyMethod(r) ==
    /\ hpc[r] = "wait"
    /\ MayFind(r, memResp, dbResp)
    /\ hpc' = [hpc EXCEPT ![r] = "ok"]
    /\ answer' = [answer EXCEPT ![r] = r]
    /\ page' = r
    /\ UNCHANGED <<storeVars, regVars, agentVars, postVars, faults>>

\* A request is listed once.
ListQueryOnce(l) ==
    /\ lpc[l] \in {"query", "sleep"}
    /\ tracker' = "fresh"
    /\ \E rs \in Limit(Pending \ known, ListLimit) :
         /\ batch' = [batch EXCEPT ![l] = rs]
         /\ known' = known \cup rs
         /\ lpc' = [lpc EXCEPT ![l] = IF rs = {} THEN "sleep" ELSE "idle"]
    /\ UNCHANGED <<fetched, defined, apc, cpc, clientVars, storeVars, postVars, faults>>

\* The request is written back without Completed.
ReqPutPending(p) ==
    /\ ppc[p].req = "put"
    /\ ppc' = [ppc EXCEPT ![p].req = "done"]
    /\ memReq' = memReq \cup {target[p]}
    /\ dbReq' = [dbReq EXCEPT ![target[p]] = "pending"]
    /\ UNCHANGED <<target, errs, memResp, dbResp, old, clientVars, regVars, agentVars, faults>>

\* The error channel has no buffer and nobody receives.
SendErrorUnbuffered(p, side) ==
    /\ ppc[p][side] = "failed"
    /\ errs[p] < 0
    /\ UNCHANGED vars

\* The cron job deletes all requests of a backend.
CronRequestsAll ==
    /\ cpc = "requests"
    /\ cpc' = "responses"
    /\ DropRequests(IF Recent THEN Requests ELSE {})
    /\ UNCHANGED <<defined, tracker, apc, memReq, memResp, dbResp, old, clientVars, agentVars,
                   postVars, faults>>

\* The cron job looks at the backends that have not been seen.
CronRequestsUnseen ==
    /\ cpc = "requests"
    /\ cpc' = "responses"
    /\ DropRequests(IF Recent THEN {} ELSE old)
    /\ UNCHANGED <<defined, tracker, apc, memReq, memResp, dbResp, old, clientVars, agentVars,
                   postVars, faults>>

-----------------------------------------------------------------------------
(* proxyHandler *)

\* A GET may be answered from the page cache.
ClientStart(r) ==
    /\ hpc[r] = "start"
    /\ IF Lookup
       THEN \/ hpc' = [hpc EXCEPT ![r] = "put"] /\ UNCHANGED answer
            \/ /\ r \in Cacheable
               /\ page # None
               /\ hpc' = [hpc EXCEPT ![r] = "ok"]
               /\ answer' = [answer EXCEPT ![r] = page]
       ELSE hpc' = [hpc EXCEPT ![r] = "nobackend"] /\ UNCHANGED answer
    /\ UNCHANGED <<page, storeVars, regVars, agentVars, postVars, faults>>

\* The lookup fails: status 404, as if there were no backend.
ClientStartFail(r) ==
    /\ hpc[r] = "start"
    /\ Fault
    /\ hpc' = [hpc EXCEPT ![r] = "nobackend"]
    /\ UNCHANGED <<answer, page, storeVars, regVars, agentVars, postVars>>

\* WriteRequest
ClientPut(r) ==
    /\ hpc[r] = "put"
    /\ hpc' = [hpc EXCEPT ![r] = "wait"]
    /\ memReq' = memReq \cup {r}
    /\ dbReq' = [dbReq EXCEPT ![r] = "pending"]
    /\ UNCHANGED <<answer, page, memResp, dbResp, old, regVars, agentVars, postVars, faults>>

ClientPutFail(r) ==
    /\ hpc[r] = "put"
    /\ Fault
    /\ hpc' = [hpc EXCEPT ![r] = "error"]
    /\ memReq' = memReq \cup {r}
    /\ UNCHANGED <<answer, page, dbReq, memResp, dbResp, old, regVars, agentVars, postVars>>

\* ReadResponse finds one; the response to a GET goes into the page cache,
\* unless it has a Cache-Control header or another status than 200.
ClientRead(r) ==
    /\ hpc[r] = "wait"
    /\ MayFind(r, memResp, dbResp)
    /\ hpc' = [hpc EXCEPT ![r] = "ok"]
    /\ answer' = [answer EXCEPT ![r] = r]
    /\ \/ UNCHANGED page
       \/ r \in Cacheable /\ page' = r
    /\ UNCHANGED <<storeVars, regVars, agentVars, postVars, faults>>

\* ReadResponse finds one that is not an HTTP response: status 500.
ClientReadMalformed(r) ==
    /\ hpc[r] = "wait"
    /\ MayFind(r, memResp, dbResp)
    /\ hpc' = [hpc EXCEPT ![r] = "error"]
    /\ UNCHANGED <<answer, page, storeVars, regVars, agentVars, postVars, faults>>

\* responseWaitTimeout
ClientTimeout(r) ==
    /\ hpc[r] = "wait"
    /\ hpc' = [hpc EXCEPT ![r] = "timeout"]
    /\ UNCHANGED <<answer, page, storeVars, regVars, agentVars, postVars, faults>>

-----------------------------------------------------------------------------
(* pendingHandler *)

ListStart(l) ==
    /\ lpc[l] = "idle"
    /\ Allowed
    /\ lpc' = [lpc EXCEPT ![l] = "query"]
    /\ batch' = [batch EXCEPT ![l] = {}]
    /\ UNCHANGED <<known, fetched, clientVars, storeVars, regVars, postVars, faults>>

\* ListPendingRequests asks for some of the requests that are not completed;
\* the call returns when the result is not empty.
ListResult(l) ==
    /\ lpc[l] \in {"query", "sleep"}
    /\ \E rs \in Limit(Pending, ListLimit) :
         /\ batch' = [batch EXCEPT ![l] = rs]
         /\ known' = known \cup rs
         /\ lpc' = [lpc EXCEPT ![l] = IF rs = {} THEN "sleep" ELSE "idle"]
    /\ UNCHANGED <<fetched, defined, apc, cpc, clientVars, storeVars, postVars>>

\* ListPendingRequests registers the backend as seen while it queries.
ListQuery(l) == ListResult(l) /\ tracker' = "fresh" /\ UNCHANGED faults

\* Registering the backend fails, which is only logged.
ListUnseen(l) == ListResult(l) /\ Fault /\ UNCHANGED tracker

\* The query fails, which is only logged as well.
ListQueryFail(l) ==
    /\ lpc[l] \in {"query", "sleep"}
    /\ Fault
    /\ tracker' = "fresh"
    /\ lpc' = [lpc EXCEPT ![l] = "sleep"]
    /\ UNCHANGED <<batch, known, fetched, defined, apc, cpc, clientVars, storeVars, postVars>>

\* requestsWaitTimeout: an empty list.
ListTimeout(l) ==
    /\ lpc[l] = "sleep"
    /\ lpc' = [lpc EXCEPT ![l] = "idle"]
    /\ UNCHANGED <<batch, known, fetched, clientVars, storeVars, regVars, postVars, faults>>

-----------------------------------------------------------------------------
(* requestHandler *)

GetRequest(r) ==
    /\ r \in known \ fetched
    /\ Allowed
    /\ MayFind(r, memReq, Stored)
    /\ fetched' = fetched \cup {r}
    /\ UNCHANGED <<lpc, batch, known, clientVars, storeVars, regVars, postVars, faults>>

-----------------------------------------------------------------------------
(* responseHandler *)

Reply(p, reply) == ppc' = [ppc EXCEPT ![p] = [resp |-> "done", req |-> "done", reply |-> reply]]

\* parseResponse reads the whole body, or fails.
PostStart(p, r) ==
    /\ ppc[p].resp = "new"
    /\ \A q \in 1 .. p - 1 : ppc[q].resp # "new"
    /\ r \in fetched
    /\ target' = [target EXCEPT ![p] = r]
    /\ \/ Reply(p, "error")
       \/ Allowed /\ ppc' = [ppc EXCEPT ![p].resp = "read"]
    /\ UNCHANGED <<errs, clientVars, storeVars, regVars, agentVars, faults>>

\* postResponse: ReadRequest, then two goroutines.
PostRead(p) ==
    /\ ppc[p].resp = "read"
    /\ \/ /\ MayFind(target[p], memReq, Stored)
          /\ ppc' = [ppc EXCEPT ![p].resp = "mem", ![p].req = "put"]
          /\ UNCHANGED faults
       \/ MayMiss(target[p], Stored) /\ Reply(p, "error") /\ UNCHANGED faults
       \/ Fault /\ Reply(p, "error")
    /\ UNCHANGED <<target, errs, clientVars, storeVars, regVars, agentVars>>

\* One of them: WriteResponse, first to memcache, ...
RespMem(p) ==
    /\ ppc[p].resp = "mem"
    /\ ppc' = [ppc EXCEPT ![p].resp = "put"]
    /\ memResp' = memResp \cup {target[p]}
    /\ UNCHANGED <<target, errs, memReq, dbReq, dbResp, old, clientVars, regVars, agentVars, faults>>

\* ... then to the datastore.
RespPut(p) ==
    /\ ppc[p].resp = "put"
    /\ ppc' = [ppc EXCEPT ![p].resp = "done"]
    /\ dbResp' = dbResp \cup {target[p]}
    /\ UNCHANGED <<target, errs, memReq, dbReq, memResp, old, clientVars, regVars, agentVars, faults>>

RespPutFail(p) ==
    /\ ppc[p].resp = "put"
    /\ Fault
    /\ ppc' = [ppc EXCEPT ![p].resp = "failed"]
    /\ UNCHANGED <<target, errs, storeVars, clientVars, regVars, agentVars>>

\* The other: WriteRequest with Completed set.
ReqPut(p) ==
    /\ ppc[p].req = "put"
    /\ ppc' = [ppc EXCEPT ![p].req = "done"]
    /\ memReq' = memReq \cup {target[p]}
    /\ dbReq' = [dbReq EXCEPT ![target[p]] = "completed"]
    /\ UNCHANGED <<target, errs, memResp, dbResp, old, clientVars, regVars, agentVars, faults>>

ReqPutFail(p) ==
    /\ ppc[p].req = "put"
    /\ Fault
    /\ ppc' = [ppc EXCEPT ![p].req = "failed"]
    /\ memReq' = memReq \cup {target[p]}
    /\ UNCHANGED <<target, errs, dbReq, memResp, dbResp, old, clientVars, regVars, agentVars>>

\* errChan <- err, which waits while the channel is full.
SendError(p, side) ==
    /\ ppc[p][side] = "failed"
    /\ errs[p] < ErrCap
    /\ errs' = [errs EXCEPT ![p] = @ + 1]
    /\ ppc' = [ppc EXCEPT ![p][side] = "done"]
    /\ UNCHANGED <<target, storeVars, clientVars, regVars, agentVars, faults>>

\* wg.Wait returns: status 404 if there was an error, 200 otherwise.
PostReply(p) ==
    /\ ppc[p] = [resp |-> "done", req |-> "done", reply |-> None]
    /\ Reply(p, IF errs[p] > 0 THEN "error" ELSE "ok")
    /\ UNCHANGED <<target, errs, clientVars, storeVars, regVars, agentVars, faults>>

-----------------------------------------------------------------------------
(* addBackendHandler and deleteBackendHandler *)

\* AddBackend writes the tracker, 5 minutes old, and then the definition.
AddTracker ==
    /\ apc = "idle"
    /\ apc' = "adding"
    /\ tracker' = "stale"
    /\ UNCHANGED <<defined, cpc, clientVars, storeVars, agentVars, postVars, faults>>

AddDefinition ==
    /\ apc = "adding"
    /\ apc' = "idle"
    /\ defined' = TRUE
    /\ UNCHANGED <<tracker, cpc, clientVars, storeVars, agentVars, postVars, faults>>

\* DeleteBackend: a transaction for the definition and the tracker, then the
\* requests that have started.
DropBackend == defined' = FALSE /\ tracker' = None

AdminDelete ==
    /\ apc = "idle"
    /\ ~BackendStays
    /\ apc' = "deleting"
    /\ DropBackend
    /\ UNCHANGED <<cpc, clientVars, storeVars, agentVars, postVars, faults>>

AdminSweep ==
    /\ apc = "deleting"
    /\ apc' = "idle"
    /\ DropRequests(Requests)
    /\ UNCHANGED <<defined, tracker, cpc, memReq, memResp, dbResp, old, clientVars, agentVars,
                   postVars, faults>>

\* An operation fails: the handler answers with status 500.
AdminAbort ==
    /\ apc # "idle"
    /\ Fault
    /\ apc' = "idle"
    /\ UNCHANGED <<defined, tracker, cpc, clientVars, storeVars, agentVars, postVars>>

-----------------------------------------------------------------------------
(* deleteHandler *)

\* DeleteOldBackends
CronStart ==
    /\ cpc = "idle"
    /\ IF tracker = "expired"
       THEN cpc' = "sweep" /\ DropBackend
       ELSE cpc' = "requests" /\ UNCHANGED <<defined, tracker>>
    /\ UNCHANGED <<apc, clientVars, storeVars, agentVars, postVars, faults>>

CronSweep ==
    /\ cpc = "sweep"
    /\ cpc' = "requests"
    /\ DropRequests(Requests)
    /\ UNCHANGED <<defined, tracker, apc, memReq, memResp, dbResp, old, clientVars, agentVars,
                   postVars, faults>>

\* DeleteOldRequests: the requests of the backends seen in the last hour, ...
CronRequests ==
    /\ cpc = "requests"
    /\ cpc' = "responses"
    /\ DropRequests(IF Recent THEN old ELSE {})
    /\ UNCHANGED <<defined, tracker, apc, memReq, memResp, dbResp, old, clientVars, agentVars,
                   postVars, faults>>

\* ... and some of the responses.  newStoredResponse leaves StartTime at its zero
\* value, so every stored response is older than the cutoff.
CronResponses ==
    /\ cpc = "responses"
    /\ cpc' = "idle"
    /\ \E rs \in Limit(dbResp, DeleteLimit) : dbResp' = dbResp \ rs
    /\ UNCHANGED <<defined, tracker, apc, memReq, dbReq, memResp, old, clientVars, agentVars,
                   postVars, faults>>

\* An operation fails: the job returns.
CronAbort ==
    /\ cpc # "idle"
    /\ Fault
    /\ cpc' = "idle"
    /\ UNCHANGED <<defined, tracker, apc, clientVars, storeVars, agentVars, postVars>>

-----------------------------------------------------------------------------
(* Time *)

\* A handler waits for 30 seconds and is gone long before its request is old.
Age(r) ==
    /\ r \notin old
    /\ hpc[r] \notin {"start", "put", "wait"}
    /\ old' = old \cup {r}
    /\ UNCHANGED <<memReq, dbReq, memResp, dbResp, clientVars, regVars, agentVars, postVars, faults>>

TrackerAges ==
    /\ \/ tracker = "fresh" /\ tracker' = "stale"
       \/ tracker = "stale" /\ ~BackendStays /\ tracker' = "expired"
    /\ UNCHANGED <<defined, apc, cpc, clientVars, storeVars, agentVars, postVars, faults>>

-----------------------------------------------------------------------------
ListStep(l) == ListStart(l) \/ ListQuery(l)

PostStep(p) ==
    \/ PostRead(p) \/ PostReply(p)
    \/ RespMem(p) \/ RespPut(p) \/ RespPutFail(p)
    \/ ReqPut(p) \/ ReqPutFail(p)
    \/ \E side \in {"resp", "req"} : SendError(p, side)

CronStep == CronStart \/ CronSweep \/ CronRequests \/ CronResponses

Next ==
    \/ \E r \in Requests :
         \/ ClientStart(r) \/ ClientStartFail(r) \/ ClientPut(r) \/ ClientPutFail(r)
         \/ ClientRead(r) \/ ClientReadMalformed(r) \/ ClientTimeout(r)
         \/ GetRequest(r) \/ Age(r)
    \/ \E l \in Lists : ListStep(l) \/ ListUnseen(l) \/ ListQueryFail(l) \/ ListTimeout(l)
    \/ \E p \in Posts, r \in Requests : PostStart(p, r)
    \/ \E p \in Posts : PostStep(p)
    \/ AddTracker \/ AddDefinition \/ AdminDelete \/ AdminSweep \/ AdminAbort
    \/ CronStep \/ CronAbort \/ TrackerAges

Spec == Init /\ [][Next]_vars

(***************************************************************************)
(* Fairness: handlers go on, an agent polls again and again, and the cron  *)
(* job runs every 5 minutes (cron.yaml).                                   *)
(***************************************************************************)
FairSpec ==
    /\ Spec
    /\ \A l \in Lists : WF_vars(ListStep(l))
    /\ \A p \in Posts : WF_vars(PostStep(p))
    /\ WF_vars(CronStep)

-----------------------------------------------------------------------------
(* Properties *)

TypeOK ==
    /\ hpc \in [Requests -> {"start", "put", "wait", "ok", "timeout", "error", "nobackend"}]
    /\ answer \in [Requests -> Requests \cup {None}]
    /\ memReq \subseteq Requests /\ memResp \subseteq Requests /\ dbResp \subseteq Requests
    /\ dbReq \in [Requests -> {None, "pending", "completed"}]
    /\ page \in Cacheable \cup {None}
    /\ old \subseteq Requests
    /\ defined \in BOOLEAN
    /\ tracker \in {None, "fresh", "stale", "expired"}
    /\ lpc \in [Lists -> {"idle", "query", "sleep"}]
    /\ batch \in [Lists -> SUBSET known]
    /\ known \subseteq Requests /\ fetched \subseteq known
    /\ ppc \in [Posts -> [resp : {"new", "read", "mem", "put", "failed", "done"},
                          req : {"new", "put", "failed", "done"},
                          reply : {None, "ok", "error"}]]
    /\ target \in [Posts -> fetched \cup {None}]
    /\ errs \in [Posts -> 0 .. ErrCap]
    /\ apc \in {"idle", "adding", "deleting"}
    /\ cpc \in {"idle", "sweep", "requests", "responses"}
    /\ faults \in 0 .. MaxFaults

\* A client gets the response that was posted for its own request, through two
\* caches and a store that handlers of different processes write in any order.
\* Only a GET that was never forwarded may get one that was posted for an equal
\* GET.
AnswerMatches ==
    \A r \in Requests :
        hpc[r] = "ok" =>
            /\ answer[r] = r \/ ({r, answer[r]} \subseteq Cacheable /\ r \notin memReq)
            /\ \E p \in Posts : target[p] = answer[r] /\ ppc[p].req # "new"

\* A response that was acknowledged with status 200 is never asked for again:
\* its request is not among the pending ones, whatever the cron job, a deletion
\* of the backend or a second response call did meanwhile.
AckedNotPending ==
    \A p \in Posts : ppc[p].reply = "ok" => target[p] \notin Pending

\* DeleteOldRequests never takes the request of a client that still waits; only
\* the deletion of the backend does.
WaitingKept ==
    [][\A r \in Requests :
         hpc[r] = "wait" /\ dbReq[r] # None /\ dbReq'[r] = None =>
             apc = "deleting" \/ cpc = "sweep"]_vars

\* Both writes of a response call have failed; notFoundErrs has room for one.
BothFailed(p) == errs[p] = ErrCap /\ "failed" \in {ppc[p].resp, ppc[p].req}

\* A response call returns unless both of its writes fail.
PostReturns ==
    \A p \in Posts : ppc[p].resp = "read" ~> ppc[p].reply # None \/ BothFailed(p)

\* More requests are pending than one query returns.
Backlog == Cardinality(Pending) > ListLimit

\* A pending request is listed again and again until it is completed or gone:
\* a list reply or an agent that gets lost does not lose the client.  While there
\* is a backlog the query may return others.
ListedAgain ==
    \A r \in Requests :
        []<>(r \notin Pending \/ ~defined \/ Backlog \/ \E l \in Lists : r \in batch[l])

\* A request that is old is deleted from the datastore, as long as its backend
\* has been seen within the last hour.
OldRequestsDeleted ==
    \A r \in Requests : r \in old /\ dbReq[r] # None ~> dbReq[r] = None \/ ~Recent

\* store.go says of DeleteOldRequests that it "deletes from the datastore any
\* requests older than 2 minutes": a stored response goes only with an old
\* request.
FreshResponsesKept ==
    [][\A r \in Requests : r \in dbResp /\ r \notin dbResp' => r \in old]_vars
=============================================================================
