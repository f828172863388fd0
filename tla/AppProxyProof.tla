--------------------------- MODULE AppProxyProof ---------------------------
(***************************************************************************)
(* The App Engine proxy, for any number of client requests, agents,        *)
(* response calls and datastore failures: what clients are given was       *)
(* posted for their own request or an equal GET, what an agent was told is *)
(* stored is never listed again, and the cron job takes no request that a  *)
(* client waits for.                                                       *)
(***************************************************************************)
EXTENDS AppProxy, TLAPS

\* A request that its handler has not written is nowhere in the store, and no
\* agent has heard of it.
Unwritten ==
    \A r \in Requests :
        hpc[r] \in {"start", "put"} => dbReq[r] = None /\ r \notin known /\ r \notin memReq

\* What is stored, or an agent has heard of, went through memcache.
Announced == \A r \in Requests : dbReq[r] # None \/ r \in known => r \in memReq

\* A request is not old before its handler has returned.
YoungWhileServed == \A r \in old : hpc[r] \notin {"start", "put", "wait"}

\* The two goroutines of a response call start together, after postResponse has
\* read the request, and the call replies when both have ended.
PostSteps ==
    \A p \in Posts :
        /\ ppc[p].resp \in {"new", "read"} => ppc[p].req = "new" /\ ppc[p].reply = None
        /\ ppc[p].resp \notin {"new", "read"} => ppc[p].req # "new"
        /\ ppc[p].resp # "new" => target[p] \in fetched
        /\ ppc[p].reply # None => ppc[p].resp = "done" /\ ppc[p].req = "done"
        /\ ppc[p].reply = "ok" => errs[p] = 0

\* Somebody posted a response for r, and it was parsed.
PostedFor(r) == \E p \in Posts : target[p] = r /\ ppc[p].req # "new"

\* Whatever a client can be given was posted.
Sources ==
    /\ \A r \in memResp \cup dbResp : PostedFor(r)
    /\ page # None => PostedFor(page)

\* The request of a call that has marked it completed, with no error, does not
\* become pending again.
MarkedCompleted ==
    \A p \in Posts :
        ppc[p].req = "done" /\ ppc[p].reply # "error" /\ errs[p] = 0 => target[p] \notin Pending

IndInv ==
    /\ TypeOK /\ Unwritten /\ Announced /\ YoungWhileServed /\ PostSteps /\ Sources /\ MarkedCompleted
    /\ AnswerMatches

\* A record of the table of response calls.
Records ==
    [resp : {"new", "read", "mem", "put", "failed", "done"},
     req : {"new", "put", "failed", "done"},
     reply : {None, "ok", "error"}]

-----------------------------------------------------------------------------
\* The initial state satisfies the invariant.
LEMMA InitInv == Init => IndInv
<1> SUFFICES ASSUME Init PROVE IndInv
  OBVIOUS
<1>1. TypeOK
  <2>1. ppc \in [Posts -> Records]
    BY DEF Init, Records
  <2>2. errs \in [Posts -> 0 .. ErrCap] /\ faults \in 0 .. MaxFaults
    BY BoundsAssumption DEF Init, ErrCap
  <2>3. defined \in BOOLEAN
    BY DEF Init
  <2> QED BY <2>1, <2>2, <2>3 DEF Init, TypeOK, Records
<1>2. Unwritten /\ Announced /\ YoungWhileServed
  BY DEF Init, Unwritten, Announced, YoungWhileServed
<1>3. PostSteps /\ Sources /\ MarkedCompleted
  BY NoneAssumption DEF Init, PostSteps, Sources, MarkedCompleted, PostedFor, Pending
<1>4. AnswerMatches
  BY DEF Init, AnswerMatches
<1> QED BY <1>1, <1>2, <1>3, <1>4 DEF IndInv

\* What was posted stays posted: a call keeps its target once it has one.
LEMMA PostedForever ==
  ASSUME NEW r,
         \A p \in Posts : ppc[p].req # "new" => ppc'[p].req # "new" /\ target'[p] = target[p],
         PostedFor(r)
  PROVE PostedFor(r)'
BY DEF PostedFor

\* A step of a client's handler.
LEMMA ClientInv ==
  ASSUME IndInv, NEW r \in Requests,
         \/ ClientStart(r) \/ ClientStartFail(r) \/ ClientPut(r) \/ ClientPutFail(r)
         \/ ClientRead(r) \/ ClientReadMalformed(r) \/ ClientTimeout(r)
  PROVE IndInv'
<1> USE DEF clientVars, storeVars, regVars, agentVars, postVars
<1>1. /\ UNCHANGED <<memResp, dbResp, old, regVars, agentVars, postVars>>
      /\ hpc[r] \in {"start", "put", "wait"}
  BY DEF ClientStart, ClientStartFail, ClientPut, ClientPutFail, ClientRead, ClientReadMalformed,
    ClientTimeout
<1>2. /\ hpc' \in [Requests -> {"start", "put", "wait", "ok", "timeout", "error", "nobackend"}]
      /\ \A q \in Requests : q # r => hpc'[q] = hpc[q]
      /\ hpc'[r] # "start"
      /\ hpc'[r] \in {"put", "wait"} => hpc[r] \in {"start", "put"}
      /\ hpc'[r] = "put" => hpc[r] = "start" /\ dbReq' = dbReq /\ memReq' = memReq
  BY DEF ClientStart, ClientStartFail, ClientPut, ClientPutFail, ClientRead, ClientReadMalformed,
    ClientTimeout, IndInv, TypeOK
<1>3. /\ answer' \in [Requests -> Requests \cup {None}]
      /\ page' \in Cacheable \cup {None}
      /\ memReq' \subseteq Requests
      /\ dbReq' \in [Requests -> {None, "pending", "completed"}]
  BY CacheableAssumption DEF ClientStart, ClientStartFail, ClientPut, ClientPutFail, ClientRead,
    ClientReadMalformed, ClientTimeout, IndInv, TypeOK
<1>4. faults' \in 0 .. MaxFaults
  BY BoundsAssumption DEF ClientStart, ClientStartFail, ClientPut, ClientPutFail, ClientRead,
    ClientReadMalformed, ClientTimeout, Fault, IndInv, TypeOK
<1>5. TypeOK'
  BY <1>1, <1>2, <1>3, <1>4 DEF IndInv, TypeOK
<1>6. Unwritten'
  <2>1. \A q \in Requests : q # r => dbReq'[q] = dbReq[q] /\ (q \in memReq' <=> q \in memReq)
    BY DEF ClientStart, ClientStartFail, ClientPut, ClientPutFail, ClientRead, ClientReadMalformed,
      ClientTimeout, IndInv, TypeOK
  <2> QED BY <1>1, <1>2, <2>1 DEF IndInv, Unwritten
<1>12. Announced'
  <2>1. memReq \subseteq memReq' /\ (dbReq' = dbReq \/ (dbReq' = [dbReq EXCEPT ![r] = "pending"] /\ r \in memReq'))
    BY DEF ClientStart, ClientStartFail, ClientPut, ClientPutFail, ClientRead, ClientReadMalformed,
      ClientTimeout
  <2> QED BY <1>1, <2>1 DEF IndInv, Announced, TypeOK
<1>7. YoungWhileServed'
  BY <1>1, <1>2 DEF IndInv, YoungWhileServed, TypeOK
<1>8. PostSteps'
  BY <1>1 DEF IndInv, PostSteps
<1>9. Sources'
  <2>1. page' = page \/ (page' = r /\ r \in memResp \cup dbResp)
    BY DEF ClientStart, ClientStartFail, ClientPut, ClientPutFail, ClientRead, ClientReadMalformed,
      ClientTimeout, MayFind
  <2> QED BY <1>1, <2>1 DEF IndInv, Sources, PostedFor
<1>10. MarkedCompleted'
  <2>1. ASSUME NEW q \in Requests, dbReq'[q] = "pending" PROVE dbReq[q] = "pending" \/ q \notin known
    BY <2>1 DEF ClientStart, ClientStartFail, ClientPut, ClientPutFail, ClientRead,
      ClientReadMalformed, ClientTimeout, IndInv, TypeOK, Unwritten
  <2>2. \A p \in Posts : ppc[p].req = "done" => target[p] \in known
    BY DEF IndInv, PostSteps, TypeOK
  <2> QED BY <1>1, <2>1, <2>2 DEF IndInv, MarkedCompleted, Pending
<1>11. AnswerMatches'
  <2>1. ASSUME NEW q \in Requests, hpc'[q] = "ok"
        PROVE /\ answer'[q] = q \/ ({q, answer'[q]} \subseteq Cacheable /\ q \notin memReq')
              /\ PostedFor(answer'[q])
    <3>1. CASE q # r
      <4>1. answer'[q] = answer[q] /\ (q \in memReq' <=> q \in memReq)
        BY <3>1 DEF ClientStart, ClientStartFail, ClientPut, ClientPutFail, ClientRead,
          ClientReadMalformed, ClientTimeout, IndInv, TypeOK
      <4> QED BY <2>1, <3>1, <4>1, <1>2 DEF IndInv, AnswerMatches, PostedFor
    <3>2. CASE q = r /\ ClientRead(r)
      BY <3>2 DEF ClientRead, MayFind, IndInv, TypeOK, Sources
    <3>3. CASE q = r /\ ClientStart(r)
      <4>1. r \in Cacheable /\ page # None /\ answer'[r] = page /\ r \notin memReq /\ memReq' = memReq
        BY <2>1, <3>3 DEF ClientStart, IndInv, TypeOK, Unwritten
      <4> QED BY <3>3, <4>1 DEF IndInv, TypeOK, Sources
    <3>4. CASE q = r /\ ~ClientRead(r) /\ ~ClientStart(r)
      BY <2>1, <3>4 DEF ClientStartFail, ClientPut, ClientPutFail, ClientReadMalformed, ClientTimeout,
        IndInv, TypeOK
    <3> QED BY <3>1, <3>2, <3>3, <3>4
  <2> QED BY <1>1, <2>1 DEF AnswerMatches, PostedFor
<1> QED BY <1>5, <1>6, <1>7, <1>8, <1>9, <1>10, <1>11, <1>12 DEF IndInv

\* A step of an agent's list or read call.
LEMMA AgentInv ==
  ASSUME IndInv,
         \/ \E l \in Lists : ListStep(l) \/ ListUnseen(l) \/ ListQueryFail(l) \/ ListTimeout(l)
         \/ \E r \in Requests : GetRequest(r)
  PROVE IndInv'
<1> USE DEF clientVars, storeVars, regVars, agentVars, postVars
<1>1. UNCHANGED <<clientVars, storeVars, postVars, defined, apc, cpc>>
  BY DEF ListStep, ListStart, ListQuery, ListUnseen, ListResult, Limit, ListQueryFail, ListTimeout, GetRequest
<1>2. known \subseteq known' /\ known' \subseteq known \cup Pending /\ fetched \subseteq fetched'
  BY DEF ListStep, ListStart, ListQuery, ListUnseen, ListResult, Limit, ListQueryFail, ListTimeout, GetRequest
<1>3. fetched' \subseteq known' /\ known' \subseteq Requests
  BY <1>2 DEF ListStep, ListStart, ListQuery, ListUnseen, ListResult, Limit, ListQueryFail, ListTimeout,
    GetRequest, IndInv, TypeOK, Pending
<1>4. batch' \in [Lists -> SUBSET known']
  BY <1>2 DEF ListStep, ListStart, ListQuery, ListUnseen, ListResult, Limit, ListQueryFail, ListTimeout,
    GetRequest, IndInv, TypeOK
<1>5. /\ lpc' \in [Lists -> {"idle", "query", "sleep"}]
      /\ tracker' \in {None, "fresh", "stale", "expired"}
  BY DEF ListStep, ListStart, ListQuery, ListUnseen, ListResult, Limit, ListQueryFail, ListTimeout,
    GetRequest, IndInv, TypeOK
<1>6. faults' \in 0 .. MaxFaults
  BY BoundsAssumption DEF ListStep, ListStart, ListQuery, ListUnseen, ListResult, Limit, ListQueryFail,
    ListTimeout, GetRequest, Fault, IndInv, TypeOK
<1>7. TypeOK'
  BY <1>1, <1>2, <1>3, <1>4, <1>5, <1>6 DEF IndInv, TypeOK
<1>8. Unwritten' /\ Announced'
  BY <1>1, <1>2, NoneAssumption DEF IndInv, Unwritten, Announced, Pending
<1>9. YoungWhileServed' /\ PostSteps'
  BY <1>1, <1>2 DEF IndInv, YoungWhileServed, PostSteps
<1>10. Sources' /\ MarkedCompleted' /\ AnswerMatches'
  BY <1>1 DEF IndInv, Sources, PostedFor, MarkedCompleted, Pending, AnswerMatches
<1> QED BY <1>7, <1>8, <1>9, <1>10 DEF IndInv

\* A step of the administrator, of the cron job, or of time.
LEMMA MaintenanceInv ==
  ASSUME IndInv,
         \/ \E r \in Requests : Age(r)
         \/ AddTracker \/ AddDefinition \/ AdminDelete \/ AdminSweep \/ AdminAbort
         \/ CronStep \/ CronAbort \/ TrackerAges
  PROVE IndInv'
<1> USE DEF clientVars, storeVars, regVars, agentVars, postVars
<1>1. UNCHANGED <<clientVars, agentVars, postVars, memReq, memResp>>
  BY DEF Age, AddTracker, AddDefinition, AdminDelete, AdminSweep, AdminAbort, CronStep, CronStart,
    CronSweep, CronRequests, CronResponses, CronAbort, TrackerAges
<1>2. /\ dbReq' \in [Requests -> {None, "pending", "completed"}]
      /\ \A r \in Requests : dbReq'[r] = dbReq[r] \/ dbReq'[r] = None
  BY DEF Age, AddTracker, AddDefinition, AdminDelete, AdminSweep, AdminAbort, CronStep, CronStart,
    CronSweep, CronRequests, CronResponses, CronAbort, TrackerAges, DropRequests, IndInv, TypeOK
<1>3. dbResp' \subseteq dbResp
  BY DEF Age, AddTracker, AddDefinition, AdminDelete, AdminSweep, AdminAbort, CronStep, CronStart,
    CronSweep, CronRequests, CronResponses, CronAbort, TrackerAges
<1>4. old' \subseteq Requests /\ YoungWhileServed'
  BY <1>1 DEF Age, AddTracker, AddDefinition, AdminDelete, AdminSweep, AdminAbort, CronStep, CronStart,
    CronSweep, CronRequests, CronResponses, CronAbort, TrackerAges, IndInv, TypeOK, YoungWhileServed
<1>5. /\ tracker' \in {None, "fresh", "stale", "expired"}
      /\ apc' \in {"idle", "adding", "deleting"}
      /\ cpc' \in {"idle", "sweep", "requests", "responses"}
  BY DEF Age, AddTracker, AddDefinition, AdminDelete, AdminSweep, AdminAbort, CronStep, CronStart,
    CronSweep, CronRequests, CronResponses, CronAbort, TrackerAges, DropBackend, IndInv, TypeOK
<1>6. defined' \in BOOLEAN
  BY DEF Age, AddTracker, AddDefinition, AdminDelete, AdminSweep, AdminAbort, CronStep, CronStart,
    CronSweep, CronRequests, CronResponses, CronAbort, TrackerAges, DropBackend, IndInv, TypeOK
<1>7. faults' \in 0 .. MaxFaults
  BY BoundsAssumption DEF Age, AddTracker, AddDefinition, AdminDelete, AdminSweep, AdminAbort,
    CronStep, CronStart, CronSweep, CronRequests, CronResponses, CronAbort, TrackerAges, Fault,
    IndInv, TypeOK
<1>8. TypeOK'
  BY <1>1, <1>2, <1>3, <1>4, <1>5, <1>6, <1>7 DEF IndInv, TypeOK
<1>9. Unwritten' /\ Announced' /\ PostSteps' /\ Sources' /\ AnswerMatches'
  BY <1>1, <1>2, <1>3 DEF IndInv, Unwritten, Announced, PostSteps, Sources, PostedFor, AnswerMatches
<1>10. MarkedCompleted'
  BY <1>1, <1>2, NoneAssumption DEF IndInv, MarkedCompleted, Pending
<1> QED BY <1>4, <1>8, <1>9, <1>10 DEF IndInv

\* A response call arrives.
LEMMA PostStartInv ==
  ASSUME IndInv, NEW p \in Posts, NEW r \in Requests, PostStart(p, r)
  PROVE IndInv'
<1> USE DEF clientVars, storeVars, regVars, agentVars, postVars
<1>1. ppc \in [Posts -> Records] /\ ppc[p].resp = "new" /\ ppc[p].req = "new" /\ ppc[p].reply = None
  BY DEF IndInv, TypeOK, Records, PostStart, PostSteps
<1>2. PICK rec \in {[resp |-> "done", req |-> "done", reply |-> "error"],
                    [ppc[p] EXCEPT !.resp = "read"]} :
         ppc' = [ppc EXCEPT ![p] = rec]
  BY <1>1 DEF PostStart, Reply, Records
<1>3. /\ rec \in Records
      /\ \/ rec.resp = "read" /\ rec.req = "new" /\ rec.reply = None
         \/ rec.resp = "done" /\ rec.req = "done" /\ rec.reply = "error"
  BY <1>1, <1>2 DEF Records
<1>4. ppc' \in [Posts -> Records] /\ ppc'[p] = rec /\ \A q \in Posts : q # p => ppc'[q] = ppc[q]
  BY <1>1, <1>2, <1>3
<1>5. /\ UNCHANGED <<errs, clientVars, storeVars, regVars, agentVars, faults>>
      /\ r \in fetched
      /\ target' = [target EXCEPT ![p] = r]
  BY DEF PostStart
<1>6. /\ target' \in [Posts -> fetched \cup {None}]
      /\ target'[p] = r
      /\ \A q \in Posts : q # p => target'[q] = target[q]
  BY <1>5 DEF IndInv, TypeOK
<1>7. TypeOK'
  BY <1>4, <1>5, <1>6 DEF IndInv, TypeOK, Records
<1>8. Unwritten' /\ Announced' /\ YoungWhileServed'
  BY <1>5 DEF IndInv, Unwritten, Announced, YoungWhileServed
<1>9. PostSteps'
  BY <1>3, <1>4, <1>5, <1>6, NoneAssumption DEF IndInv, PostSteps
<1>10. \A q \in Posts : ppc[q].req # "new" => ppc'[q].req # "new" /\ target'[q] = target[q]
  BY <1>1, <1>4, <1>6
<1>11. Sources' /\ AnswerMatches'
  BY <1>5, <1>10, PostedForever DEF IndInv, Sources, AnswerMatches, PostedFor
<1>12. MarkedCompleted'
  BY <1>3, <1>4, <1>5, <1>6 DEF IndInv, MarkedCompleted, Pending
<1> QED BY <1>7, <1>8, <1>9, <1>11, <1>12 DEF IndInv

\* What one of the two goroutines of a response call, or the call itself, does
\* to its own entry.
LEMMA PostEntry ==
  ASSUME IndInv, NEW p \in Posts, PostStep(p)
  PROVE /\ ppc[p].resp # "new" /\ ppc[p].reply = None
        /\ ppc' \in [Posts -> Records]
        /\ \A q \in Posts : q # p => ppc'[q] = ppc[q] /\ errs'[q] = errs[q]
        /\ ppc'[p].resp \notin {"new", "read"} /\ ppc'[p].req # "new"
        /\ errs' \in [Posts -> 0 .. ErrCap]
        /\ ppc'[p].reply # None => ppc'[p].resp = "done" /\ ppc'[p].req = "done"
        /\ ppc'[p].reply = "ok" => errs'[p] = 0
        /\ ppc'[p].req = "done" /\ ppc'[p].reply # "error" /\ errs'[p] = 0 =>
              ReqPut(p) \/ (ppc[p].req = "done" /\ errs[p] = 0)
<1>1. ppc \in [Posts -> Records] /\ errs \in [Posts -> 0 .. ErrCap]
  BY DEF IndInv, TypeOK, Records
<1>2. CASE PostRead(p)
  <2>1. /\ ppc[p].resp = "read" /\ ppc[p].req = "new" /\ ppc[p].reply = None
        /\ errs' = errs
    BY <1>2 DEF PostRead, IndInv, PostSteps
  <2>2. PICK rec \in {[resp |-> "mem", req |-> "put", reply |-> None],
                      [resp |-> "done", req |-> "done", reply |-> "error"]} :
           ppc' = [ppc EXCEPT ![p] = rec]
    <3>1. ppc[p] = [resp |-> "read", req |-> "new", reply |-> None]
      BY <1>1, <2>1 DEF Records
    <3> QED BY <1>1, <1>2, <3>1 DEF PostRead, Reply
  <2>3. rec \in Records /\ ppc'[p] = rec /\ \A q \in Posts : q # p => ppc'[q] = ppc[q]
    BY <1>1, <2>2 DEF Records
  <2> QED BY <1>1, <2>1, <2>2, <2>3, NoneAssumption
<1>3. CASE PostReply(p)
  <2> DEFINE reply == IF errs[p] > 0 THEN "error" ELSE "ok"
             rec   == [resp |-> "done", req |-> "done", reply |-> reply]
  <2>1. /\ ppc[p].resp = "done" /\ ppc[p].req = "done" /\ ppc[p].reply = None
        /\ errs' = errs /\ ppc' = [ppc EXCEPT ![p] = rec]
    BY <1>3 DEF PostReply, Reply
  <2>2. rec \in Records
    BY DEF Records
  <2>3. ppc'[p] = rec /\ \A q \in Posts : q # p => ppc'[q] = ppc[q]
    BY <1>1, <2>1
  <2>4. errs[p] \in Nat /\ (reply = "ok" => errs[p] = 0)
    BY <1>1 DEF ErrCap
  <2>5. ppc' \in [Posts -> Records]
    BY <1>1, <2>1, <2>2
  <2> QED BY <1>1, <2>1, <2>3, <2>4, <2>5, NoneAssumption
<1>4. CASE RespMem(p) \/ RespPut(p) \/ RespPutFail(p)
  <2>1. PICK step \in {"put", "failed", "done"} : ppc' = [ppc EXCEPT ![p].resp = step]
    BY <1>4 DEF RespMem, RespPut, RespPutFail
  <2>2. ppc[p].resp \in {"mem", "put"} /\ errs' = errs
    BY <1>4 DEF RespMem, RespPut, RespPutFail
  <2>3. ppc[p].req # "new" /\ ppc[p].reply = None
    BY <2>2 DEF IndInv, PostSteps
  <2>4. /\ ppc' \in [Posts -> Records] /\ \A q \in Posts : q # p => ppc'[q] = ppc[q]
        /\ ppc'[p].resp = step /\ ppc'[p].req = ppc[p].req /\ ppc'[p].reply = ppc[p].reply
    BY <1>1, <2>1 DEF Records
  <2> QED BY <1>1, <2>2, <2>3, <2>4, NoneAssumption
<1>5. CASE ReqPut(p) \/ ReqPutFail(p)
  <2>1. PICK step \in {"failed", "done"} :
           /\ ppc' = [ppc EXCEPT ![p].req = step]
           /\ step = "done" => ReqPut(p)
    BY <1>5 DEF ReqPut, ReqPutFail
  <2>2. ppc[p].req = "put" /\ errs' = errs
    BY <1>5 DEF ReqPut, ReqPutFail
  <2>3. ppc[p].resp \notin {"new", "read"} /\ ppc[p].reply = None
    BY <2>2 DEF IndInv, PostSteps
  <2>4. /\ ppc' \in [Posts -> Records] /\ \A q \in Posts : q # p => ppc'[q] = ppc[q]
        /\ ppc'[p].req = step /\ ppc'[p].resp = ppc[p].resp /\ ppc'[p].reply = ppc[p].reply
    BY <1>1, <2>1 DEF Records
  <2> QED BY <1>1, <2>1, <2>2, <2>3, <2>4, NoneAssumption
<1>6. ASSUME NEW side \in {"resp", "req"}, SendError(p, side)
      PROVE /\ errs' \in [Posts -> 0 .. ErrCap] /\ errs'[p] # 0
            /\ \A q \in Posts : q # p => ppc'[q] = ppc[q] /\ errs'[q] = errs[q]
  BY <1>1, <1>6 DEF SendError, ErrCap
<1>7. CASE SendError(p, "resp")
  <2>1. ppc' = [ppc EXCEPT ![p].resp = "done"] /\ ppc[p].resp = "failed"
    BY <1>7 DEF SendError
  <2>2. ppc[p].req # "new" /\ ppc[p].reply = None
    BY <2>1 DEF IndInv, PostSteps
  <2>3. /\ ppc' \in [Posts -> Records]
        /\ ppc'[p].resp = "done" /\ ppc'[p].req = ppc[p].req /\ ppc'[p].reply = ppc[p].reply
    BY <1>1, <2>1 DEF Records
  <2> QED BY <1>6, <1>7, <2>1, <2>2, <2>3, NoneAssumption
<1>8. CASE SendError(p, "req")
  <2>1. ppc' = [ppc EXCEPT ![p].req = "done"] /\ ppc[p].req = "failed"
    BY <1>8 DEF SendError
  <2>2. ppc[p].resp \notin {"new", "read"} /\ ppc[p].reply = None
    BY <2>1 DEF IndInv, PostSteps
  <2>3. /\ ppc' \in [Posts -> Records]
        /\ ppc'[p].req = "done" /\ ppc'[p].resp = ppc[p].resp /\ ppc'[p].reply = ppc[p].reply
    BY <1>1, <2>1 DEF Records
  <2> QED BY <1>6, <1>8, <2>1, <2>2, <2>3, NoneAssumption
<1> QED BY <1>2, <1>3, <1>4, <1>5, <1>7, <1>8 DEF PostStep

\* A step of a response call.
LEMMA PostInv == ASSUME IndInv, NEW p \in Posts, PostStep(p) PROVE IndInv'
<1> USE DEF clientVars, storeVars, regVars, agentVars, postVars
<1>1. UNCHANGED <<clientVars, regVars, agentVars, target, old>>
  BY DEF PostStep, PostRead, PostReply, RespMem, RespPut, RespPutFail, ReqPut, ReqPutFail, SendError
<1>2. target[p] \in fetched /\ target[p] \in known /\ target[p] \in Requests
  BY PostEntry DEF IndInv, PostSteps, TypeOK
<1>3. /\ dbReq' \in [Requests -> {None, "pending", "completed"}]
      /\ \A r \in Requests : r # target[p] => dbReq'[r] = dbReq[r]
      /\ dbReq' # dbReq => dbReq'[target[p]] = "completed"
      /\ ReqPut(p) => dbReq'[target[p]] = "completed"
  BY <1>2 DEF PostStep, PostRead, PostReply, RespMem, RespPut, RespPutFail, ReqPut, ReqPutFail,
    SendError, IndInv, TypeOK
<1>4. /\ memReq' \subseteq Requests
      /\ memResp' \subseteq memResp \cup {target[p]}
      /\ dbResp' \subseteq dbResp \cup {target[p]}
  BY <1>2 DEF PostStep, PostRead, PostReply, RespMem, RespPut, RespPutFail, ReqPut, ReqPutFail,
    SendError, IndInv, TypeOK
<1>5. faults' \in 0 .. MaxFaults
  BY BoundsAssumption DEF PostStep, PostRead, PostReply, RespMem, RespPut, RespPutFail, ReqPut,
    ReqPutFail, SendError, Fault, IndInv, TypeOK
<1>6. TypeOK'
  <2>1. ppc' \in [Posts -> Records] /\ errs' \in [Posts -> 0 .. ErrCap]
    BY PostEntry
  <2> QED BY <1>1, <1>2, <1>3, <1>4, <1>5, <2>1 DEF IndInv, TypeOK, Records
<1>7. memReq' = memReq
  <2>1. target[p] \in memReq
    BY <1>2 DEF IndInv, Announced
  <2> QED BY <2>1 DEF PostStep, PostRead, PostReply, RespMem, RespPut, RespPutFail, ReqPut, ReqPutFail,
    SendError
<1>15. Unwritten' /\ Announced'
  BY <1>1, <1>2, <1>3, <1>7 DEF IndInv, Unwritten, Announced
<1>8. YoungWhileServed'
  BY <1>1 DEF IndInv, YoungWhileServed
<1>9. PostSteps'
  <2> SUFFICES ASSUME NEW q \in Posts
               PROVE /\ ppc'[q].resp \in {"new", "read"} => ppc'[q].req = "new" /\ ppc'[q].reply = None
                     /\ ppc'[q].resp \notin {"new", "read"} => ppc'[q].req # "new"
                     /\ ppc'[q].resp # "new" => target[q] \in fetched
                     /\ ppc'[q].reply # None => ppc'[q].resp = "done" /\ ppc'[q].req = "done"
                     /\ ppc'[q].reply = "ok" => errs'[q] = 0
    BY <1>1 DEF PostSteps
  <2>1. CASE q = p
    BY <1>2, <2>1, PostEntry
  <2>2. CASE q # p
    BY <2>2, PostEntry DEF IndInv, PostSteps
  <2> QED BY <2>1, <2>2
<1>10. \A q \in Posts : ppc[q].req # "new" => ppc'[q].req # "new" /\ target'[q] = target[q]
  BY <1>1, PostEntry
<1>11. PostedFor(target[p])'
  BY <1>1, PostEntry DEF PostedFor
<1>12. Sources'
  BY <1>1, <1>4, <1>10, <1>11, PostedForever DEF IndInv, Sources
<1>13. AnswerMatches'
  BY <1>1, <1>7, <1>10, PostedForever DEF IndInv, AnswerMatches, PostedFor
<1>14. MarkedCompleted'
  <2> SUFFICES ASSUME NEW q \in Posts, ppc'[q].req = "done", ppc'[q].reply # "error", errs'[q] = 0
               PROVE target[q] \notin Pending'
    BY <1>1 DEF MarkedCompleted
  <2>1. target[p] \in Pending' => target[p] \in Pending /\ dbReq' = dbReq
    BY <1>3 DEF Pending
  <2>2. CASE q = p
    BY <1>1, <1>3, <2>1, <2>2, PostEntry, NoneAssumption DEF IndInv, MarkedCompleted, Pending
  <2>3. CASE q # p
    <3>1. target[q] \notin Pending
      BY <2>3, PostEntry DEF IndInv, MarkedCompleted
    <3> QED BY <1>3, <2>1, <3>1 DEF Pending
  <2> QED BY <2>2, <2>3
<1> QED BY <1>6, <1>8, <1>9, <1>12, <1>13, <1>14, <1>15 DEF IndInv

\* Every step preserves the invariant.
LEMMA NextInv == IndInv /\ [Next]_vars => IndInv'
<1> SUFFICES ASSUME IndInv, [Next]_vars PROVE IndInv'
  OBVIOUS
<1>1. CASE UNCHANGED vars
  BY <1>1 DEF vars, clientVars, storeVars, regVars, agentVars, postVars, IndInv, TypeOK, Unwritten,
    Announced, YoungWhileServed, PostSteps, Sources, PostedFor, MarkedCompleted, Pending, AnswerMatches
<1> QED BY <1>1, ClientInv, AgentInv, MaintenanceInv, PostStartInv, PostInv DEF Next

-----------------------------------------------------------------------------
\* Every variable keeps its type: agents read only what they were told of, and
\* respond only to what they have read.
THEOREM TypeCorrect == Spec => []TypeOK
<1>1. IndInv => TypeOK
  BY DEF IndInv
<1> QED BY <1>1, InitInv, NextInv, PTL DEF Spec

\* Through memcache, the datastore and the page cache, a client is only given
\* what was posted for its own request or, for a GET that was not forwarded, for
\* an equal one.
THEOREM Matches == Spec => []AnswerMatches
<1>1. IndInv => AnswerMatches
  BY DEF IndInv
<1> QED BY <1>1, InitInv, NextInv, PTL DEF Spec

\* Once an agent got status 200 for a response, its request is not listed as
\* pending again, whatever other response calls, the cron job and the
\* administrator do.
THEOREM Acked == Spec => []AckedNotPending
<1>1. IndInv => AckedNotPending
  BY NoneAssumption DEF IndInv, PostSteps, MarkedCompleted, AckedNotPending
<1> QED BY <1>1, InitInv, NextInv, PTL DEF Spec

\* DeleteOldRequests leaves the request of a client that still waits alone.
THEOREM Kept == Spec => WaitingKept
<1>1. IndInv /\ [Next]_vars =>
        [\A r \in Requests :
            hpc[r] = "wait" /\ dbReq[r] # None /\ dbReq'[r] = None =>
                apc = "deleting" \/ cpc = "sweep"]_vars
  <2> SUFFICES ASSUME IndInv, Next, NEW r \in Requests,
                      hpc[r] = "wait", dbReq[r] # None, dbReq'[r] = None
               PROVE apc = "deleting" \/ cpc = "sweep"
    OBVIOUS
  <2> USE DEF storeVars, clientVars, regVars, agentVars, postVars
  <2>1. ASSUME NEW q \in Requests,
               \/ ClientStart(q) \/ ClientStartFail(q) \/ ClientPut(q) \/ ClientPutFail(q)
               \/ ClientRead(q) \/ ClientReadMalformed(q) \/ ClientTimeout(q)
               \/ GetRequest(q) \/ Age(q)
        PROVE FALSE
    BY <2>1, NoneAssumption DEF ClientStart, ClientStartFail, ClientPut, ClientPutFail, ClientRead,
      ClientReadMalformed, ClientTimeout, GetRequest, Age, IndInv, TypeOK
  <2>2. ASSUME NEW l \in Lists, ListStep(l) \/ ListUnseen(l) \/ ListQueryFail(l) \/ ListTimeout(l)
        PROVE FALSE
    BY <2>2 DEF ListStep, ListStart, ListQuery, ListUnseen, ListResult, Limit, ListQueryFail, ListTimeout
  <2>3. ASSUME NEW p \in Posts, (\E q \in Requests : PostStart(p, q)) \/ PostStep(p) PROVE FALSE
    BY <2>3, NoneAssumption DEF PostStart, PostStep, PostRead, PostReply, RespMem, RespPut,
      RespPutFail, ReqPut, ReqPutFail, SendError, IndInv, TypeOK
  <2>4. ASSUME CronRequests PROVE FALSE
    <3>1. r \notin old
      BY DEF IndInv, YoungWhileServed
    <3> QED BY <2>4, <3>1 DEF CronRequests, DropRequests
  <2>5. ASSUME \/ AddTracker \/ AddDefinition \/ AdminDelete \/ AdminAbort
               \/ CronStart \/ CronResponses \/ CronAbort \/ TrackerAges
        PROVE FALSE
    BY <2>5 DEF AddTracker, AddDefinition, AdminDelete, AdminAbort, CronStart, CronResponses,
      CronAbort, TrackerAges
  <2>6. ASSUME AdminSweep \/ CronSweep PROVE apc = "deleting" \/ cpc = "sweep"
    BY <2>6 DEF AdminSweep, CronSweep
  <2> QED BY <2>1, <2>2, <2>3, <2>4, <2>5, <2>6 DEF Next, CronStep
<1> QED BY <1>1, InitInv, NextInv, PTL DEF Spec, WaitingKept
=============================================================================
