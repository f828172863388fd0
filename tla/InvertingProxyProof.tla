------------------------ MODULE InvertingProxyProof ------------------------
(***************************************************************************)
(* Proxy, agent and backend together implement Exchange, for any number of *)
(* clients, list calls and retries, provided that no two calls of newID    *)
(* overlap.  The proof rests on the inductive invariant of the proxy alone *)
(* (ServerProof): every step of the composition is a step of the proxy or  *)
(* leaves the proxy as it is.  The same invariant, with what the agent     *)
(* keeps besides, gives the types of all variables: the worker of an ID is *)
(* started at most once, however often the agent is, and so makes no more  *)
(* calls than its retries allow.                                           *)
(***************************************************************************)
EXTENDS InvertingProxy, ServerProof, SequenceTheorems

\* The types of the variables that the refinement depends on.
WorkTypes ==
    /\ wpc \in [IDs -> {"none", "get", "forward", "end"}]
    /\ DOMAIN request = IDs
    /\ backend \in [IDs -> {"none", "running", "response", "error"}]
    /\ qpc \in [IDs -> {"none", "start", "calling", "closed"}]
    /\ attempt \in [IDs -> 0 .. WriteRetries]
    /\ carried \subseteq Posts
    /\ runs \in [Frontends -> {0, 1}]

\* A worker works on what was fetched under its own ID.
WorkOwner ==
    \A i \in IDs :
        wpc[i] = "forward" \/ qpc[i] \in {"start", "calling"} \/ backend[i] # "none" =>
            request[i] \in fetched /\ request[i][1] = i

\* A client's request ran exactly if the backend got to it under the client's ID.
RunOnce ==
    /\ \A f \in Frontends : runs[f] # 0 =>
          fpc[f] \notin Early /\ id[f] \in IDs /\ backend[id[f]] # "none"
    /\ \A i \in IDs : backend[i] \in {"running", "response"} => runs[request[i][2]] = 1

\* A POST that the proxy has parsed carried the header of a response.
CarriedHeader ==
    /\ \A p \in carried : Responding(p[1])
    /\ \A p \in Posts :
          ppc[p] \in {"offer", "read", "write", "ok", "aborted", "failed"} => p \in carried

\* The n-th POST of the worker of i answers the call that owns i.
PostedUnder ==
    \A p \in Posts : ppc[p] \notin {"idle", "notfound"} => id[pending[p]] = p[1]

WorkInv == WorkTypes /\ WorkOwner /\ RunOnce /\ CarriedHeader /\ PostedUnder

-----------------------------------------------------------------------------
(* The types of the agent's variables *)

PollTypes ==
    /\ apc \in {"running", "draining", "exited"}
    /\ awaiting \in Lists \cup {None}
    /\ todo \subseteq IDs
    /\ faults \in 0 .. MaxFaults

SeenTypes == seen \in Seq(IDs) /\ Len(seen) <= SeenLimit

GetTypes ==
    /\ tries \in [IDs -> 0 .. ReadRetries + 1]
    /\ request \in [IDs -> fetched \cup {None}]

\* An ID is on its way in one place at most: nowhere before a list call has
\* received it, then in the list of that call, then in todo; what is not past
\* todo has no worker.
OneWay ==
    /\ \A i \in IDs : handed[i] = 0 => wpc[i] = "none" /\ i \notin todo /\ \A l \in Lists : i \notin batch[l]
    /\ \A i \in todo : wpc[i] = "none" /\ \A l \in Lists : i \notin batch[l]
    /\ \A l \in Lists : \A i \in batch[l] : wpc[i] = "none"
    /\ \A l, m \in Lists : l # m => batch[l] \cap batch[m] = {}

\* So a worker starts with no GET made.
CountsFromZero ==
    /\ \A i \in IDs : wpc[i] = "none" => tries[i] = 0
    /\ \A i \in IDs : wpc[i] = "get" => tries[i] <= ReadRetries

\* And there is no trace of an earlier one.
Untouched ==
    \A i \in IDs : wpc[i] = "none" =>
        request[i] = None /\ backend[i] = "none" /\ qpc[i] = "none" /\ attempt[i] = 0

AgentInv == PollTypes /\ SeenTypes /\ GetTypes /\ OneWay /\ CountsFromZero /\ Untouched

-----------------------------------------------------------------------------
\* The number of a POST that a worker makes is in range.
LEMMA CurrentPost == ASSUME WorkTypes, NEW i \in IDs PROVE Current(i) \in Posts
BY PostsAssumption DEF WorkTypes, Current

\* The agent's steps are calls to the proxy, or leave it alone.
LEMMA ProxyNext == ASSUME WorkInv, [NextAll]_allVars PROVE [Next]_vars
<1>1. ASSUME NEW f \in Frontends, ClientStep(f) \/ ProxyFrontend(f) PROVE Next
  BY <1>1 DEF ClientStep, ProxyFrontend, Next
<1>2. ASSUME NEW l \in Lists, PollStep(l) PROVE Next
  BY <1>2 DEF PollStep, PollStart, PollReply, PollReplyLost, PollEmpty, Next, ListReply
<1>3. ASSUME NEW l \in Lists, NEW f \in Frontends, ProxyReceive(l, f) PROVE Next
  BY <1>3 DEF ProxyReceive, Next
<1>4. ASSUME NEW p \in Posts, ProxyStep(p) \/ ProxyContextDone(p) \/ ProxyDeliver(p) PROVE Next
  BY <1>4 DEF ProxyStep, ProxyParsed, ProxyReadFail, ProxyPump, ProxyContextDone, ProxyDeliver,
    Next, PostStep
<1>5. ASSUME NEW i \in IDs, GetStep(i) PROVE [Next]_vars
  BY <1>5 DEF GetStep, GetReply, GetReplyLost, GetUnparsed, GetFail, GetNotFound, Next
<1>6. ASSUME NEW i \in IDs, PostCall(i) PROVE Next
  <2>1. Current(i) \in Posts
    BY CurrentPost DEF WorkInv
  <2>2. request[i] \in fetched
    BY <1>6 DEF PostCall, WorkInv, WorkOwner
  <2> QED BY <1>6, <2>1, <2>2 DEF PostCall, Next
<1>7. ASSUME NEW i \in IDs,
             Dispatch(i) \/ BackendStep(i) \/ PostFail(i) \/ PostRejected(i) \/ PostReply(i) \/ WorkerEnd(i)
      PROVE UNCHANGED vars
  BY <1>7 DEF Dispatch, StartWorker, BackendStep, BackendRun, BackendRespond, BackendError, Respond,
    PostFail, PostAgain, PostRejected, PostReply, WorkerEnd
<1>8. ASSUME PollFail \/ AgentDrain \/ AgentExit \/ AgentRestart PROVE UNCHANGED vars
  BY <1>8 DEF PollFail, AgentDrain, AgentExit, AgentRestart
<1>9. CASE UNCHANGED allVars
  BY <1>9 DEF allVars
<1> QED BY <1>1, <1>2, <1>3, <1>4, <1>5, <1>6, <1>7, <1>8, <1>9 DEF NextAll, SendStep

-----------------------------------------------------------------------------
\* The initial state satisfies the invariant of the composition.
LEMMA InitWork == Init /\ AgentInit => WorkInv
BY RetriesAssumption
DEF Init, AgentInit, WorkInv, WorkTypes, WorkOwner, RunOnce, CarriedHeader, PostedUnder

\* What a worker holds belongs to the one call that owns its ID.
LEMMA OwnerUnique ==
  ASSUME IndInv, NEW q \in fetched
  PROVE /\ q[1] \in IDs /\ q[2] \in Frontends
        /\ id[q[2]] = q[1]
        /\ fpc[q[2]] \notin Early
        /\ \A g \in Frontends : fpc[g] # "idle" /\ id[g] = q[1] => g = q[2]
<1>1. q[1] \in IDs /\ q[2] \in Frontends
  BY DEF IndInv, BaseInv, SerialInv, TypeOK
<1>2. id[q[2]] = q[1] /\ fpc[q[2]] \notin Early
  BY DEF IndInv, BaseInv, SerialInv, FetchedOwner
<1> QED BY <1>1, <1>2 DEF IndInv, BaseInv, SerialInv, OwnID, DrawnID, Early

\* An entry of proxy.requests belongs to the one call that owns its ID.
LEMMA EntryOwner ==
  ASSUME IndInv, NEW i \in IDs, requests[i] # None
  PROVE /\ requests[i] \in Frontends
        /\ id[requests[i]] = i
        /\ fpc[requests[i]] \notin Early
<1>1. requests[i] \in Frontends
  BY DEF IndInv, BaseInv, SerialInv, TypeOK
<1> QED BY <1>1 DEF IndInv, BaseInv, SerialInv, RequestsMapExact, Registered, Early

\* A step of the proxy alone that is not a POST's first one.
LEMMA ProxyWork ==
  ASSUME IndInv, WorkInv, UNCHANGED agentVars,
         \/ \E f \in Frontends : NewID(f) \/ ClientActs(f) \/ FrontendStep(f)
         \/ \E l \in Lists, f \in Frontends : ListReceive(l, f)
         \/ \E p \in Posts : p \in carried /\ PostParsed(p)
         \/ \E p \in Posts : PostParseFail(p) \/ PostReadFail(p) \/ PostContextDone(p)
         \/ \E p \in Posts : PostRead(p) \/ PostEOF(p) \/ PostWrite(p) \/ PostWriteFail(p)
         \/ \E p \in Posts : Deliveries(p)
  PROVE WorkInv'
<1> USE DEF agentVars, pollVars, workVars, sendVars, frontVars, mapVars, listVars, postVars
<1>1. WorkTypes'
  BY DEF WorkInv, WorkTypes
<1>2. fetched' = fetched
  BY DEF FrontendStep, NewID, ClientActs, ClientCancel, ClientStall, ClientResume, NewIDStore,
    Register, Cancelled, FrontendEOF, ClientBroken, Cleanup, ListReceive, PostParsed, PostParseFail,
    PostReadFail, PostContextDone, PostRead, PostEOF, PostWrite, PostWriteFail, Deliveries, Deliver
<1>3. \A f \in Frontends : fpc[f] # "idle" => id'[f] = id[f]
  BY DEF FrontendStep, NewID, ClientActs, ClientCancel, ClientStall, ClientResume, NewIDStore,
    Register, Cancelled, FrontendEOF, ClientBroken, Cleanup, ListReceive, PostParsed, PostParseFail,
    PostReadFail, PostContextDone, PostRead, PostEOF, PostWrite, PostWriteFail, Deliveries, Deliver,
    IndInv, BaseInv, SerialInv, TypeOK
<1>4. pending' = pending
  BY DEF FrontendStep, NewID, ClientActs, ClientCancel, ClientStall, ClientResume, NewIDStore,
    Register, Cancelled, FrontendEOF, ClientBroken, Cleanup, ListReceive, PostParsed, PostParseFail,
    PostReadFail, PostContextDone, PostRead, PostEOF, PostWrite, PostWriteFail, Deliveries, Deliver
<1>5. \A p \in Posts : ppc[p] \in {"idle", "notfound"} <=> ppc'[p] \in {"idle", "notfound"}
  BY DEF FrontendStep, NewID, ClientActs, ClientCancel, ClientStall, ClientResume, NewIDStore,
    Register, Cancelled, FrontendEOF, ClientBroken, Cleanup, ListReceive, PostParsed, PostParseFail,
    PostReadFail, PostContextDone, PostRead, PostEOF, PostWrite, PostWriteFail, Deliveries, Deliver,
    IndInv, BaseInv, SerialInv, TypeOK
<1>6. WorkOwner'
  BY <1>2 DEF WorkInv, WorkOwner
<1>7. RunOnce'
  <2>1. \A f \in Frontends : fpc[f] \notin Early => fpc'[f] \notin Early
    BY DEF FrontendStep, NewID, ClientActs, ClientCancel, ClientStall, ClientResume, NewIDStore,
      Register, Cancelled, FrontendEOF, ClientBroken, Cleanup, ListReceive, PostParsed,
      PostParseFail, PostReadFail, PostContextDone, PostRead, PostEOF, PostWrite, PostWriteFail,
      Deliveries, Deliver, IndInv, BaseInv, SerialInv, TypeOK, Early
  <2> QED BY <2>1, <1>3 DEF WorkInv, RunOnce, Early
<1>8. CarriedHeader'
  BY DEF FrontendStep, NewID, ClientActs, ClientCancel, ClientStall, ClientResume, NewIDStore,
    Register, Cancelled, FrontendEOF, ClientBroken, Cleanup, ListReceive, PostParsed, PostParseFail,
    PostReadFail, PostContextDone, PostRead, PostEOF, PostWrite, PostWriteFail, Deliveries, Deliver,
    IndInv, BaseInv, SerialInv, TypeOK, WorkInv, CarriedHeader, Responding
<1>9. PostedUnder'
  BY <1>3, <1>4, <1>5 DEF WorkInv, PostedUnder, IndInv, BaseInv, SerialInv, PostHolds, Early
<1> QED BY <1>1, <1>6, <1>7, <1>8, <1>9 DEF WorkInv

\* A worker is started where there has been none, so that its fresh state is the
\* one that was there.
LEMMA FreshWorker ==
  ASSUME WorkInv, AgentInv, NEW i \in IDs, Dispatch(i)
  PROVE wpc[i] = "none" /\ UNCHANGED <<tries, request, backend, qpc, attempt, carried, runs>>
<1> USE DEF workVars, sendVars
<1>1. wpc[i] = "none"
  BY DEF Dispatch, AgentInv, OneWay
<1>2. /\ tries[i] = 0 /\ request[i] = None /\ backend[i] = "none" /\ qpc[i] = "none" /\ attempt[i] = 0
  BY <1>1 DEF AgentInv, CountsFromZero, Untouched
<1>3. CASE Seen(i)
  BY <1>1, <1>3 DEF Dispatch
<1>4. CASE ~Seen(i)
  <2>1. StartWorker(i)
    BY <1>4 DEF Dispatch
  <2>2. tries' = tries /\ request' = request
    BY <1>2, <2>1 DEF StartWorker, AgentInv, GetTypes
  <2>3. backend' = backend /\ qpc' = qpc
    BY <1>2, <2>1 DEF StartWorker, WorkInv, WorkTypes
  <2>4. attempt' = attempt
    BY <1>2, <2>1 DEF StartWorker, WorkInv, WorkTypes
  <2> QED BY <1>1, <2>1, <2>2, <2>3, <2>4 DEF StartWorker
<1> QED BY <1>3, <1>4

\* Every step preserves it.
LEMMA NextWork == ASSUME IndInv, WorkInv, AgentInv, [NextAll]_allVars PROVE WorkInv'
<1> USE DEF agentVars, pollVars, workVars, sendVars, vars, frontVars, mapVars, listVars, postVars
<1>1. ASSUME NEW f \in Frontends, ClientStep(f) \/ ProxyFrontend(f) PROVE WorkInv'
  BY <1>1, ProxyWork DEF ClientStep, ProxyFrontend
<1>2. ASSUME NEW l \in Lists, NEW f \in Frontends, ProxyReceive(l, f) PROVE WorkInv'
  BY <1>2, ProxyWork DEF ProxyReceive
<1>3. ASSUME NEW p \in Posts, ProxyStep(p) \/ ProxyContextDone(p) \/ ProxyDeliver(p) PROVE WorkInv'
  BY <1>3, ProxyWork DEF ProxyStep, ProxyParsed, ProxyReadFail, ProxyPump, ProxyContextDone,
    ProxyDeliver
<1>4. ASSUME NEW l \in Lists, PollStep(l) PROVE WorkInv'
  BY <1>4 DEF PollStep, PollStart, PollReply, PollReplyLost, PollEmpty, ListStart, ListReturn,
    ListTimeout, WorkInv, WorkTypes, WorkOwner, RunOnce, CarriedHeader, PostedUnder, Responding
<1>5. ASSUME NEW i \in IDs, Dispatch(i) PROVE WorkInv'
  <2>1. UNCHANGED <<request, backend, qpc, attempt, carried, runs, vars>> /\ wpc' \in {wpc, [wpc EXCEPT ![i] = "get"]}
    BY <1>5, FreshWorker DEF Dispatch, StartWorker
  <2> QED BY <2>1 DEF WorkInv, WorkTypes, WorkOwner, RunOnce, CarriedHeader, PostedUnder, Responding
<1>6. ASSUME NEW i \in IDs, NEW whole \in BOOLEAN, GetReply(i, whole) PROVE WorkInv'
  <2> DEFINE q == <<i, requests[i], whole>>
  <2>1. q \in fetched' /\ fetched \subseteq fetched' /\ requests[i] # None
    BY <1>6 DEF GetReply, GetRequest
  <2>2. request' = [request EXCEPT ![i] = q]
    BY <1>6 DEF GetReply
  <2>3. WorkTypes'
    BY <1>6 DEF GetReply, GetRequest, WorkInv, WorkTypes
  <2>4. WorkOwner'
    BY <1>6, <2>1, <2>2 DEF GetReply, WorkInv, WorkTypes, WorkOwner
  <2>5. RunOnce'
    <3>1. ASSUME backend[i] # "none" PROVE request[i][2] = requests[i]
      <4>1. request[i] \in fetched /\ request[i][1] = i
        BY <3>1 DEF WorkInv, WorkOwner
      <4>2. requests[i] \in Frontends /\ id[requests[i]] = i /\ fpc[requests[i]] \notin Early
        BY <2>1, EntryOwner
      <4> QED BY <4>1, <4>2, OwnerUnique DEF Early
    <3>2. ASSUME NEW j \in IDs, backend[j] \in {"running", "response"} PROVE runs[request'[j][2]] = 1
      BY <2>2, <3>1, <3>2 DEF WorkInv, WorkTypes, RunOnce
    <3> QED BY <1>6, <3>2 DEF GetReply, GetRequest, WorkInv, RunOnce
  <2>6. CarriedHeader' /\ PostedUnder'
    BY <1>6 DEF GetReply, GetRequest, WorkInv, CarriedHeader, PostedUnder, Responding
  <2> QED BY <2>3, <2>4, <2>5, <2>6 DEF WorkInv
<1>7. ASSUME NEW i \in IDs, NEW whole \in BOOLEAN, GetReplyLost(i, whole) \/ GetUnparsed(i, whole)
      PROVE WorkInv'
  BY <1>7 DEF GetReplyLost, GetUnparsed, GetRequest, GetAgain, WorkInv, WorkTypes, WorkOwner,
    RunOnce, CarriedHeader, PostedUnder, Responding
<1>8. ASSUME NEW i \in IDs, GetFail(i) \/ GetNotFound(i) PROVE WorkInv'
  BY <1>8 DEF GetFail, GetNotFound, GetAgain, WorkInv, WorkTypes, WorkOwner, RunOnce,
    CarriedHeader, PostedUnder, Responding
<1>9. ASSUME NEW i \in IDs, BackendRun(i) PROVE WorkInv'
  <2>1. request[i] \in fetched /\ request[i][1] = i
    BY <1>9 DEF BackendRun, WorkInv, WorkOwner
  <2>2. PICK f \in Frontends : f = request[i][2] /\ id[f] = i /\ fpc[f] \notin Early
    BY <2>1, OwnerUnique
  <2>3. runs[f] = 0 /\ runs' = [runs EXCEPT ![f] = 1]
    <3>1. runs[f] = 0
      BY <1>9, <2>2 DEF BackendRun, WorkInv, RunOnce
    <3>2. runs' = [runs EXCEPT ![f] = runs[f] + 1]
      BY <1>9, <2>2 DEF BackendRun
    <3> QED BY <3>1, <3>2
  <2>4. WorkTypes'
    BY <1>9, <2>3 DEF BackendRun, WorkInv, WorkTypes
  <2>5. WorkOwner'
    BY <1>9, <2>1 DEF BackendRun, WorkInv, WorkTypes, WorkOwner
  <2>6. RunOnce'
    BY <1>9, <2>2, <2>3 DEF BackendRun, WorkInv, WorkTypes, RunOnce
  <2>7. CarriedHeader' /\ PostedUnder'
    BY <1>9 DEF BackendRun, WorkInv, WorkTypes, CarriedHeader, PostedUnder, Responding
  <2> QED BY <2>4, <2>5, <2>6, <2>7 DEF WorkInv
<1>10. ASSUME NEW i \in IDs, BackendRespond(i) \/ BackendError(i) PROVE WorkInv'
  <2>1. PICK kind \in {"response", "error"} :
           /\ Respond(i, kind)
           /\ backend[i] \in {"none", "running"}
           /\ kind = "response" => backend[i] = "running"
    BY <1>10 DEF BackendRespond, BackendError
  <2>2. Current(i) \in Posts /\ Current(i)[1] = i
    BY CurrentPost DEF WorkInv, Current
  <2>3. WorkTypes'
    BY <2>1, <2>2 DEF Respond, WorkInv, WorkTypes
  <2>4. WorkOwner'
    BY <2>1 DEF Respond, WorkInv, WorkTypes, WorkOwner
  <2>5. RunOnce'
    BY <2>1 DEF Respond, WorkInv, WorkTypes, RunOnce
  <2>6. CarriedHeader'
    <3>1. ASSUME NEW p \in carried' PROVE Responding(p[1])'
      <4>1. CASE p \in carried
        BY <4>1, <2>1, PostsAssumption DEF Respond, WorkInv, WorkTypes, CarriedHeader, Responding
      <4>2. CASE p = Current(i)
        BY <4>2, <2>1, <2>2 DEF Respond, WorkInv, WorkTypes, Responding
      <4> QED BY <3>1, <4>1, <4>2, <2>1 DEF Respond
    <3> QED BY <2>1, <3>1 DEF Respond, WorkInv, CarriedHeader
  <2>7. PostedUnder'
    BY <2>1 DEF Respond, WorkInv, PostedUnder
  <2> QED BY <2>3, <2>4, <2>5, <2>6, <2>7 DEF WorkInv
<1>11. ASSUME NEW i \in IDs, PostCall(i) PROVE WorkInv'
  <2>1. Current(i) \in Posts /\ Current(i)[1] = i
    BY CurrentPost DEF WorkInv, Current
  <2>2. request[i] \in fetched /\ request[i][1] = i
    BY <1>11 DEF PostCall, WorkInv, WorkOwner
  <2>3. WorkTypes' /\ WorkOwner' /\ RunOnce'
    BY <1>11, <2>1, <2>2 DEF PostCall, PostStart, WorkInv, WorkTypes, WorkOwner, RunOnce
  <2>4. CarriedHeader'
    BY <1>11, <2>1 DEF PostCall, PostStart, WorkInv, CarriedHeader, Responding, IndInv, BaseInv,
      SerialInv, TypeOK
  <2>5. PostedUnder'
    <3>1. ppc'[Current(i)] # "notfound" => requests[i] # None
      BY <1>11, <2>1, <2>2 DEF PostCall, PostStart, IndInv, BaseInv, SerialInv, TypeOK
    <3>2. requests[i] # None => id[requests[i]] = i
      BY EntryOwner
    <3>3. pending'[Current(i)] = requests[i] /\ id' = id
      BY <1>11, <2>1, <2>2 DEF PostCall, PostStart, IndInv, BaseInv, SerialInv, TypeOK
    <3>4. \A p \in Posts : p # Current(i) => pending'[p] = pending[p] /\ ppc'[p] = ppc[p]
      BY <1>11, <2>1 DEF PostCall, PostStart, IndInv, BaseInv, SerialInv, TypeOK
    <3> QED BY <2>1, <3>1, <3>2, <3>3, <3>4 DEF WorkInv, PostedUnder
  <2> QED BY <2>3, <2>4, <2>5 DEF WorkInv
<1>12. ASSUME NEW i \in IDs, PostFail(i) \/ PostRejected(i) PROVE WorkInv'
  <2>1. PostAgain(i) /\ qpc[i] \in {"start", "calling"}
    BY <1>12 DEF PostFail, PostRejected
  <2>2. WorkTypes'
    BY <2>1, RetriesAssumption DEF PostAgain, WorkInv, WorkTypes
  <2>3. WorkOwner'
    BY <2>1 DEF PostAgain, WorkInv, WorkTypes, WorkOwner
  <2>4. RunOnce' /\ CarriedHeader' /\ PostedUnder'
    BY <2>1 DEF PostAgain, WorkInv, RunOnce, CarriedHeader, PostedUnder, Responding
  <2> QED BY <2>2, <2>3, <2>4 DEF WorkInv
<1>13. ASSUME NEW i \in IDs, PostReply(i) \/ WorkerEnd(i) PROVE WorkInv'
  BY <1>13 DEF PostReply, WorkerEnd, WorkInv, WorkTypes, WorkOwner, RunOnce, CarriedHeader,
    PostedUnder, Responding
<1>14. ASSUME AgentExit PROVE WorkInv'
  BY <1>14 DEF AgentExit, WorkInv, WorkTypes, WorkOwner, RunOnce, CarriedHeader, PostedUnder, Responding
<1>15. ASSUME PollFail \/ AgentDrain \/ AgentRestart \/ UNCHANGED allVars PROVE WorkInv'
  BY <1>15 DEF PollFail, AgentDrain, AgentRestart, allVars, WorkInv, WorkTypes, WorkOwner, RunOnce,
    CarriedHeader, PostedUnder, Responding
<1> QED
  BY <1>1, <1>2, <1>3, <1>4, <1>5, <1>6, <1>7, <1>8, <1>9, <1>10, <1>11, <1>12, <1>13, <1>14, <1>15
  DEF NextAll, GetStep, BackendStep, SendStep

-----------------------------------------------------------------------------
(* The refinement *)

phaseOf == [f \in Frontends |-> Phase(f)]

\* A client that has taken a response has taken one that will not change.
LEMMA TakenIsFinal ==
  ASSUME IndInv, WorkInv, NEW f \in Frontends, resp[f] # None
  PROVE resp[f] \in Posts /\ resp[f][1] \in IDs /\ Responding(resp[f][1])
<1>1. resp[f] \in Posts /\ Delivered(resp[f])
  BY DEF IndInv, BaseInv, SerialInv, TypeOK, TakenFrom
<1>2. resp[f][1] \in IDs
  BY <1>1, PostsAssumption
<1> QED BY <1>1, <1>2 DEF WorkInv, CarriedHeader, Delivered

\* A step that leaves a call in the same part of its life, and its response and
\* the backends alone, leaves its phase alone.
LEMMA SamePhase ==
  ASSUME NEW f \in Frontends,
         fpc[f] \in Early <=> fpc'[f] \in Early,
         resp'[f] = resp[f],
         resp[f] # None => backend'[resp[f][1]] = backend[resp[f][1]],
         resp[f] = None => (fpc[f] \in {"cleanup", "done"} <=> fpc'[f] \in {"cleanup", "done"})
  PROVE Phase(f)' = Phase(f)
BY DEF Phase, Early

\* Steps of the proxy: only Register, Cancelled and Deliver change a phase.
LEMMA ProxyRefines ==
  ASSUME IndInv, WorkInv, Next, UNCHANGED <<backend, runs>>
  PROVE E!Next \/ (phaseOf' = phaseOf /\ runs' = runs)
<1> USE DEF frontVars, mapVars, listVars, postVars
<1>1. ASSUME NEW f \in Frontends, Register(f) PROVE E!Submit(f)
  <2>1. Phase(f) = "new" /\ Phase(f)' = "waiting"
    BY <1>1 DEF Register, Phase, IndInv, BaseInv, SerialInv, TypeOK, TakenFrom, Early
  <2>2. ASSUME NEW g \in Frontends, g # f PROVE Phase(g)' = Phase(g)
    BY <1>1, <2>2, SamePhase DEF Register, IndInv, BaseInv, SerialInv, TypeOK
  <2> QED BY <2>1, <2>2 DEF E!Submit
<1>2. ASSUME NEW f \in Frontends, Cancelled(f) PROVE E!Leave(f)
  <2>1. Phase(f) = "waiting" /\ Phase(f)' = "left"
    BY <1>2 DEF Cancelled, Phase, IndInv, BaseInv, SerialInv, TypeOK, TakenFrom, Early
  <2>2. ASSUME NEW g \in Frontends, g # f PROVE Phase(g)' = Phase(g)
    BY <1>2, <2>2, SamePhase DEF Cancelled, IndInv, BaseInv, SerialInv, TypeOK
  <2> QED BY <2>1, <2>2 DEF E!Leave
<1>3. ASSUME NEW p \in Posts, NEW f \in Frontends, Deliver(p, f) PROVE E!Answer(f) \/ E!Refuse(f)
  <2>1. p \in carried /\ p[1] \in IDs /\ Responding(p[1])
    BY <1>3, PostsAssumption DEF Deliver, WorkInv, CarriedHeader
  <2>2. id[f] = p[1] /\ fpc[f] = "wait"
    BY <1>3 DEF Deliver, WorkInv, PostedUnder
  <2>3. Phase(f) = "waiting"
    BY <2>2 DEF Phase, IndInv, BaseInv, SerialInv, TakenFrom, Early
  <2>4. fpc'[f] \in {"cleanup", "copy"} /\ resp'[f] = p /\ p # None
    BY <1>3, NoneAssumption DEF Deliver, IndInv, BaseInv, SerialInv, TypeOK
  <2>5. Phase(f)' = IF backend[p[1]] = "response" THEN "answered" ELSE "refused"
    BY <2>4 DEF Phase
  <2>6. ASSUME NEW g \in Frontends, g # f PROVE Phase(g)' = Phase(g)
    BY <1>3, <2>6, SamePhase DEF Deliver, IndInv, BaseInv, SerialInv, TypeOK
  <2>7. ASSUME backend[p[1]] = "response" PROVE runs[f] = 1
    <3>1. request[p[1]] \in fetched /\ request[p[1]][1] = p[1]
      BY <2>1, <2>7 DEF WorkInv, WorkOwner
    <3>2. request[p[1]][2] = f
      BY <2>2, <3>1, OwnerUnique
    <3> QED BY <2>1, <2>7, <3>2 DEF WorkInv, RunOnce
  <2>8. CASE backend[p[1]] = "response"
    BY <2>3, <2>5, <2>6, <2>7, <2>8 DEF E!Answer
  <2>9. CASE backend[p[1]] # "response"
    BY <2>3, <2>5, <2>6, <2>9 DEF E!Refuse
  <2> QED BY <2>8, <2>9
<1>4. ASSUME NEW f \in Frontends,
             NewID(f) \/ ClientActs(f) \/ NewIDStore(f) \/ FrontendEOF(f) \/ ClientBroken(f) \/ Cleanup(f)
      PROVE phaseOf' = phaseOf
  <2>1. ASSUME NEW g \in Frontends PROVE Phase(g)' = Phase(g)
    BY <1>4, SamePhase DEF NewID, ClientActs, ClientCancel, ClientStall, ClientResume, NewIDStore,
      FrontendEOF, ClientBroken, Cleanup, IndInv, BaseInv, SerialInv, TypeOK, TakenFrom, Early
  <2> QED BY <2>1 DEF phaseOf
<1>5. ASSUME NEW l \in Lists, NEW f \in Frontends, ListReceive(l, f) PROVE phaseOf' = phaseOf
  <2>1. ASSUME NEW g \in Frontends PROVE Phase(g)' = Phase(g)
    BY <1>5, SamePhase DEF ListReceive, IndInv, BaseInv, SerialInv, TypeOK, Early
  <2> QED BY <2>1 DEF phaseOf
<1>6. ASSUME UNCHANGED <<fpc, resp>> PROVE phaseOf' = phaseOf
  BY <1>6 DEF phaseOf, Phase
<1>7. ASSUME NEW l \in Lists, ListStart(l) \/ ListTimeout(l) \/ ListReply(l) PROVE UNCHANGED <<fpc, resp>>
  BY <1>7 DEF ListStart, ListTimeout, ListReply, ListReturn
<1>8. ASSUME NEW i \in IDs, NEW whole \in BOOLEAN, GetRequest(i, whole) PROVE UNCHANGED <<fpc, resp>>
  BY <1>8 DEF GetRequest
<1>9. ASSUME NEW p \in Posts, NEW q \in fetched, PostStart(p, q) PROVE UNCHANGED <<fpc, resp>>
  BY <1>9 DEF PostStart
<1>10. ASSUME NEW p \in Posts, PostContextDone(p) \/ PostStep(p) PROVE UNCHANGED <<fpc, resp>>
  BY <1>10 DEF PostContextDone, PostStep, PostParsed, PostParseFail, PostRead, PostReadFail, PostEOF,
    PostWrite, PostWriteFail
<1> QED
  BY <1>1, <1>2, <1>3, <1>4, <1>5, <1>6, <1>7, <1>8, <1>9, <1>10
  DEF Next, FrontendStep, Deliveries, E!Next

\* Steps of a backend: no client has taken its response before there is one.
LEMMA BackendRefines ==
  ASSUME IndInv, WorkInv, NEW i \in IDs, BackendStep(i)
  PROVE E!Next \/ (phaseOf' = phaseOf /\ runs' = runs)
<1> USE DEF vars, frontVars
<1>1. UNCHANGED <<fpc, resp>> /\ backend[i] \in {"none", "running"}
  BY DEF BackendStep, BackendRun, BackendRespond, BackendError, Respond
<1>2. \A j \in IDs : j # i => backend'[j] = backend[j]
  BY DEF BackendStep, BackendRun, BackendRespond, BackendError, Respond, WorkInv, WorkTypes
<1>3. ASSUME NEW f \in Frontends PROVE Phase(f)' = Phase(f)
  <2>1. resp[f] # None => resp[f][1] \in IDs /\ resp[f][1] # i
    BY <1>1, TakenIsFinal DEF Responding
  <2> QED BY <1>1, <1>2, <2>1, SamePhase
<1>4. phaseOf' = phaseOf
  BY <1>3 DEF phaseOf
<1>5. ASSUME BackendRun(i) PROVE E!Next
  <2>1. request[i] \in fetched /\ request[i][1] = i
    BY <1>5 DEF BackendRun, WorkInv, WorkOwner
  <2>2. PICK f \in Frontends : f = request[i][2] /\ id[f] = i /\ fpc[f] \notin Early
    BY <2>1, OwnerUnique
  <2>3. runs[f] = 0
    BY <1>5, <2>2 DEF BackendRun, WorkInv, RunOnce
  <2>4. runs' = [runs EXCEPT ![f] = runs[f] + 1]
    BY <1>5, <2>2 DEF BackendRun
  <2>5. Phase(f) # "new"
    BY <2>2 DEF Phase, Early
  <2>6. E!Run(f)
    BY <1>4, <2>3, <2>4, <2>5 DEF E!Run, phaseOf
  <2> QED BY <2>6 DEF E!Next
<1>6. ASSUME BackendRespond(i) \/ BackendError(i) PROVE runs' = runs
  BY <1>6 DEF BackendRespond, BackendError, Respond
<1> QED BY <1>4, <1>5, <1>6 DEF BackendStep

\* The lru.Cache keeps its type and its limit.
LEMMA TouchTypes ==
  ASSUME SeenTypes, NEW i \in IDs
  PROVE Limit(Touch(seen, i)) \in Seq(IDs) /\ Len(Limit(Touch(seen, i))) <= SeenLimit
<1>1. Len(seen) \in Nat /\ seen \in Seq(IDs) /\ DOMAIN seen = 1 .. Len(seen)
  BY LenProperties DEF SeenTypes
<1>2. \A k \in 1 .. Len(seen) : seen[k] \in IDs
  BY <1>1, ElementOfSeq
<1>3. ASSUME Holds(seen, i) PROVE Without(seen, i) \in Seq(IDs)
  <2> DEFINE k == Place(seen, i)
  <2>1. k \in 1 .. Len(seen)
    BY <1>1, <1>3 DEF Holds, Place
  <2> HIDE DEF k
  <2>2. SubSeq(seen, 1, k - 1) \in Seq(IDs)
    <3>1. k - 1 \in Int /\ \A j \in 1 .. k - 1 : seen[j] \in IDs
      BY <1>1, <1>2, <2>1
    <3> QED BY <3>1, SubSeqProperties
  <2>3. SubSeq(seen, k + 1, Len(seen)) \in Seq(IDs)
    <3>1. k + 1 \in Int /\ Len(seen) \in Int /\ \A j \in k + 1 .. Len(seen) : seen[j] \in IDs
      BY <1>1, <1>2, <2>1
    <3> QED BY <3>1, SubSeqProperties
  <2> QED BY <2>2, <2>3, ConcatProperties DEF Without, k
<1> DEFINE t == Touch(seen, i)
<1>4. t \in Seq(IDs)
  <2> DEFINE rest == IF Holds(seen, i) THEN Without(seen, i) ELSE seen
  <2>1. rest \in Seq(IDs)
    BY <1>1, <1>3
  <2>2. <<i>> \in Seq(IDs)
    OBVIOUS
  <2> HIDE DEF rest
  <2>3. <<i>> \o rest \in Seq(IDs)
    BY <2>1, <2>2, ConcatProperties
  <2> QED BY <2>3 DEF Touch, rest
<1> HIDE DEF t
<1>5. Len(t) \in Nat /\ \A j \in 1 .. Len(t) : t[j] \in IDs
  BY <1>4, LenProperties, ElementOfSeq
<1>6. CASE Len(t) > SeenLimit
  <2>1. SeenLimit \in Int /\ 1 <= SeenLimit /\ SeenLimit - 1 + 1 = SeenLimit
        /\ \A j \in 1 .. SeenLimit : t[j] \in IDs
    BY <1>5, <1>6, RetriesAssumption
  <2>2. SubSeq(t, 1, SeenLimit) \in Seq(IDs) /\ Len(SubSeq(t, 1, SeenLimit)) = SeenLimit
    BY <2>1, SubSeqProperties
  <2> QED BY <1>6, <2>1, <2>2 DEF Limit, t
<1>7. CASE ~(Len(t) > SeenLimit)
  <2>1. Len(t) <= SeenLimit
    BY <1>5, <1>7, RetriesAssumption
  <2> QED BY <1>4, <1>7, <2>1 DEF Limit, t
<1> QED BY <1>6, <1>7

\* The agent has not begun.
LEMMA InitAgent == Init /\ AgentInit => AgentInv
<1> SUFFICES ASSUME Init, AgentInit PROVE AgentInv
  OBVIOUS
<1>1. SeenTypes
  BY EmptySeq, RetriesAssumption DEF AgentInit, SeenTypes
<1>2. PollTypes /\ GetTypes /\ CountsFromZero /\ Untouched
  BY RetriesAssumption DEF AgentInit, PollTypes, GetTypes, CountsFromZero, Untouched
<1>3. OneWay
  BY DEF Init, AgentInit, OneWay
<1> QED BY <1>1, <1>2, <1>3 DEF AgentInv

\* A fault is counted.
LEMMA FaultTypes == ASSUME faults \in 0 .. MaxFaults, Fault PROVE faults' \in 0 .. MaxFaults
BY RetriesAssumption DEF Fault

\* A list call receives an ID that no one has seen yet.
LEMMA ReceiveAgent ==
  ASSUME IndInv, AgentInv, NEW l \in Lists, NEW f \in Frontends, ListReceive(l, f), UNCHANGED agentVars
  PROVE AgentInv'
<1> USE DEF agentVars, pollVars, workVars, sendVars
<1>1. fpc[f] = "enqueue" /\ id[f] \in IDs /\ handed[id[f]] = 0
  <2>1. fpc[f] = "enqueue" /\ id[f] \in IDs
    BY DEF ListReceive, IndInv, BaseInv, SerialInv, OwnID, DrawnID
  <2>2. ASSUME handed[id[f]] > 0 PROVE FALSE
    <3>1. PICK g \in Frontends : id[g] = id[f] /\ fpc[g] \notin Early \cup {"enqueue"}
      BY <2>1, <2>2 DEF IndInv, BaseInv, SerialInv, HandedOwner
    <3> QED BY <2>1, <3>1 DEF IndInv, BaseInv, SerialInv, OwnID, DrawnID, Early
  <2>3. handed[id[f]] \in Nat
    BY <2>1 DEF IndInv, BaseInv, SerialInv, TypeOK
  <2> QED BY <2>1, <2>2, <2>3
<1>2. /\ batch'[l] = batch[l] \cup {id[f]} /\ \A m \in Lists : m # l => batch'[m] = batch[m]
      /\ handed'[id[f]] = 1 /\ \A i \in IDs : i # id[f] => handed'[i] = handed[i]
      /\ fetched' = fetched
  BY <1>1 DEF ListReceive, IndInv, BaseInv, SerialInv, TypeOK
<1>3. PollTypes' /\ GetTypes' /\ CountsFromZero' /\ Untouched'
  BY <1>2 DEF AgentInv, PollTypes, GetTypes, CountsFromZero, Untouched
<1>4. SeenTypes'
  BY DEF AgentInv, SeenTypes
<1>5. OneWay'
  BY <1>1, <1>2 DEF AgentInv, OneWay
<1> QED BY <1>3, <1>4, <1>5 DEF AgentInv

\* The proxy's other steps do not touch what the agent's state depends on.
LEMMA ProxyAgent ==
  ASSUME IndInv, AgentInv, UNCHANGED agentVars, UNCHANGED <<batch, handed, fetched>>
  PROVE AgentInv'
<1> USE DEF agentVars, pollVars, workVars, sendVars
<1>1. PollTypes' /\ GetTypes' /\ CountsFromZero' /\ Untouched'
  BY DEF AgentInv, PollTypes, GetTypes, CountsFromZero, Untouched
<1>2. SeenTypes'
  BY DEF AgentInv, SeenTypes
<1>3. OneWay'
  BY DEF AgentInv, OneWay
<1> QED BY <1>1, <1>2, <1>3 DEF AgentInv

\* A turn of the poll loop.
LEMMA PollAgent ==
  ASSUME IndInv, WorkInv, AgentInv, NEW l \in Lists, PollStep(l)
  PROVE AgentInv'
<1> USE DEF agentVars, pollVars, workVars, sendVars, frontVars, mapVars, listVars, postVars
<1>1. UNCHANGED <<seen, wpc, tries, request, backend, qpc, attempt, fetched, handed, apc>>
  BY DEF PollStep, PollStart, PollReply, PollReplyLost, PollEmpty, ListStart, ListReturn, ListTimeout
<1>2. SeenTypes' /\ GetTypes' /\ CountsFromZero' /\ Untouched'
  BY <1>1 DEF AgentInv, SeenTypes, GetTypes, CountsFromZero, Untouched
<1>3. faults' \in 0 .. MaxFaults
  BY FaultTypes DEF PollStep, PollStart, PollReply, PollReplyLost, PollEmpty, AgentInv, PollTypes
<1>4. PollTypes'
  BY <1>1, <1>3 DEF PollStep, PollStart, PollReply, PollReplyLost, PollEmpty, AgentInv, PollTypes,
    IndInv, BaseInv, SerialInv, TypeOK
<1>5. OneWay'
  <2>1. CASE PollStart(l) \/ PollEmpty(l)
    BY <2>1 DEF PollStart, PollEmpty, ListStart, ListTimeout, AgentInv, OneWay
  <2>2. CASE PollReply(l) \/ PollReplyLost(l)
    <3>1. batch'[l] = {} /\ \A m \in Lists : m # l => batch'[m] = batch[m]
      BY <2>2 DEF PollReply, PollReplyLost, ListReturn, IndInv, BaseInv, SerialInv, TypeOK
    <3>2. todo' = todo \/ todo' = batch[l]
      BY <2>2 DEF PollReply, PollReplyLost
    <3>3. batch[l] \subseteq IDs
      BY DEF IndInv, BaseInv, SerialInv, TypeOK
    <3> QED BY <1>1, <3>1, <3>2, <3>3 DEF AgentInv, OneWay, PollTypes
  <2> QED BY <2>1, <2>2 DEF PollStep
<1> QED BY <1>2, <1>4, <1>5 DEF AgentInv

\* A worker is started.
LEMMA DispatchAgent ==
  ASSUME IndInv, WorkInv, AgentInv, NEW i \in IDs, Dispatch(i)
  PROVE AgentInv'
<1> USE DEF vars, agentVars, pollVars, workVars, sendVars, frontVars, mapVars, listVars, postVars
<1>1. /\ i \in todo /\ todo' = todo \ {i} /\ seen' = Limit(Touch(seen, i))
      /\ wpc' = wpc \/ wpc' = [wpc EXCEPT ![i] = "get"]
      /\ UNCHANGED <<apc, awaiting, tries, request, backend, qpc, attempt, faults, batch, handed, fetched>>
  BY FreshWorker DEF Dispatch, StartWorker
<1>2. wpc'[i] \in {"none", "get"} /\ \A j \in IDs : j # i => wpc'[j] = wpc[j]
  BY <1>1 DEF AgentInv, OneWay, WorkInv, WorkTypes
<1>3. SeenTypes'
  BY <1>1, TouchTypes DEF AgentInv, SeenTypes
<1>4. PollTypes' /\ GetTypes'
  BY <1>1 DEF AgentInv, PollTypes, GetTypes
<1>5. handed[i] # 0 /\ wpc[i] = "none" /\ \A l \in Lists : i \notin batch[l]
  BY <1>1 DEF AgentInv, OneWay
<1>6. \A l \in Lists : batch[l] \subseteq IDs
  BY DEF IndInv, BaseInv, SerialInv, TypeOK
<1>7. OneWay'
  BY <1>1, <1>2, <1>5, <1>6 DEF AgentInv, OneWay, PollTypes
<1>8. CountsFromZero'
  BY <1>1, <1>2, <1>5, RetriesAssumption DEF AgentInv, CountsFromZero, GetTypes
<1>9. Untouched'
  BY <1>1, <1>2, <1>5 DEF AgentInv, Untouched
<1> QED BY <1>3, <1>4, <1>7, <1>8, <1>9 DEF AgentInv

\* A GET, whether it brings the request, is lost or is answered with a 404.
LEMMA GetAgent ==
  ASSUME IndInv, WorkInv, AgentInv, NEW i \in IDs, GetStep(i)
  PROVE AgentInv'
<1> USE DEF vars, agentVars, pollVars, workVars, sendVars, frontVars, mapVars, listVars, postVars
<1>1. /\ wpc[i] = "get" /\ UNCHANGED <<apc, awaiting, todo, seen, batch, handed>>
      /\ fetched \subseteq fetched'
  BY DEF GetStep, GetReply, GetReplyLost, GetUnparsed, GetFail, GetNotFound, GetAgain, GetRequest
<1>2. faults' \in 0 .. MaxFaults
  BY FaultTypes DEF GetStep, GetReply, GetReplyLost, GetUnparsed, GetFail, GetNotFound, AgentInv,
    PollTypes
<1>3. PollTypes' /\ SeenTypes'
  BY <1>1, <1>2 DEF AgentInv, PollTypes, SeenTypes
<1>4. tries[i] \in Nat /\ tries[i] <= ReadRetries /\ ReadRetries \in Nat
  BY <1>1, RetriesAssumption DEF AgentInv, CountsFromZero, GetTypes
<1>5. /\ wpc'[i] \in {"get", "forward", "end"} /\ \A j \in IDs : j # i => wpc'[j] = wpc[j]
      /\ wpc'[i] = "get" => tries[i] < ReadRetries /\ tries' = [tries EXCEPT ![i] = tries[i] + 1]
      /\ tries' = tries \/ tries' = [tries EXCEPT ![i] = tries[i] + 1]
  <2>1. CASE GetAgain(i)
    BY <1>1, <2>1 DEF GetAgain, WorkInv, WorkTypes
  <2>2. CASE wpc' = [wpc EXCEPT ![i] = "forward"] /\ tries' = tries
    BY <2>2 DEF WorkInv, WorkTypes
  <2>3. CASE wpc' = [wpc EXCEPT ![i] = "end"] /\ tries' = tries
    BY <2>3 DEF WorkInv, WorkTypes
  <2> QED BY <2>1, <2>2, <2>3 DEF GetStep, GetReply, GetReplyLost, GetUnparsed, GetFail, GetNotFound
<1>6. tries' \in [IDs -> 0 .. ReadRetries + 1]
  BY <1>4, <1>5 DEF AgentInv, GetTypes
<1>7. request' \in [IDs -> fetched' \cup {None}]
  <2>1. \/ request' = request
        \/ \E q \in fetched' : request' = [request EXCEPT ![i] = q]
    BY DEF GetStep, GetReply, GetReplyLost, GetUnparsed, GetFail, GetNotFound, GetAgain, GetRequest
  <2> QED BY <1>1, <2>1 DEF AgentInv, GetTypes
<1>8. i \notin todo /\ handed[i] # 0 /\ \A l \in Lists : i \notin batch[l]
  BY <1>1 DEF AgentInv, OneWay
<1>9. \A l \in Lists : batch[l] \subseteq IDs
  BY DEF IndInv, BaseInv, SerialInv, TypeOK
<1>10. OneWay'
  BY <1>1, <1>5, <1>8, <1>9 DEF AgentInv, OneWay, PollTypes
<1>11. CountsFromZero'
  <2>1. wpc'[i] = "get" => tries'[i] <= ReadRetries
    BY <1>4, <1>5 DEF AgentInv, GetTypes
  <2>2. \A j \in IDs : j # i => tries'[j] = tries[j]
    BY <1>5 DEF AgentInv, GetTypes
  <2> QED BY <1>5, <2>1, <2>2 DEF AgentInv, CountsFromZero
<1>12. Untouched'
  <2>1. ASSUME NEW j \in IDs, j # i
        PROVE request'[j] = request[j] /\ backend'[j] = backend[j] /\ qpc'[j] = qpc[j] /\ attempt'[j] = attempt[j]
    BY <2>1 DEF GetStep, GetReply, GetReplyLost, GetUnparsed, GetFail, GetNotFound, GetAgain,
      WorkInv, WorkTypes
  <2> QED BY <1>5, <2>1 DEF AgentInv, Untouched
<1> QED BY <1>3, <1>6, <1>7, <1>10, <1>11, <1>12 DEF AgentInv, GetTypes

\* The steps that neither list nor fetch.
LEMMA OtherAgent ==
  ASSUME IndInv, WorkInv, AgentInv,
         \/ \E i \in IDs : BackendStep(i) \/ SendStep(i) \/ WorkerEnd(i)
         \/ PollFail \/ AgentDrain \/ AgentExit \/ AgentRestart \/ UNCHANGED allVars
  PROVE AgentInv'
<1> USE DEF vars, allVars, agentVars, pollVars, workVars, sendVars, frontVars, mapVars, listVars,
  postVars
<1>1. UNCHANGED <<batch, handed, fetched, tries, request>>
  BY DEF BackendStep, BackendRun, BackendRespond, BackendError, Respond, SendStep, PostCall, PostStart,
    PostFail, PostAgain, PostRejected, PostReply, WorkerEnd, PollFail, AgentDrain, AgentExit,
      AgentRestart
<1>2. faults' \in 0 .. MaxFaults
  BY FaultTypes DEF BackendStep, BackendRun, BackendRespond, BackendError, Respond, SendStep, PostCall,
    PostFail, PostRejected, PostReply, WorkerEnd, PollFail, AgentDrain, AgentExit, AgentRestart,
    AgentInv, PollTypes
<1>3. /\ apc' \in {apc, "running", "draining", "exited"} /\ awaiting' \in {awaiting, None}
      /\ todo' \in {todo, {}} /\ seen' \in {seen, <<>>}
  BY DEF BackendStep, BackendRun, BackendRespond, BackendError, Respond, SendStep, PostCall, PostStart,
    PostFail, PostAgain, PostRejected, PostReply, WorkerEnd, PollFail, AgentDrain, AgentExit,
      AgentRestart
<1>4. PollTypes' /\ GetTypes'
  BY <1>1, <1>2, <1>3 DEF AgentInv, PollTypes, GetTypes
<1>5. SeenTypes'
  <2>1. <<>> \in Seq(IDs) /\ Len(<<>>) = 0 /\ 0 <= SeenLimit
    BY EmptySeq, RetriesAssumption
  <2>2. CASE seen' = <<>>
    BY <2>1, <2>2 DEF SeenTypes
  <2>3. CASE seen' = seen
    BY <2>3 DEF AgentInv, SeenTypes
  <2> QED BY <1>3, <2>2, <2>3
<1>6. \A i \in IDs : /\ wpc[i] = "none" <=> wpc'[i] = "none"
                     /\ wpc'[i] = "get" => wpc[i] = "get"
  BY DEF BackendStep, BackendRun, BackendRespond, BackendError, Respond, SendStep, PostCall, PostStart,
    PostFail, PostAgain, PostRejected, PostReply, WorkerEnd, PollFail, AgentDrain, AgentExit,
      AgentRestart,
    WorkInv, WorkTypes
<1>7. \A l \in Lists : batch[l] \subseteq IDs
  BY DEF IndInv, BaseInv, SerialInv, TypeOK
<1>8. OneWay' /\ CountsFromZero'
  BY <1>1, <1>3, <1>6, <1>7 DEF AgentInv, OneWay, CountsFromZero, PollTypes
<1>9. Untouched'
  <2>1. ASSUME NEW i \in IDs, wpc[i] = "none"
        PROVE backend'[i] = backend[i] /\ qpc'[i] = qpc[i] /\ attempt'[i] = attempt[i]
    <3>1. qpc[i] = "none"
      BY <2>1 DEF AgentInv, Untouched
    <3> QED BY <2>1, <3>1
      DEF BackendStep, BackendRun, BackendRespond, BackendError, Respond, SendStep, PostCall, PostStart,
        PostFail, PostAgain, PostRejected, PostReply, WorkerEnd, PollFail, AgentDrain, AgentExit,
        AgentRestart, WorkInv, WorkTypes
  <2> QED BY <1>1, <1>6, <2>1 DEF AgentInv, Untouched
<1> QED BY <1>4, <1>5, <1>8, <1>9 DEF AgentInv

\* Every step preserves it.
LEMMA NextAgent == ASSUME IndInv, WorkInv, AgentInv, [NextAll]_allVars PROVE AgentInv'
<1> USE DEF frontVars, mapVars, listVars, postVars
<1>1. ASSUME NEW f \in Frontends, ClientStep(f) \/ ProxyFrontend(f) PROVE AgentInv'
  BY <1>1, ProxyAgent DEF ClientStep, ProxyFrontend, FrontendStep, NewID, ClientActs, ClientCancel,
    ClientStall, ClientResume, NewIDStore, Register, Cancelled, FrontendEOF, ClientBroken, Cleanup
<1>2. ASSUME NEW p \in Posts, ProxyStep(p) \/ ProxyContextDone(p) \/ ProxyDeliver(p) PROVE AgentInv'
  BY <1>2, ProxyAgent DEF ProxyStep, ProxyParsed, ProxyReadFail, ProxyPump, ProxyContextDone,
    ProxyDeliver,
    PostParsed, PostParseFail, PostReadFail, PostContextDone, PostRead, PostEOF, PostWrite,
    PostWriteFail, Deliveries, Deliver
<1>3. ASSUME NEW l \in Lists, NEW f \in Frontends, ProxyReceive(l, f) PROVE AgentInv'
  BY <1>3, ReceiveAgent DEF ProxyReceive
<1> QED
  BY <1>1, <1>2, <1>3, PollAgent, DispatchAgent, GetAgent, OtherAgent DEF NextAll

\* The invariants of the proxy and of the agent hold together.
LEMMA Composed == ASSUME SerialIDs PROVE AllSpec => [](IndInv /\ WorkInv /\ AgentInv)
<1>1. Init /\ AgentInit => IndInv /\ WorkInv /\ AgentInv
  BY InitInv, InitWork, InitAgent
<1>2. IndInv /\ WorkInv /\ AgentInv /\ [NextAll]_allVars => (IndInv /\ WorkInv /\ AgentInv)'
  <2> SUFFICES ASSUME IndInv, WorkInv, AgentInv, [NextAll]_allVars
               PROVE IndInv' /\ WorkInv' /\ AgentInv'
    OBVIOUS
  <2>1. [Next]_vars
    BY ProxyNext
  <2> QED BY <2>1, NextInv, NextWork, NextAgent
<1> QED BY <1>1, <1>2, PTL DEF AllSpec

\* If no two calls of newID overlap, proxy, agent and backend implement the
\* promise of an exchange: no request runs twice, and no client is given the
\* response to a request that did not run or was not its own, whatever calls are
\* lost or repeated, whoever leaves, and however often the agent dies and comes
\* back.
THEOREM Refinement == ASSUME SerialIDs PROVE AllSpec => KeepsPromise
<1>1. Init /\ AgentInit => E!Init
  BY DEF Init, AgentInit, E!Init, Phase
<1>2. IndInv /\ WorkInv /\ AgentInv /\ [NextAll]_allVars => [E!Next]_<<[f \in Frontends |-> Phase(f)], runs>>
  <2> SUFFICES ASSUME IndInv, WorkInv, AgentInv, [NextAll]_allVars
               PROVE E!Next \/ (phaseOf' = phaseOf /\ runs' = runs)
    BY DEF phaseOf
  <2>1. CASE \E i \in IDs : BackendStep(i)
    BY <2>1, BackendRefines
  <2>2. CASE ~ \E i \in IDs : BackendStep(i)
    <3>1. UNCHANGED <<backend, runs>>
      BY <2>2, FreshWorker DEF NextAll, allVars, agentVars, sendVars, pollVars, workVars,
        ClientStep, ProxyFrontend, PollStep, PollStart, PollReply, PollReplyLost, PollEmpty,
        ProxyReceive, ProxyStep, ProxyParsed, ProxyReadFail, ProxyPump, ProxyContextDone,
        ProxyDeliver, Dispatch, StartWorker, GetStep, GetReply, GetReplyLost, GetUnparsed, GetFail,
        GetNotFound, GetAgain, SendStep, PostCall, PostFail, PostAgain, PostRejected, PostReply,
        WorkerEnd, PollFail, AgentDrain, AgentExit, AgentRestart
    <3>2. CASE Next
      BY <3>1, <3>2, ProxyRefines
    <3>3. CASE UNCHANGED vars
      BY <3>1, <3>3 DEF vars, frontVars, phaseOf, Phase
    <3> QED BY <3>2, <3>3, ProxyNext
  <2> QED BY <2>1, <2>2
<1> QED BY <1>1, <1>2, Composed, PTL DEF AllSpec, KeepsPromise, E!Spec

\* If no two calls of newID overlap, an ID is on its way to the agent in one place
\* at most, and one that is about to get a worker has had none, although a worker
\* starts afresh and an agent that was restarted has seen no ID (agent.go:208-236).
THEOREM OneWorker == ASSUME SerialIDs PROVE AllSpec => []OneWay
<1>1. AgentInv => OneWay
  BY DEF AgentInv
<1> QED BY <1>1, Composed, PTL

\* If no two calls of newID overlap, the variables of proxy and agent keep their
\* types: no worker makes more GETs or POSTs than its retries allow, even if the
\* agent is restarted in between, and none works on what it did not fetch
\* (agent.go:208-236, utils.go:247-268 and 357-400).
THEOREM AgentTypes == ASSUME SerialIDs PROVE AllSpec => []AgentTypeOK
<1>1. IndInv /\ WorkInv /\ AgentInv => AgentTypeOK
  <2> SUFFICES ASSUME IndInv, WorkInv, AgentInv PROVE AgentTypeOK
    OBVIOUS
  <2>1. runs \in [Frontends -> Nat]
    BY DEF WorkInv, WorkTypes
  <2> QED BY <2>1 DEF IndInv, BaseInv, SerialInv, WorkInv, WorkTypes, AgentInv, PollTypes, SeenTypes, GetTypes, AgentTypeOK
<1> QED BY <1>1, Composed, PTL

-----------------------------------------------------------------------------
(* Requests whose body is cut off *)

\* A client's body was read in a GET of the worker of its ID, which has counted
\* that GET or asks no more.
BodyRead ==
    \A f \in spent :
        /\ fpc[f] \notin Early
        /\ tries[id[f]] > 0 \/ wpc[id[f]] \in {"forward", "end"}

CutInv == BodyRead /\ CutOffOnlyAfterLoss

\* No body has been read.
LEMMA InitCut == Init /\ AgentInit => CutInv
BY DEF Init, AgentInit, CutInv, BodyRead, CutOffOnlyAfterLoss

\* Steps that leave the workers' requests and counts alone, and of the clients at
\* most make one leave.
LEMMA OtherCut ==
  ASSUME IndInv, CutInv, UNCHANGED <<tries, request, spent>>,
         \A f \in Frontends : fpc[f] \notin Early => fpc'[f] \notin Early /\ id'[f] = id[f],
         \A f \in Frontends : gone[f] => gone'[f],
         \A i \in IDs : wpc[i] \in {"forward", "end"} => wpc'[i] \in {"forward", "end"},
         \A i \in IDs : request[i] # None => request[i][2] \in Frontends
  PROVE CutInv'
<1>1. BodyRead'
  <2>1. \A f \in spent : f \in Frontends /\ id[f] \in IDs
    BY KindsAssumption DEF IndInv, BaseInv, TypeOK, DrawnID, CutInv, BodyRead, Early
  <2> QED BY <2>1 DEF CutInv, BodyRead
<1>2. CutOffOnlyAfterLoss'
  BY DEF CutInv, CutOffOnlyAfterLoss
<1> QED BY <1>1, <1>2 DEF CutInv

\* A GET: a worker that asks again has counted the GET that read the body.
LEMMA GetCut ==
  ASSUME IndInv, WorkInv, AgentInv, CutInv, NEW i \in IDs, GetStep(i)
  PROVE CutInv'
<1> USE DEF vars, pollVars, workVars, sendVars, frontVars, mapVars, listVars, postVars
<1>1. wpc[i] = "get" /\ tries[i] \in Nat
  BY RetriesAssumption
  DEF GetStep, GetReply, GetReplyLost, GetUnparsed, GetFail, GetNotFound, AgentInv,
    GetTypes
<1>2. /\ UNCHANGED <<fpc, id, gone>>
      /\ spent' = spent \/ (requests[i] # None /\ spent' \subseteq spent \cup {requests[i]})
  BY DEF GetStep, GetReply, GetReplyLost, GetUnparsed, GetFail, GetNotFound, GetRequest
<1>3. \A j \in IDs : j # i => tries'[j] = tries[j] /\ request'[j] = request[j] /\ wpc'[j] = wpc[j]
  BY DEF GetStep, GetReply, GetReplyLost, GetUnparsed, GetFail, GetNotFound, GetAgain, WorkInv,
    WorkTypes, AgentInv, GetTypes
<1>4. \/ tries'[i] = tries[i] + 1 /\ request' = request
      \/ wpc'[i] = "end" /\ tries' = tries /\ request' = request
      \/ \E whole \in BOOLEAN : GetReply(i, whole)
  <2>1. CASE GetAgain(i)
    BY <2>1 DEF GetAgain, AgentInv, GetTypes
  <2>2. CASE wpc' = [wpc EXCEPT ![i] = "end"] /\ tries' = tries /\ request' = request
    BY <2>2 DEF WorkInv, WorkTypes
  <2> QED BY <2>1, <2>2 DEF GetStep, GetReplyLost, GetUnparsed, GetFail, GetNotFound
<1>5. \/ tries'[i] = tries[i] + 1 /\ request'[i] = request[i]
      \/ wpc'[i] = "end" /\ tries'[i] = tries[i] /\ request'[i] = request[i]
      \/ \E whole \in WrittenWhole(requests[i]) :
            /\ wpc'[i] = "forward" /\ tries'[i] = tries[i] /\ requests[i] # None
            /\ request'[i] = <<i, requests[i], whole>>
  <2>1. ASSUME NEW whole \in BOOLEAN, GetReply(i, whole)
        PROVE /\ whole \in WrittenWhole(requests[i])
              /\ wpc'[i] = "forward" /\ tries'[i] = tries[i] /\ requests[i] # None
              /\ request'[i] = <<i, requests[i], whole>>
    BY <2>1 DEF GetReply, GetRequest, WorkInv, WorkTypes
  <2> QED BY <1>1, <1>4, <2>1
<1>6. requests[i] # None =>
         requests[i] \in Frontends /\ id[requests[i]] = i /\ fpc[requests[i]] \notin Early
  BY EntryOwner
<1>7. tries'[i] > 0 \/ wpc'[i] \in {"forward", "end"}
  BY <1>1, <1>5
<1>8. BodyRead'
  <2> SUFFICES ASSUME NEW f \in spent'
               PROVE fpc[f] \notin Early /\ (tries'[id[f]] > 0 \/ wpc'[id[f]] \in {"forward", "end"})
    BY <1>2 DEF BodyRead
  <2>1. CASE f \in spent
    <3>1. f \in Frontends /\ id[f] \in IDs /\ fpc[f] \notin Early
      BY <2>1, KindsAssumption DEF IndInv, BaseInv, TypeOK, DrawnID, CutInv, BodyRead, Early
    <3> QED BY <1>3, <1>7, <2>1, <3>1 DEF CutInv, BodyRead
  <2>2. CASE f = requests[i] /\ requests[i] # None
    BY <1>6, <1>7, <2>2
  <2> QED BY <1>2, <2>1, <2>2
<1>9. CutOffOnlyAfterLoss'
  <2> SUFFICES ASSUME NEW j \in IDs, request'[j] # None, ~request'[j][3]
               PROVE tries'[j] > 0 \/ gone[request'[j][2]]
    BY <1>2 DEF CutOffOnlyAfterLoss
  <2>1. CASE j # i
    BY <1>3, <2>1 DEF CutInv, CutOffOnlyAfterLoss
  <2>2. CASE j = i /\ request'[i] = request[i]
    BY <1>1, <1>5, <2>2 DEF CutInv, CutOffOnlyAfterLoss
  <2>3. CASE j = i /\ request'[i] # request[i]
    <3>1. PICK whole \in WrittenWhole(requests[i]) :
             tries'[i] = tries[i] /\ requests[i] # None /\ request'[i] = <<i, requests[i], whole>>
      BY <1>5, <2>3
    <3>2. ~whole
      BY <2>3, <3>1
    <3>3. requests[i] \in spent \/ gone[requests[i]]
      BY <3>2 DEF WrittenWhole
    <3>4. requests[i] \in spent => tries[i] > 0
      BY <1>1, <1>6, <3>1 DEF CutInv, BodyRead
    <3> QED BY <2>3, <3>1, <3>3, <3>4
  <2> QED BY <2>1, <2>2, <2>3
<1> QED BY <1>8, <1>9 DEF CutInv

\* Every step preserves it.
LEMMA NextCut == ASSUME IndInv, WorkInv, AgentInv, CutInv, [NextAll]_allVars PROVE CutInv'
<1> USE DEF vars, allVars, agentVars, pollVars, workVars, sendVars, frontVars, mapVars, listVars,
  postVars
<1>1. \A i \in IDs : request[i] # None => request[i][2] \in Frontends
  BY DEF AgentInv, GetTypes, IndInv, BaseInv, TypeOK
<1>2. CASE \E i \in IDs : GetStep(i)
  BY <1>2, GetCut
<1>3. CASE \E i \in IDs : Dispatch(i)
  <2>1. PICK i \in IDs : Dispatch(i)
    BY <1>3
  <2>2. wpc[i] = "none" /\ UNCHANGED <<tries, request>>
    BY <2>1, FreshWorker
  <2>3. tries[i] = 0
    BY <2>2 DEF AgentInv, CountsFromZero
  <2>4. UNCHANGED <<fpc, id, gone, spent>> /\ \A j \in IDs : j # i => wpc'[j] = wpc[j]
    BY <2>1 DEF Dispatch, StartWorker, WorkInv, WorkTypes
  <2>5. BodyRead'
    <3>1. \A f \in spent : id[f] \in IDs /\ id[f] # i
      BY <2>2, <2>3, KindsAssumption
      DEF CutInv, BodyRead, IndInv, BaseInv, TypeOK, DrawnID, Early
    <3> QED BY <2>2, <2>4, <3>1 DEF CutInv, BodyRead
  <2>6. CutOffOnlyAfterLoss'
    BY <2>2, <2>4 DEF CutInv, CutOffOnlyAfterLoss
  <2> QED BY <2>5, <2>6 DEF CutInv
<1>4. CASE \/ \E f \in Frontends : ClientStep(f) \/ ProxyFrontend(f)
           \/ \E l \in Lists, f \in Frontends : ProxyReceive(l, f)
           \/ \E p \in Posts : ProxyStep(p) \/ ProxyContextDone(p) \/ ProxyDeliver(p)
  <2> USE DEF ClientStep, ProxyFrontend, FrontendStep, NewID, ClientActs, ClientCancel, ClientStall,
        ClientResume, NewIDStore, Register, Cancelled, FrontendEOF, ClientBroken, Cleanup, ProxyReceive,
        ListReceive, ProxyStep, ProxyParsed, ProxyReadFail, ProxyPump, ProxyContextDone, ProxyDeliver,
        PostParsed, PostParseFail, PostReadFail, PostContextDone, PostRead, PostEOF, PostWrite,
        PostWriteFail, Deliveries, Deliver
  <2>1. UNCHANGED <<tries, request, wpc, spent>>
    BY <1>4
  <2>2. \A f \in Frontends : fpc[f] \notin Early => fpc'[f] \notin Early /\ id'[f] = id[f]
    BY <1>4 DEF IndInv, BaseInv, TypeOK, Early
  <2>3. \A f \in Frontends : gone[f] => gone'[f]
    BY <1>4 DEF IndInv, BaseInv, TypeOK
  <2> QED BY <1>1, <2>1, <2>2, <2>3, OtherCut
<1>5. CASE \/ \E l \in Lists : PollStep(l)
           \/ \E i \in IDs : BackendStep(i) \/ SendStep(i) \/ WorkerEnd(i)
           \/ PollFail \/ AgentDrain \/ AgentExit \/ AgentRestart \/ UNCHANGED allVars
  <2> USE DEF PollStep, PollStart, PollReply, PollReplyLost, PollEmpty, ListStart, ListReturn,
    ListTimeout,
        BackendStep, BackendRun, BackendRespond, BackendError, Respond, SendStep, PostCall, PostStart,
        PostFail, PostAgain, PostRejected, PostReply, WorkerEnd, PollFail, AgentDrain, AgentExit,
          AgentRestart
  <2>1. UNCHANGED <<tries, request, spent, fpc, id, gone>>
    BY <1>5
  <2>2. \A i \in IDs : wpc[i] \in {"forward", "end"} => wpc'[i] \in {"forward", "end"}
    BY <1>5 DEF WorkInv, WorkTypes
  <2> QED BY <1>1, <2>1, <2>2, OtherCut
<1> QED BY <1>2, <1>3, <1>4, <1>5 DEF NextAll

\* If no two calls of newID overlap, a worker holds a request that is cut off
\* only if the client has left or the worker itself lost the reply to a GET
\* (server.go:161-164, utils.go:255-268), however often the agent dies and is
\* started again.
THEOREM CutOff == ASSUME SerialIDs PROVE AllSpec => []CutOffOnlyAfterLoss
<1>1. Init /\ AgentInit => CutInv
  BY InitCut
<1>2. IndInv /\ WorkInv /\ AgentInv /\ CutInv /\ [NextAll]_allVars => CutInv'
  BY NextCut
<1>3. CutInv => CutOffOnlyAfterLoss
  BY DEF CutInv
<1> QED BY <1>1, <1>2, <1>3, Composed, PTL DEF AllSpec
=============================================================================
