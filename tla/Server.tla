------------------------------- MODULE Server -------------------------------
(***************************************************************************)
(* The stand-alone inverting proxy, src/server/server.go.                  *)
(*                                                                         *)
(* A `proxy` holds a map from request IDs to pending client requests and   *)
(* an unbuffered channel of request IDs.  Four kinds of goroutines use it: *)
(*   - handleFrontendRequest, one per client request: draw an ID, register *)
(*     the pending request, hand the ID to a list call, wait for the       *)
(*     response, copy its body to the client, delete the map entry;        *)
(*   - handleAgentListRequests: take at least one ID off the channel, then *)
(*     every other one that is on offer, and report them to the agent;     *)
(*   - handleAgentGetRequest: write the pending request to the agent;      *)
(*   - handleAgentPostResponse: look the pending request up, parse the     *)
(*     agent's response, offer it to the frontend call, and pump the body  *)
(*     through an io.Pipe.                                                 *)
(* Each goroutine has a program counter; a step is what runs between two   *)
(* points where another goroutine can be seen to run: a lock, a channel    *)
(* operation, a pipe rendezvous, a blocking read.  The agent and the       *)
(* clients are the environment.                                            *)
(***************************************************************************)
EXTENDS Naturals, FiniteSets

CONSTANTS
    Frontends,  \* calls of handleFrontendRequest
    Reading,    \* those made for a shim open or poll: they read the whole body
    Dropping,   \* those made for a shim data or close: they ignore the body
    WithBody,   \* those whose client request has a body
    Lists,      \* calls of handleAgentListRequests that may run at a time
    Posts,      \* calls of handleAgentPostResponse
    IDs,        \* what newID may return
    BodyLen,    \* chunks in the body of a response
    SerialIDs,  \* TRUE: no two calls of newID overlap
    None

ASSUME KindsAssumption ==
    /\ Reading \subseteq Frontends
    /\ Dropping \subseteq Frontends
    /\ Reading \cap Dropping = {}
    /\ WithBody \subseteq Frontends

ASSUME NoneAssumption == None \notin Frontends /\ None \notin Posts /\ None \notin IDs

ASSUME BoundsAssumption == BodyLen \in Nat /\ SerialIDs \in BOOLEAN

VARIABLES
    fpc,       \* where each frontend call is
    id,        \* the ID it drew
    gone,      \* whether its client has disconnected
    stalled,   \* whether its copy waits for a client that reads no more
    resp,      \* the POST whose response it took off respChan
    copied,    \* chunks of the body it has read from the pipe
    result,    \* what its client got
    unused,    \* the IDs the random source has not moved past
    requests,  \* proxy.requests
    spent,     \* frontend calls whose request body a GET has consumed
    lpc,       \* where each list call is
    batch,     \* the IDs it has received
    handed,    \* how many list calls received each ID
    told,      \* the IDs reported to the agent
    fetched,   \* <<i, f, whole>>: a GET for i was answered with f's request
    ppc,       \* where each POST call is
    answers,   \* the frontend call whose request the POSTed response answers
    pending    \* what the POST call found in proxy.requests

frontVars == <<fpc, id, gone, stalled, resp, copied, result>>
mapVars   == <<unused, requests, spent>>
listVars  == <<lpc, batch, handed, told>>
postVars  == <<ppc, answers, pending>>
vars      == <<frontVars, mapVars, listVars, fetched, postVars>>

FrontendStates == {"idle", "drawn", "register", "enqueue", "wait", "copy", "cleanup", "done"}
ListStates     == {"idle", "wait", "drain"}
PostRunning    == {"parse", "offer", "read", "write"}
PostReturned   == {"ok", "notfound", "badrequest", "aborted", "failed"}
PostStates     == {"idle"} \cup PostRunning \cup PostReturned
Results        == {"none", "complete", "broken", "dropped"}

\* The calls made for a client's own HTTP request; only their context ends
\* (newShimRequest builds its requests on the background context).
Plain == Frontends \ (Reading \cup Dropping)

\* The calls that have an entry in proxy.requests.
Registered == {f \in Frontends : fpc[f] \in {"enqueue", "wait", "copy", "cleanup"}}

\* net/http watches a connection for a disconnect only once the request body
\* has been read, so a request's context ends no earlier than that.
ContextDone(f) == gone[f] /\ (f \in WithBody => f \in spent)

\* The POST's end of the pipe is closed, by the deferred pw.Close().
WriterClosed(p) == ppc[p] \in PostReturned

\* The frontend's end of the pipe is closed: io.Copy to the client failed.
ReaderClosed(f) == result[f] = "broken"

Init ==
    /\ fpc = [f \in Frontends |-> "idle"]
    /\ id = [f \in Frontends |-> None]
    /\ gone = [f \in Frontends |-> FALSE]
    /\ stalled = [f \in Frontends |-> FALSE]
    /\ resp = [f \in Frontends |-> None]
    /\ copied = [f \in Frontends |-> 0]
    /\ result = [f \in Frontends |-> "none"]
    /\ unused = IDs
    /\ requests = [i \in IDs |-> None]
    /\ spent = {}
    /\ lpc = [l \in Lists |-> "idle"]
    /\ batch = [l \in Lists |-> {}]
    /\ handed = [i \in IDs |-> 0]
    /\ told = {}
    /\ fetched = {}
    /\ ppc = [p \in Posts |-> "idle"]
    /\ answers = [p \in Posts |-> None]
    /\ pending = [p \in Posts |-> None]

-----------------------------------------------------------------------------
(***************************************************************************)
(* Defects: forms of the steps below that plausible mistakes in the code   *)
(* would have.  No specification uses them; substituted for the step they  *)
(* vary, each makes one of the properties at the end of the module fail.   *)
(***************************************************************************)

\* newID with overlapping calls, as if nothing kept them apart.
NewIDOverlapping(f) ==
    /\ fpc[f] = "idle"
    /\ \E i \in unused : id' = [id EXCEPT ![f] = i]
    /\ fpc' = [fpc EXCEPT ![f] = "drawn"]
    /\ UNCHANGED <<gone, stalled, resp, copied, result, mapVars, listVars, fetched, postVars>>

\* The select around the send on p.requestIDs without its Done case.
CancelledOnlyWaiting(f) ==
    /\ fpc[f] = "wait"
    /\ ContextDone(f)
    /\ fpc' = [fpc EXCEPT ![f] = "cleanup"]
    /\ UNCHANGED <<id, gone, stalled, resp, copied, result, mapVars, listVars, fetched, postVars>>

\* Returning after the chunks that have arrived instead of at the end of the body.
FrontendStopsEarly(f) ==
    /\ fpc[f] = "copy"
    /\ copied[f] > 0
    /\ result' = [result EXCEPT ![f] = "complete"]
    /\ fpc' = [fpc EXCEPT ![f] = "cleanup"]
    /\ UNCHANGED <<id, gone, stalled, resp, copied, mapVars, listVars, fetched, postVars>>

\* Returning on a failed copy without resp.Body.Close().
ClientBrokenUnclosed(f) ==
    /\ fpc[f] = "copy"
    /\ gone[f]
    /\ copied[f] > 0
    /\ result' = [result EXCEPT ![f] = "none"]
    /\ fpc' = [fpc EXCEPT ![f] = "cleanup"]
    /\ UNCHANGED <<id, gone, stalled, resp, copied, mapVars, listVars, fetched, postVars>>

\* Returning without delete(p.requests, id).
CleanupWithoutDelete(f) ==
    /\ fpc[f] = "cleanup"
    /\ fpc' = [fpc EXCEPT ![f] = "done"]
    /\ UNCHANGED <<requests, id, gone, stalled, resp, copied, result, unused, spent, listVars, fetched, postVars>>

\* Reporting an ID that stays on offer to the next list call.
ListPeek(l, f) ==
    /\ lpc[l] \in {"wait", "drain"}
    /\ fpc[f] = "enqueue"
    /\ lpc' = [lpc EXCEPT ![l] = "drain"]
    /\ batch' = [batch EXCEPT ![l] = @ \cup {id[f]}]
    /\ handed' = [handed EXCEPT ![id[f]] = @ + 1]
    /\ UNCHANGED <<fpc, id, gone, stalled, resp, copied, result, mapVars, told, fetched, postVars>>

\* Looping back to the receive on respChan after a response.
DeliverAgain(p, f) ==
    /\ ppc[p] = "offer"
    /\ pending[p] = f
    /\ fpc[f] = "wait"
    /\ ppc' = [ppc EXCEPT ![p] = "read"]
    /\ resp' = [resp EXCEPT ![f] = p]
    /\ \E statusOK \in BOOLEAN :
         LET drop == f \in Dropping /\ statusOK
         IN  /\ fpc' = [fpc EXCEPT ![f] = "wait"]
             /\ result' = [result EXCEPT ![f] = IF drop THEN "dropped" ELSE "none"]
    /\ UNCHANGED <<id, gone, stalled, copied, mapVars, listVars, fetched, answers, pending>>

\* Reading on after the end of the body.
PostReadPastEnd(p) ==
    /\ ppc[p] = "read"
    /\ ppc' = [ppc EXCEPT ![p] = "write"]
    /\ UNCHANGED <<frontVars, mapVars, listVars, fetched, answers, pending>>

-----------------------------------------------------------------------------
(* handleFrontendRequest *)

\* newID reads the random source.  A rand.Rand is not safe for concurrent use
\* and nothing locks it: a call that overlaps another one can read the state
\* the other has read and not yet moved past.
NewID(f) ==
    /\ fpc[f] = "idle"
    /\ SerialIDs => \A g \in Frontends : fpc[g] # "drawn"
    /\ \E i \in unused : id' = [id EXCEPT ![f] = i]
    /\ fpc' = [fpc EXCEPT ![f] = "drawn"]
    /\ UNCHANGED <<gone, stalled, resp, copied, result, mapVars, listVars, fetched, postVars>>

\* ... and moves it past the value it returns.
NewIDStore(f) ==
    /\ fpc[f] = "drawn"
    /\ unused' = unused \ {id[f]}
    /\ fpc' = [fpc EXCEPT ![f] = "register"]
    /\ UNCHANGED <<id, gone, stalled, resp, copied, result, requests, spent, listVars, fetched, postVars>>

\* Under the lock: p.requests[id] = pending.
Register(f) ==
    /\ fpc[f] = "register"
    /\ requests' = [requests EXCEPT ![id[f]] = f]
    /\ fpc' = [fpc EXCEPT ![f] = "enqueue"]
    /\ UNCHANGED <<id, gone, stalled, resp, copied, result, unused, spent, listVars, fetched, postVars>>

\* Environment: the client disconnects or gives up.
ClientCancel(f) ==
    /\ f \in Plain
    /\ fpc[f] \in {"enqueue", "wait", "copy"}
    /\ ~gone[f]
    /\ gone' = [gone EXCEPT ![f] = TRUE]
    /\ UNCHANGED <<fpc, id, stalled, resp, copied, result, mapVars, listVars, fetched, postVars>>

\* Environment: the client stays and stops reading, so io.Copy waits in the
\* write of a chunk it has read: no write has a deadline.
ClientStall(f) ==
    /\ f \in Plain
    /\ fpc[f] = "copy"
    /\ copied[f] > 0
    /\ ~gone[f] /\ ~stalled[f]
    /\ stalled' = [stalled EXCEPT ![f] = TRUE]
    /\ UNCHANGED <<fpc, id, gone, resp, copied, result, mapVars, listVars, fetched, postVars>>

\* Environment: it reads on.
ClientResume(f) ==
    /\ stalled[f] /\ ~gone[f]
    /\ stalled' = [stalled EXCEPT ![f] = FALSE]
    /\ UNCHANGED <<fpc, id, gone, resp, copied, result, mapVars, listVars, fetched, postVars>>

\* Either select sees r.Context().Done().
Cancelled(f) ==
    /\ fpc[f] \in {"enqueue", "wait"}
    /\ ContextDone(f)
    /\ fpc' = [fpc EXCEPT ![f] = "cleanup"]
    /\ UNCHANGED <<id, gone, stalled, resp, copied, result, mapVars, listVars, fetched, postVars>>

\* io.Copy or ReadAll sees the end of the body: the POST closed its end of the
\* pipe.  pw.Close() reads as a clean end, whatever made the POST return.
FrontendEOF(f) ==
    /\ fpc[f] = "copy"
    /\ ~stalled[f]
    /\ WriterClosed(resp[f])
    /\ result' = [result EXCEPT ![f] = "complete"]
    /\ fpc' = [fpc EXCEPT ![f] = "cleanup"]
    /\ UNCHANGED <<id, gone, stalled, resp, copied, mapVars, listVars, fetched, postVars>>

\* io.Copy fails to write a chunk it has read to a client that is gone; it
\* returns and resp.Body.Close() closes the reading end of the pipe.
ClientBroken(f) ==
    /\ fpc[f] = "copy"
    /\ gone[f]
    /\ copied[f] > 0
    /\ result' = [result EXCEPT ![f] = "broken"]
    /\ fpc' = [fpc EXCEPT ![f] = "cleanup"]
    /\ UNCHANGED <<id, gone, stalled, resp, copied, mapVars, listVars, fetched, postVars>>

\* The deferred delete(p.requests, id), under the lock.
Cleanup(f) ==
    /\ fpc[f] = "cleanup"
    /\ requests' = [requests EXCEPT ![id[f]] = None]
    /\ fpc' = [fpc EXCEPT ![f] = "done"]
    /\ UNCHANGED <<id, gone, stalled, resp, copied, result, unused, spent, listVars, fetched, postVars>>

-----------------------------------------------------------------------------
(* handleAgentListRequests and waitForRequestIDs *)

ListStart(l) ==
    /\ lpc[l] = "idle"
    /\ lpc' = [lpc EXCEPT ![l] = "wait"]
    /\ UNCHANGED <<frontVars, mapVars, batch, handed, told, fetched, postVars>>

\* The rendezvous on p.requestIDs: the first receive blocks, the later ones
\* take what is on offer.
ListReceive(l, f) ==
    /\ lpc[l] \in {"wait", "drain"}
    /\ fpc[f] = "enqueue"
    /\ lpc' = [lpc EXCEPT ![l] = "drain"]
    /\ batch' = [batch EXCEPT ![l] = @ \cup {id[f]}]
    /\ handed' = [handed EXCEPT ![id[f]] = @ + 1]
    /\ fpc' = [fpc EXCEPT ![f] = "wait"]
    /\ UNCHANGED <<id, gone, stalled, resp, copied, result, mapVars, told, fetched, postVars>>

\* ctx.Done() or 30 seconds without an ID: an empty list is returned.
ListTimeout(l) ==
    /\ lpc[l] = "wait"
    /\ lpc' = [lpc EXCEPT ![l] = "idle"]
    /\ UNCHANGED <<frontVars, mapVars, batch, handed, told, fetched, postVars>>

\* The default branch: the IDs are written to the agent, which may have hung
\* up.  The IDs of a lost reply are not put back.
ListReturn(l, delivered) ==
    /\ lpc[l] = "drain"
    /\ told' = IF delivered THEN told \cup batch[l] ELSE told
    /\ lpc' = [lpc EXCEPT ![l] = "idle"]
    /\ batch' = [batch EXCEPT ![l] = {}]
    /\ UNCHANGED <<frontVars, mapVars, handed, fetched, postVars>>

-----------------------------------------------------------------------------
(* handleAgentGetRequest *)

\* Whether what req.Write(w) sends is the whole request.  The client's body can
\* be read only once, so a second GET gets a request that is cut off, and so
\* may the first one if the client is gone.
WrittenWhole(f) ==
    {w \in BOOLEAN :
        /\ f \in WithBody /\ f \in spent => ~w
        /\ ~w => f \in WithBody /\ (f \in spent \/ gone[f])}

\* Write the pending request to the agent.  (For an ID that is not in the map
\* the handler answers 404 and changes nothing.)
GetRequest(i, whole) ==
    /\ i \in told
    /\ requests[i] # None
    /\ whole \in WrittenWhole(requests[i])
    /\ fetched' = fetched \cup {<<i, requests[i], whole>>}
    /\ spent' = spent \cup ({requests[i]} \cap WithBody)
    /\ UNCHANGED <<frontVars, unused, requests, listVars, postVars>>

-----------------------------------------------------------------------------
(* handleAgentPostResponse *)

\* The lookup.  The agent posts, under the ID it was given, the response to
\* the request it fetched under that ID.
PostStart(p, q) ==
    /\ ppc[p] = "idle"
    /\ q \in fetched
    /\ answers' = [answers EXCEPT ![p] = q[2]]
    /\ pending' = [pending EXCEPT ![p] = requests[q[1]]]
    /\ ppc' = [ppc EXCEPT ![p] = IF requests[q[1]] = None THEN "notfound" ELSE "parse"]
    /\ UNCHANGED <<frontVars, mapVars, listVars, fetched>>

\* http.ReadResponse returns once the agent has sent the header, ...
PostParsed(p) ==
    /\ ppc[p] = "parse"
    /\ ppc' = [ppc EXCEPT ![p] = "offer"]
    /\ UNCHANGED <<frontVars, mapVars, listVars, fetched, answers, pending>>

\* ... or fails.
PostParseFail(p) ==
    /\ ppc[p] = "parse"
    /\ ppc' = [ppc EXCEPT ![p] = "badrequest"]
    /\ UNCHANGED <<frontVars, mapVars, listVars, fetched, answers, pending>>

\* The agent hung up while the response was on offer.
PostContextDone(p) ==
    /\ ppc[p] = "offer"
    /\ ppc' = [ppc EXCEPT ![p] = "aborted"]
    /\ UNCHANGED <<frontVars, mapVars, listVars, fetched, answers, pending>>

\* The rendezvous on pending.respChan.  A shim data or close call that gets
\* status 200 returns without looking at the body; it does not close it.
Deliver(p, f) ==
    /\ ppc[p] = "offer"
    /\ pending[p] = f
    /\ fpc[f] = "wait"
    /\ ppc' = [ppc EXCEPT ![p] = "read"]
    /\ resp' = [resp EXCEPT ![f] = p]
    /\ \E statusOK \in BOOLEAN :
         LET drop == f \in Dropping /\ statusOK
         IN  /\ fpc' = [fpc EXCEPT ![f] = IF drop THEN "cleanup" ELSE "copy"]
             /\ result' = [result EXCEPT ![f] = IF drop THEN "dropped" ELSE "none"]
    /\ UNCHANGED <<id, gone, stalled, copied, mapVars, listVars, fetched, answers, pending>>

\* io.Copy(pw, respBody) reads a chunk from the agent, ...
PostRead(p) ==
    /\ ppc[p] = "read"
    /\ copied[pending[p]] < BodyLen
    /\ ppc' = [ppc EXCEPT ![p] = "write"]
    /\ UNCHANGED <<frontVars, mapVars, listVars, fetched, answers, pending>>

\* ... or an error, and answers 500; the deferred pw.Close() runs.
PostReadFail(p) ==
    /\ ppc[p] = "read"
    /\ ppc' = [ppc EXCEPT ![p] = "failed"]
    /\ UNCHANGED <<frontVars, mapVars, listVars, fetched, answers, pending>>

\* ... or the end of the body, and answers 200.
PostEOF(p) ==
    /\ ppc[p] = "read"
    /\ copied[pending[p]] = BodyLen
    /\ ppc' = [ppc EXCEPT ![p] = "ok"]
    /\ UNCHANGED <<frontVars, mapVars, listVars, fetched, answers, pending>>

\* The pipe rendezvous: Write returns when the chunk has been read, which the
\* frontend call does when it is not writing the last one to its client.
PostWrite(p) ==
    /\ ppc[p] = "write"
    /\ fpc[pending[p]] = "copy"
    /\ ~stalled[pending[p]]
    /\ copied' = [copied EXCEPT ![pending[p]] = @ + 1]
    /\ ppc' = [ppc EXCEPT ![p] = "read"]
    /\ UNCHANGED <<fpc, id, gone, stalled, resp, result, mapVars, listVars, fetched, answers, pending>>

\* Write fails because the reading end is closed.
PostWriteFail(p) ==
    /\ ppc[p] = "write"
    /\ ReaderClosed(pending[p])
    /\ ppc' = [ppc EXCEPT ![p] = "failed"]
    /\ UNCHANGED <<frontVars, mapVars, listVars, fetched, answers, pending>>

-----------------------------------------------------------------------------
FrontendStep(f) ==
    \/ NewIDStore(f)
    \/ Register(f)
    \/ Cancelled(f)
    \/ FrontendEOF(f)
    \/ ClientBroken(f)
    \/ Cleanup(f)

ClientActs(f) == ClientCancel(f) \/ ClientStall(f) \/ ClientResume(f)

PostStep(p) ==
    \/ PostParsed(p)
    \/ PostParseFail(p)
    \/ PostRead(p)
    \/ PostReadFail(p)
    \/ PostEOF(p)
    \/ PostWrite(p)
    \/ PostWriteFail(p)

ListReply(l) == \E delivered \in BOOLEAN : ListReturn(l, delivered)

Deliveries(p) == \E f \in Frontends : Deliver(p, f)

Next ==
    \/ \E f \in Frontends : NewID(f) \/ ClientActs(f) \/ FrontendStep(f)
    \/ \E l \in Lists : ListStart(l) \/ ListTimeout(l) \/ ListReply(l)
    \/ \E l \in Lists, f \in Frontends : ListReceive(l, f)
    \/ \E i \in IDs, whole \in BOOLEAN : GetRequest(i, whole)
    \/ \E p \in Posts, q \in fetched : PostStart(p, q)
    \/ \E p \in Posts : PostContextDone(p) \/ PostStep(p) \/ Deliveries(p)

Spec == Init /\ [][Next]_vars

(***************************************************************************)
(* Fairness.  The Go scheduler runs a goroutine that can take a step, and  *)
(* a select one of whose cases stays ready proceeds.  Reading from the     *)
(* agent ends in data, the end of the body or an error, since the agent's  *)
(* http.Client has a Timeout.  A client leaves, stops reading and reads on *)
(* at will: no step of a client, and no list, GET or POST call, has to be  *)
(* made, and no POST's context has to end.                                 *)
(***************************************************************************)
FairSpec ==
    /\ Spec
    /\ \A f \in Frontends : WF_vars(FrontendStep(f))
    /\ \A p \in Posts : WF_vars(PostStep(p)) /\ WF_vars(Deliveries(p))
    /\ \A l \in Lists : WF_vars(ListReply(l))
-----------------------------------------------------------------------------
(* Properties *)

TypeOK ==
    /\ fpc \in [Frontends -> FrontendStates]
    /\ id \in [Frontends -> IDs \cup {None}]
    /\ gone \in [Frontends -> BOOLEAN]
    /\ stalled \in [Frontends -> BOOLEAN]
    /\ resp \in [Frontends -> Posts \cup {None}]
    /\ copied \in [Frontends -> 0 .. BodyLen]
    /\ result \in [Frontends -> Results]
    /\ unused \subseteq IDs
    /\ requests \in [IDs -> Frontends \cup {None}]
    /\ spent \subseteq WithBody
    /\ lpc \in [Lists -> ListStates]
    /\ batch \in [Lists -> SUBSET IDs]
    /\ handed \in [IDs -> Nat]
    /\ told \subseteq IDs
    /\ fetched \subseteq IDs \X Frontends \X BOOLEAN
    /\ ppc \in [Posts -> PostStates]
    /\ answers \in [Posts -> Frontends \cup {None}]
    /\ pending \in [Posts -> Frontends \cup {None}]

\* A client gets the backend's response to its own request: the response a
\* frontend call takes off respChan answers that call's request.
ResponseMatchesRequest ==
    \A f \in Frontends : resp[f] # None => answers[resp[f]] = f

\* proxy.requests holds exactly the calls between their insertion and their
\* deferred delete, each under its own ID: no entry is overwritten, deleted by
\* another call or left behind.
RequestsMapExact ==
    \A i \in IDs, f \in Frontends :
        requests[i] = f <=> f \in Registered /\ id[f] = i

\* waitForRequestIDs: an ID that one list call returned is never returned again,
\* so no request is forwarded to the backend by two agents.
HandedOutOnce == \A i \in IDs : handed[i] <= 1

Delivered(p) == ppc[p] \in {"read", "write", "ok", "failed"}

\* However often the agent retries a POST, one of them at most gets to feed a
\* given client: the others are still waiting, or were refused.
SingleDelivery ==
    \A p, q \in Posts :
        p # q /\ Delivered(p) /\ Delivered(q) => pending[p] # pending[q]

\* A client that is given the end of a body that was not all there has an
\* agent that was told so: its POST was answered with status 500.
TruncatedOnlyIfAgentFailed ==
    \A f \in Frontends :
        result[f] = "complete" /\ copied[f] < BodyLen => ppc[resp[f]] = "failed"

\* A frontend call waits for a client that is there and does not read.
Waits(f) == stalled[f] /\ ~gone[f]

\* A POST whose response a frontend call took returns, unless that call was for
\* a shim data or close request, or its client stays without reading: no pipe
\* end is left open with the other waiting, and a client that stopped reading
\* and then leaves or reads on does not keep the POST.
DeliveredPostReturns ==
    \A p \in Posts, f \in Frontends \ Dropping :
        Delivered(p) /\ pending[p] = f ~> ppc[p] \in PostReturned \/ Waits(f)

\* A client that gives up is let go, whatever the agent does: the call leaves
\* its selects or its copy loop, and deletes its map entry.
CancelReleases ==
    \A f \in Frontends : ContextDone(f) ~> fpc[f] = "done"
=============================================================================
