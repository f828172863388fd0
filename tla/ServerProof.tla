---------------------------- MODULE ServerProof ----------------------------
(***************************************************************************)
(* Safety of the stand-alone proxy, for any sets of calls, any IDs and any *)
(* length of a body.  What concerns the POSTs and the pump holds however   *)
(* the calls of newID overlap (BaseInv); what depends on an ID naming one  *)
(* call is proved for calls that do not (SerialInv, under SerialIDs).      *)
(***************************************************************************)
EXTENDS Server, TLAPS

Early == {"idle", "drawn", "register"}

-----------------------------------------------------------------------------
(* What holds whichever IDs are drawn *)

\* A call that is past newID has an ID.
DrawnID == \A f \in Frontends : fpc[f] # "idle" => id[f] \in IDs

\* A map entry is that of a call in flight, under an ID that it has drawn.
EntryOwned ==
    \A i \in IDs, f \in Frontends : requests[i] = f => f \in Registered /\ id[f] = i

\* A POST that was not refused holds a pending request.
PostHolds ==
    \A p \in Posts : ppc[p] \notin {"idle", "notfound"} =>
        pending[p] \in Frontends /\ fpc[pending[p]] \notin Early

\* A call that took a response took it from a POST that holds that call, ...
TakenFrom ==
    \A f \in Frontends :
        /\ resp[f] # None => Delivered(resp[f]) /\ pending[resp[f]] = f
        /\ fpc[f] \in Early \cup {"enqueue", "wait"} => resp[f] = None
        /\ fpc[f] = "copy" => resp[f] # None
        /\ result[f] = "complete" =>
              resp[f] # None /\ ppc[resp[f]] \in {"ok", "failed"}

\* ... and the other way round; the number of chunks bounds the pump.
DeliveredTo ==
    \A p \in Posts : Delivered(p) =>
        /\ resp[pending[p]] = p
        /\ ppc[p] = "write" => copied[pending[p]] < BodyLen
        /\ ppc[p] = "ok" => copied[pending[p]] = BodyLen

BaseInv == TypeOK /\ DrawnID /\ EntryOwned /\ PostHolds /\ TakenFrom /\ DeliveredTo

\* The initial state satisfies it.
LEMMA InitBase == Init => BaseInv
BY KindsAssumption, NoneAssumption, BoundsAssumption
DEF Init, BaseInv, TypeOK, DrawnID, EntryOwned, PostHolds, TakenFrom, DeliveredTo, Delivered,
    Registered, Early, FrontendStates, ListStates, PostStates, Results

\* Every step preserves it.
LEMMA NextBase == ASSUME BaseInv, [Next]_vars PROVE BaseInv'
<1> USE KindsAssumption, NoneAssumption, BoundsAssumption
<1> USE DEF BaseInv, vars, frontVars, mapVars, listVars, postVars
<1>1. ASSUME NEW f \in Frontends, NewID(f) PROVE BaseInv'
  <2>1. TypeOK'
    BY <1>1 DEF NewID, TypeOK, FrontendStates, ListStates, PostStates, PostRunning,
      PostReturned, Results
  <2>2. DrawnID'
    BY <1>1 DEF NewID, TypeOK, DrawnID
  <2>3. EntryOwned'
    BY <1>1 DEF NewID, TypeOK, DrawnID, EntryOwned, Registered
  <2>4. PostHolds'
    BY <1>1 DEF NewID, TypeOK, PostHolds, Early
  <2>5. TakenFrom'
    BY <1>1 DEF NewID, TypeOK, TakenFrom, PostHolds, DeliveredTo, Delivered, Early
  <2>6. DeliveredTo'
    BY <1>1 DEF NewID, DeliveredTo, Delivered
  <2> QED BY <2>1, <2>2, <2>3, <2>4, <2>5, <2>6
<1>2. ASSUME NEW f \in Frontends, NewIDStore(f) PROVE BaseInv'
  <2>1. TypeOK'
    BY <1>2 DEF NewIDStore, TypeOK, FrontendStates, ListStates, PostStates, PostRunning,
      PostReturned, Results
  <2>2. DrawnID'
    BY <1>2 DEF NewIDStore, TypeOK, DrawnID
  <2>3. EntryOwned'
    BY <1>2 DEF NewIDStore, TypeOK, DrawnID, EntryOwned, Registered
  <2>4. PostHolds'
    BY <1>2 DEF NewIDStore, TypeOK, PostHolds, Early
  <2>5. TakenFrom'
    BY <1>2 DEF NewIDStore, TypeOK, TakenFrom, PostHolds, DeliveredTo, Delivered, Early
  <2>6. DeliveredTo'
    BY <1>2 DEF NewIDStore, DeliveredTo, Delivered
  <2> QED BY <2>1, <2>2, <2>3, <2>4, <2>5, <2>6
<1>3. ASSUME NEW f \in Frontends, Register(f) PROVE BaseInv'
  <2>1. TypeOK'
    BY <1>3 DEF Register, TypeOK, FrontendStates, ListStates, PostStates, PostRunning,
      PostReturned, Results
  <2>2. DrawnID'
    BY <1>3 DEF Register, TypeOK, DrawnID
  <2>3. EntryOwned'
    BY <1>3 DEF Register, TypeOK, DrawnID, EntryOwned, Registered
  <2>4. PostHolds'
    BY <1>3 DEF Register, TypeOK, PostHolds, Early
  <2>5. TakenFrom'
    BY <1>3 DEF Register, TypeOK, TakenFrom, PostHolds, DeliveredTo, Delivered, Early
  <2>6. DeliveredTo'
    BY <1>3 DEF Register, DeliveredTo, Delivered
  <2> QED BY <2>1, <2>2, <2>3, <2>4, <2>5, <2>6
<1>4. ASSUME NEW f \in Frontends, ClientActs(f) PROVE BaseInv'
  <2>1. TypeOK'
    BY <1>4 DEF ClientActs, ClientCancel, ClientStall, ClientResume, Plain, TypeOK,
      FrontendStates, ListStates, PostStates, PostRunning, PostReturned, Results
  <2>2. DrawnID' /\ EntryOwned' /\ PostHolds' /\ TakenFrom' /\ DeliveredTo'
    BY <1>4 DEF ClientActs, ClientCancel, ClientStall, ClientResume, Plain, DrawnID,
      EntryOwned, Registered, PostHolds, TakenFrom, Delivered, DeliveredTo
  <2> QED BY <2>1, <2>2
<1>5. ASSUME NEW f \in Frontends, Cancelled(f) PROVE BaseInv'
  <2>1. TypeOK'
    BY <1>5 DEF Cancelled, ContextDone, TypeOK, FrontendStates, ListStates, PostStates,
      PostRunning, PostReturned, Results
  <2>2. DrawnID'
    BY <1>5 DEF Cancelled, ContextDone, TypeOK, DrawnID
  <2>3. EntryOwned'
    BY <1>5 DEF Cancelled, ContextDone, TypeOK, DrawnID, EntryOwned, Registered
  <2>4. PostHolds'
    BY <1>5 DEF Cancelled, ContextDone, TypeOK, PostHolds, Early
  <2>5. TakenFrom'
    BY <1>5 DEF Cancelled, ContextDone, TypeOK, TakenFrom, PostHolds, DeliveredTo,
      Delivered, Early
  <2>6. DeliveredTo'
    BY <1>5 DEF Cancelled, ContextDone, DeliveredTo, Delivered
  <2> QED BY <2>1, <2>2, <2>3, <2>4, <2>5, <2>6
<1>6. ASSUME NEW f \in Frontends, FrontendEOF(f) PROVE BaseInv'
  <2>1. TypeOK'
    BY <1>6 DEF FrontendEOF, WriterClosed, TypeOK, FrontendStates, ListStates, PostStates,
      PostRunning, PostReturned, Results
  <2>2. DrawnID'
    BY <1>6 DEF FrontendEOF, WriterClosed, TypeOK, DrawnID
  <2>3. EntryOwned'
    BY <1>6 DEF FrontendEOF, WriterClosed, TypeOK, DrawnID, EntryOwned, Registered
  <2>4. PostHolds'
    BY <1>6 DEF FrontendEOF, WriterClosed, TypeOK, PostHolds, Early
  <2>5. TakenFrom'
    BY <1>6 DEF FrontendEOF, WriterClosed, TypeOK, TakenFrom, PostHolds, DeliveredTo,
      Delivered, Early, PostReturned
  <2>6. DeliveredTo'
    BY <1>6 DEF FrontendEOF, WriterClosed, DeliveredTo, Delivered
  <2> QED BY <2>1, <2>2, <2>3, <2>4, <2>5, <2>6
<1>7. ASSUME NEW f \in Frontends, ClientBroken(f) PROVE BaseInv'
  <2>1. TypeOK'
    BY <1>7 DEF ClientBroken, TypeOK, FrontendStates, ListStates, PostStates, PostRunning,
      PostReturned, Results
  <2>2. DrawnID'
    BY <1>7 DEF ClientBroken, TypeOK, DrawnID
  <2>3. EntryOwned'
    BY <1>7 DEF ClientBroken, TypeOK, DrawnID, EntryOwned, Registered
  <2>4. PostHolds'
    BY <1>7 DEF ClientBroken, TypeOK, PostHolds, Early
  <2>5. TakenFrom'
    BY <1>7 DEF ClientBroken, TypeOK, TakenFrom, PostHolds, DeliveredTo, Delivered, Early
  <2>6. DeliveredTo'
    BY <1>7 DEF ClientBroken, DeliveredTo, Delivered
  <2> QED BY <2>1, <2>2, <2>3, <2>4, <2>5, <2>6
<1>8. ASSUME NEW f \in Frontends, Cleanup(f) PROVE BaseInv'
  <2>1. TypeOK'
    BY <1>8 DEF Cleanup, TypeOK, FrontendStates, ListStates, PostStates, PostRunning,
      PostReturned, Results
  <2>2. DrawnID'
    BY <1>8 DEF Cleanup, TypeOK, DrawnID
  <2>3. EntryOwned'
    BY <1>8 DEF Cleanup, TypeOK, DrawnID, EntryOwned, Registered
  <2>4. PostHolds'
    BY <1>8 DEF Cleanup, TypeOK, PostHolds, Early
  <2>5. TakenFrom'
    BY <1>8 DEF Cleanup, TypeOK, TakenFrom, PostHolds, DeliveredTo, Delivered, Early
  <2>6. DeliveredTo'
    BY <1>8 DEF Cleanup, DeliveredTo, Delivered
  <2> QED BY <2>1, <2>2, <2>3, <2>4, <2>5, <2>6
<1>9. ASSUME NEW l \in Lists, ListStart(l) PROVE BaseInv'
  <2>1. TypeOK'
    BY <1>9 DEF ListStart, TypeOK, FrontendStates, ListStates, PostStates, PostRunning,
      PostReturned, Results
  <2>2. DrawnID' /\ EntryOwned' /\ PostHolds' /\ TakenFrom' /\ DeliveredTo'
    BY <1>9 DEF ListStart, DrawnID, EntryOwned, Registered, PostHolds, TakenFrom, Delivered,
      DeliveredTo
  <2> QED BY <2>1, <2>2
<1>10. ASSUME NEW l \in Lists, ListTimeout(l) PROVE BaseInv'
  <2>1. TypeOK'
    BY <1>10 DEF ListTimeout, TypeOK, FrontendStates, ListStates, PostStates, PostRunning,
      PostReturned, Results
  <2>2. DrawnID' /\ EntryOwned' /\ PostHolds' /\ TakenFrom' /\ DeliveredTo'
    BY <1>10 DEF ListTimeout, DrawnID, EntryOwned, Registered, PostHolds, TakenFrom,
      Delivered, DeliveredTo
  <2> QED BY <2>1, <2>2
<1>11. ASSUME NEW l \in Lists, NEW d \in BOOLEAN, ListReturn(l, d) PROVE BaseInv'
  <2>1. TypeOK'
    BY <1>11 DEF ListReturn, TypeOK, FrontendStates, ListStates, PostStates, PostRunning,
      PostReturned, Results
  <2>2. DrawnID' /\ EntryOwned' /\ PostHolds' /\ TakenFrom' /\ DeliveredTo'
    BY <1>11 DEF ListReturn, DrawnID, EntryOwned, Registered, PostHolds, TakenFrom,
      Delivered, DeliveredTo
  <2> QED BY <2>1, <2>2
<1>12. ASSUME NEW l \in Lists, NEW f \in Frontends, ListReceive(l, f) PROVE BaseInv'
  <2>1. TypeOK'
    BY <1>12 DEF ListReceive, TypeOK, FrontendStates, ListStates, PostStates, PostRunning,
      PostReturned, Results, DrawnID
  <2>2. DrawnID'
    BY <1>12 DEF ListReceive, TypeOK, DrawnID
  <2>3. EntryOwned'
    BY <1>12 DEF ListReceive, TypeOK, DrawnID, EntryOwned, Registered
  <2>4. PostHolds'
    BY <1>12 DEF ListReceive, TypeOK, PostHolds, Early
  <2>5. TakenFrom'
    BY <1>12 DEF ListReceive, TypeOK, TakenFrom, PostHolds, DeliveredTo, Delivered, Early
  <2>6. DeliveredTo'
    BY <1>12 DEF ListReceive, DeliveredTo, Delivered
  <2> QED BY <2>1, <2>2, <2>3, <2>4, <2>5, <2>6
<1>13. ASSUME NEW i \in IDs, NEW w \in BOOLEAN, GetRequest(i, w) PROVE BaseInv'
  <2>1. TypeOK'
    BY <1>13 DEF GetRequest, WrittenWhole, TypeOK, FrontendStates, ListStates, PostStates,
      PostRunning, PostReturned, Results
  <2>2. DrawnID' /\ EntryOwned' /\ PostHolds' /\ TakenFrom' /\ DeliveredTo'
    BY <1>13 DEF GetRequest, WrittenWhole, DrawnID, EntryOwned, Registered, PostHolds,
      TakenFrom, Delivered, DeliveredTo
  <2> QED BY <2>1, <2>2
<1>14. ASSUME NEW p \in Posts, NEW q \in fetched, PostStart(p, q) PROVE BaseInv'
  <2>1. TypeOK'
    BY <1>14 DEF PostStart, TypeOK, FrontendStates, ListStates, PostStates, PostRunning,
      PostReturned, Results
  <2>2. DrawnID' /\ EntryOwned'
    BY <1>14 DEF PostStart, DrawnID, EntryOwned, Registered
  <2>3. PostHolds'
    BY <1>14 DEF PostStart, TypeOK, PostHolds, EntryOwned, Registered, Early
  <2>4. TakenFrom'
    BY <1>14 DEF PostStart, TypeOK, TakenFrom, PostHolds, DeliveredTo, Delivered, Early
  <2>5. DeliveredTo'
    BY <1>14 DEF PostStart, TypeOK, PostHolds, TakenFrom, DeliveredTo, Delivered, Early
  <2> QED BY <2>1, <2>2, <2>3, <2>4, <2>5
<1>15. ASSUME NEW p \in Posts, PostParsed(p) PROVE BaseInv'
  <2>1. TypeOK'
    BY <1>15 DEF PostParsed, TypeOK, FrontendStates, ListStates, PostStates, PostRunning,
      PostReturned, Results
  <2>2. DrawnID' /\ EntryOwned'
    BY <1>15 DEF PostParsed, DrawnID, EntryOwned, Registered
  <2>3. PostHolds'
    BY <1>15 DEF PostParsed, TypeOK, PostHolds, EntryOwned, Registered, Early
  <2>4. TakenFrom'
    BY <1>15 DEF PostParsed, TypeOK, TakenFrom, PostHolds, DeliveredTo, Delivered, Early
  <2>5. DeliveredTo'
    BY <1>15 DEF PostParsed, TypeOK, PostHolds, TakenFrom, DeliveredTo, Delivered, Early
  <2> QED BY <2>1, <2>2, <2>3, <2>4, <2>5
<1>16. ASSUME NEW p \in Posts, PostParseFail(p) PROVE BaseInv'
  <2>1. TypeOK'
    BY <1>16 DEF PostParseFail, TypeOK, FrontendStates, ListStates, PostStates, PostRunning,
      PostReturned, Results
  <2>2. DrawnID' /\ EntryOwned'
    BY <1>16 DEF PostParseFail, DrawnID, EntryOwned, Registered
  <2>3. PostHolds'
    BY <1>16 DEF PostParseFail, TypeOK, PostHolds, EntryOwned, Registered, Early
  <2>4. TakenFrom'
    BY <1>16 DEF PostParseFail, TypeOK, TakenFrom, PostHolds, DeliveredTo, Delivered, Early
  <2>5. DeliveredTo'
    BY <1>16 DEF PostParseFail, TypeOK, PostHolds, TakenFrom, DeliveredTo, Delivered, Early
  <2> QED BY <2>1, <2>2, <2>3, <2>4, <2>5
<1>17. ASSUME NEW p \in Posts, PostContextDone(p) PROVE BaseInv'
  <2>1. TypeOK'
    BY <1>17 DEF PostContextDone, TypeOK, FrontendStates, ListStates, PostStates,
      PostRunning, PostReturned, Results
  <2>2. DrawnID' /\ EntryOwned'
    BY <1>17 DEF PostContextDone, DrawnID, EntryOwned, Registered
  <2>3. PostHolds'
    BY <1>17 DEF PostContextDone, TypeOK, PostHolds, EntryOwned, Registered, Early
  <2>4. TakenFrom'
    BY <1>17 DEF PostContextDone, TypeOK, TakenFrom, PostHolds, DeliveredTo, Delivered,
      Early
  <2>5. DeliveredTo'
    BY <1>17 DEF PostContextDone, TypeOK, PostHolds, TakenFrom, DeliveredTo, Delivered,
      Early
  <2> QED BY <2>1, <2>2, <2>3, <2>4, <2>5
<1>18. ASSUME NEW p \in Posts, PostRead(p) PROVE BaseInv'
  <2>1. TypeOK'
    BY <1>18 DEF PostRead, TypeOK, FrontendStates, ListStates, PostStates, PostRunning,
      PostReturned, Results
  <2>2. DrawnID' /\ EntryOwned'
    BY <1>18 DEF PostRead, DrawnID, EntryOwned, Registered
  <2>3. PostHolds'
    BY <1>18 DEF PostRead, TypeOK, PostHolds, EntryOwned, Registered, Early
  <2>4. TakenFrom'
    BY <1>18 DEF PostRead, TypeOK, TakenFrom, PostHolds, DeliveredTo, Delivered, Early
  <2>5. DeliveredTo'
    BY <1>18 DEF PostRead, TypeOK, PostHolds, TakenFrom, DeliveredTo, Delivered, Early
  <2> QED BY <2>1, <2>2, <2>3, <2>4, <2>5
<1>19. ASSUME NEW p \in Posts, PostReadFail(p) PROVE BaseInv'
  <2>1. TypeOK'
    BY <1>19 DEF PostReadFail, TypeOK, FrontendStates, ListStates, PostStates, PostRunning,
      PostReturned, Results
  <2>2. DrawnID' /\ EntryOwned'
    BY <1>19 DEF PostReadFail, DrawnID, EntryOwned, Registered
  <2>3. PostHolds'
    BY <1>19 DEF PostReadFail, TypeOK, PostHolds, EntryOwned, Registered, Early
  <2>4. TakenFrom'
    BY <1>19 DEF PostReadFail, TypeOK, TakenFrom, PostHolds, DeliveredTo, Delivered, Early
  <2>5. DeliveredTo'
    BY <1>19 DEF PostReadFail, TypeOK, PostHolds, TakenFrom, DeliveredTo, Delivered, Early
  <2> QED BY <2>1, <2>2, <2>3, <2>4, <2>5
<1>20. ASSUME NEW p \in Posts, PostEOF(p) PROVE BaseInv'
  <2>1. TypeOK'
    BY <1>20 DEF PostEOF, TypeOK, FrontendStates, ListStates, PostStates, PostRunning,
      PostReturned, Results
  <2>2. DrawnID' /\ EntryOwned'
    BY <1>20 DEF PostEOF, DrawnID, EntryOwned, Registered
  <2>3. PostHolds'
    BY <1>20 DEF PostEOF, TypeOK, PostHolds, EntryOwned, Registered, Early
  <2>4. TakenFrom'
    BY <1>20 DEF PostEOF, TypeOK, TakenFrom, PostHolds, DeliveredTo, Delivered, Early
  <2>5. DeliveredTo'
    BY <1>20 DEF PostEOF, TypeOK, PostHolds, TakenFrom, DeliveredTo, Delivered, Early
  <2> QED BY <2>1, <2>2, <2>3, <2>4, <2>5
<1>21. ASSUME NEW p \in Posts, PostWrite(p) PROVE BaseInv'
  <2>1. TypeOK'
    BY <1>21 DEF PostWrite, TypeOK, FrontendStates, ListStates, PostStates, PostRunning,
      PostReturned, Results, PostHolds, DeliveredTo, Delivered
  <2>2. DrawnID' /\ EntryOwned'
    BY <1>21 DEF PostWrite, DrawnID, EntryOwned, Registered
  <2>3. PostHolds'
    BY <1>21 DEF PostWrite, TypeOK, PostHolds, EntryOwned, Registered, Early
  <2>4. TakenFrom'
    BY <1>21 DEF PostWrite, TypeOK, TakenFrom, PostHolds, DeliveredTo, Delivered, Early
  <2>5. DeliveredTo'
    BY <1>21 DEF PostWrite, TypeOK, PostHolds, TakenFrom, DeliveredTo, Delivered, Early
  <2> QED BY <2>1, <2>2, <2>3, <2>4, <2>5
<1>22. ASSUME NEW p \in Posts, PostWriteFail(p) PROVE BaseInv'
  <2>1. TypeOK'
    BY <1>22 DEF PostWriteFail, ReaderClosed, TypeOK, FrontendStates, ListStates,
      PostStates, PostRunning, PostReturned, Results
  <2>2. DrawnID' /\ EntryOwned'
    BY <1>22 DEF PostWriteFail, ReaderClosed, DrawnID, EntryOwned, Registered
  <2>3. PostHolds'
    BY <1>22 DEF PostWriteFail, ReaderClosed, TypeOK, PostHolds, EntryOwned, Registered,
      Early
  <2>4. TakenFrom'
    BY <1>22 DEF PostWriteFail, ReaderClosed, TypeOK, TakenFrom, PostHolds, DeliveredTo,
      Delivered, Early
  <2>5. DeliveredTo'
    BY <1>22 DEF PostWriteFail, ReaderClosed, TypeOK, PostHolds, TakenFrom, DeliveredTo,
      Delivered, Early
  <2> QED BY <2>1, <2>2, <2>3, <2>4, <2>5
<1>23. ASSUME NEW p \in Posts, NEW f \in Frontends, Deliver(p, f) PROVE BaseInv'
  <2>1. TypeOK'
    BY <1>23 DEF Deliver, TypeOK, FrontendStates, ListStates, PostStates, PostRunning,
      PostReturned, Results
  <2>2. DrawnID'
    BY <1>23 DEF Deliver, TypeOK, DrawnID
  <2>3. EntryOwned'
    BY <1>23 DEF Deliver, TypeOK, DrawnID, EntryOwned, Registered
  <2>4. PostHolds'
    BY <1>23 DEF Deliver, TypeOK, PostHolds, Early
  <2>5. TakenFrom'
    BY <1>23 DEF Deliver, TypeOK, TakenFrom, PostHolds, DeliveredTo, Delivered, Early
  <2>6. DeliveredTo'
    BY <1>23 DEF Deliver, TypeOK, PostHolds, TakenFrom, DeliveredTo, Delivered, Early
  <2> QED BY <2>1, <2>2, <2>3, <2>4, <2>5, <2>6
<1>24. CASE UNCHANGED vars
  BY <1>24 DEF TypeOK, DrawnID, EntryOwned, PostHolds, TakenFrom, DeliveredTo, Delivered,
      Registered
<1> QED
  BY <1>1, <1>2, <1>3, <1>4, <1>5, <1>6, <1>7, <1>8, <1>9, <1>10, <1>11, <1>12, <1>13,
    <1>14, <1>15, <1>16, <1>17, <1>18, <1>19, <1>20, <1>21, <1>22, <1>23, <1>24 DEF Next,
    FrontendStep, PostStep, ListReply, Deliveries

\* It holds in every reachable state.
LEMMA Base == Spec => []BaseInv
<1> QED BY InitBase, NextBase, PTL DEF Spec

\* The variables keep their types; in particular no frontend call reads more
\* chunks than the body has, which needs that one POST at most feeds it
\* (server.go:112-150 and 261-334).  Nothing is assumed of the IDs.
THEOREM TypeCorrect == Spec => []TypeOK
<1>1. BaseInv => TypeOK
  BY DEF BaseInv
<1> QED BY <1>1, Base, PTL

\* No map entry outlives its call: what proxy.requests holds is a call in flight
\* that drew that ID (the deferred delete, server.go:274-278), even if two
\* clients have one ID.
THEOREM NothingLeftBehind == Spec => []EntryOwned
<1>1. BaseInv => EntryOwned
  BY DEF BaseInv
<1> QED BY <1>1, Base, PTL

\* One POST at most feeds a client, however often the agent retries and even if
\* two clients have one ID (the receive on respChan, server.go:144 and 293).
THEOREM OneDelivery == Spec => []SingleDelivery
<1>1. BaseInv => SingleDelivery
  BY DEF BaseInv, DeliveredTo, SingleDelivery
<1> QED BY <1>1, Base, PTL

\* A client is given a truncated response only if the agent's POST got a 500
\* (server.go:138 and 146-149), even if two clients have one ID.
THEOREM TruncationReported == Spec => []TruncatedOnlyIfAgentFailed
<1>1. BaseInv => TruncatedOnlyIfAgentFailed
  BY NoneAssumption, BoundsAssumption
  DEF BaseInv, TypeOK, TakenFrom, DeliveredTo, Delivered, TruncatedOnlyIfAgentFailed
<1> QED BY <1>1, Base, PTL

-----------------------------------------------------------------------------
(* What depends on an ID naming one call *)

\* A call that has drawn an ID owns it: no other call has it, and the random
\* source is past it as soon as newID has returned.
OwnID ==
    /\ \A f \in Frontends : fpc[f] \notin {"idle", "drawn"} => id[f] \notin unused
    /\ \A f, g \in Frontends : fpc[f] = "drawn" /\ fpc[g] = "drawn" => f = g
    /\ \A f, g \in Frontends :
          fpc[f] # "idle" /\ fpc[g] # "idle" /\ id[f] = id[g] => f = g

\* What the agent fetched under an ID is the request of the call that owns it.
FetchedOwner ==
    \A q \in fetched : id[q[2]] = q[1] /\ fpc[q[2]] \notin Early

\* A POST that was not refused answers the pending request that it holds.
PostOwner ==
    \A p \in Posts : ppc[p] \notin {"idle", "notfound"} => answers[p] = pending[p]

\* An ID that was handed out belongs to a call that is past the channel.
HandedOwner ==
    \A i \in IDs :
        /\ handed[i] <= 1
        /\ handed[i] > 0 =>
             \E f \in Frontends : id[f] = i /\ fpc[f] \notin Early \cup {"enqueue"}

SerialInv == OwnID /\ RequestsMapExact /\ FetchedOwner /\ PostOwner /\ HandedOwner

IndInv == BaseInv /\ SerialInv

\* The initial state satisfies it.
LEMMA InitInv == Init => IndInv
<1>1. Init => SerialInv
  BY NoneAssumption
  DEF Init, SerialInv, OwnID, RequestsMapExact, FetchedOwner, PostOwner, HandedOwner, Registered, Early
<1> QED BY <1>1, InitBase DEF IndInv

\* Every step preserves it.
LEMMA NextSerial == ASSUME SerialIDs, BaseInv, SerialInv, [Next]_vars PROVE SerialInv'
<1> USE KindsAssumption, NoneAssumption, BoundsAssumption
<1> USE DEF BaseInv, SerialInv, vars, frontVars, mapVars, listVars, postVars
<1>1. ASSUME NEW f \in Frontends, NewID(f) PROVE SerialInv'
  <2>1. OwnID'
    BY <1>1 DEF NewID, TypeOK, DrawnID, OwnID
  <2>2. RequestsMapExact'
    BY <1>1 DEF NewID, TypeOK, DrawnID, OwnID, RequestsMapExact, Registered
  <2>3. FetchedOwner'
    BY <1>1 DEF NewID, TypeOK, DrawnID, FetchedOwner, Early
  <2>4. PostOwner'
    BY <1>1 DEF NewID, TypeOK, DrawnID, PostOwner
  <2>5. HandedOwner'
    BY <1>1 DEF NewID, TypeOK, DrawnID, OwnID, HandedOwner, Early
  <2> QED BY <2>1, <2>2, <2>3, <2>4, <2>5
<1>2. ASSUME NEW f \in Frontends, NewIDStore(f) PROVE SerialInv'
  <2>1. OwnID'
    BY <1>2 DEF NewIDStore, TypeOK, DrawnID, OwnID
  <2>2. RequestsMapExact'
    BY <1>2 DEF NewIDStore, TypeOK, DrawnID, OwnID, RequestsMapExact, Registered
  <2>3. FetchedOwner'
    BY <1>2 DEF NewIDStore, TypeOK, DrawnID, FetchedOwner, Early
  <2>4. PostOwner'
    BY <1>2 DEF NewIDStore, TypeOK, DrawnID, PostOwner
  <2>5. HandedOwner'
    BY <1>2 DEF NewIDStore, TypeOK, DrawnID, OwnID, HandedOwner, Early
  <2> QED BY <2>1, <2>2, <2>3, <2>4, <2>5
<1>3. ASSUME NEW f \in Frontends, Register(f) PROVE SerialInv'
  <2>1. OwnID'
    BY <1>3 DEF Register, TypeOK, DrawnID, OwnID
  <2>2. RequestsMapExact'
    BY <1>3 DEF Register, TypeOK, DrawnID, OwnID, RequestsMapExact, Registered
  <2>3. FetchedOwner'
    BY <1>3 DEF Register, TypeOK, DrawnID, FetchedOwner, Early
  <2>4. PostOwner'
    BY <1>3 DEF Register, TypeOK, DrawnID, PostOwner
  <2>5. HandedOwner'
    BY <1>3 DEF Register, TypeOK, DrawnID, OwnID, HandedOwner, Early
  <2> QED BY <2>1, <2>2, <2>3, <2>4, <2>5
<1>4. ASSUME NEW f \in Frontends, ClientActs(f) PROVE SerialInv'
  <2>1. OwnID' /\ RequestsMapExact' /\ FetchedOwner' /\ PostOwner' /\ HandedOwner'
    BY <1>4 DEF ClientActs, ClientCancel, ClientStall, ClientResume, Plain, OwnID,
      RequestsMapExact, Registered, FetchedOwner, PostOwner, HandedOwner
  <2> QED BY <2>1
<1>5. ASSUME NEW f \in Frontends, Cancelled(f) PROVE SerialInv'
  <2>1. OwnID'
    BY <1>5 DEF Cancelled, ContextDone, TypeOK, DrawnID, OwnID
  <2>2. RequestsMapExact'
    BY <1>5 DEF Cancelled, ContextDone, TypeOK, DrawnID, OwnID, RequestsMapExact, Registered
  <2>3. FetchedOwner'
    BY <1>5 DEF Cancelled, ContextDone, TypeOK, DrawnID, FetchedOwner, Early
  <2>4. PostOwner'
    BY <1>5 DEF Cancelled, ContextDone, TypeOK, DrawnID, PostOwner
  <2>5. HandedOwner'
    BY <1>5 DEF Cancelled, ContextDone, TypeOK, DrawnID, OwnID, HandedOwner, Early
  <2> QED BY <2>1, <2>2, <2>3, <2>4, <2>5
<1>6. ASSUME NEW f \in Frontends, FrontendEOF(f) PROVE SerialInv'
  <2>1. OwnID'
    BY <1>6 DEF FrontendEOF, WriterClosed, TypeOK, DrawnID, OwnID
  <2>2. RequestsMapExact'
    BY <1>6 DEF FrontendEOF, WriterClosed, TypeOK, DrawnID, OwnID, RequestsMapExact,
      Registered
  <2>3. FetchedOwner'
    BY <1>6 DEF FrontendEOF, WriterClosed, TypeOK, DrawnID, FetchedOwner, Early
  <2>4. PostOwner'
    BY <1>6 DEF FrontendEOF, WriterClosed, TypeOK, DrawnID, PostOwner
  <2>5. HandedOwner'
    BY <1>6 DEF FrontendEOF, WriterClosed, TypeOK, DrawnID, OwnID, HandedOwner, Early
  <2> QED BY <2>1, <2>2, <2>3, <2>4, <2>5
<1>7. ASSUME NEW f \in Frontends, ClientBroken(f) PROVE SerialInv'
  <2>1. OwnID'
    BY <1>7 DEF ClientBroken, TypeOK, DrawnID, OwnID
  <2>2. RequestsMapExact'
    BY <1>7 DEF ClientBroken, TypeOK, DrawnID, OwnID, RequestsMapExact, Registered
  <2>3. FetchedOwner'
    BY <1>7 DEF ClientBroken, TypeOK, DrawnID, FetchedOwner, Early
  <2>4. PostOwner'
    BY <1>7 DEF ClientBroken, TypeOK, DrawnID, PostOwner
  <2>5. HandedOwner'
    BY <1>7 DEF ClientBroken, TypeOK, DrawnID, OwnID, HandedOwner, Early
  <2> QED BY <2>1, <2>2, <2>3, <2>4, <2>5
<1>8. ASSUME NEW f \in Frontends, Cleanup(f) PROVE SerialInv'
  <2>1. OwnID'
    BY <1>8 DEF Cleanup, TypeOK, DrawnID, OwnID
  <2>2. RequestsMapExact'
    BY <1>8 DEF Cleanup, TypeOK, DrawnID, OwnID, RequestsMapExact, Registered
  <2>3. FetchedOwner'
    BY <1>8 DEF Cleanup, TypeOK, DrawnID, FetchedOwner, Early
  <2>4. PostOwner'
    BY <1>8 DEF Cleanup, TypeOK, DrawnID, PostOwner
  <2>5. HandedOwner'
    BY <1>8 DEF Cleanup, TypeOK, DrawnID, OwnID, HandedOwner, Early
  <2> QED BY <2>1, <2>2, <2>3, <2>4, <2>5
<1>9. ASSUME NEW l \in Lists, ListStart(l) PROVE SerialInv'
  <2>1. OwnID' /\ RequestsMapExact' /\ FetchedOwner' /\ PostOwner' /\ HandedOwner'
    BY <1>9 DEF ListStart, OwnID, RequestsMapExact, Registered, FetchedOwner, PostOwner,
      HandedOwner
  <2> QED BY <2>1
<1>10. ASSUME NEW l \in Lists, ListTimeout(l) PROVE SerialInv'
  <2>1. OwnID' /\ RequestsMapExact' /\ FetchedOwner' /\ PostOwner' /\ HandedOwner'
    BY <1>10 DEF ListTimeout, OwnID, RequestsMapExact, Registered, FetchedOwner, PostOwner,
      HandedOwner
  <2> QED BY <2>1
<1>11. ASSUME NEW l \in Lists, NEW d \in BOOLEAN, ListReturn(l, d) PROVE SerialInv'
  <2>1. OwnID' /\ RequestsMapExact' /\ FetchedOwner' /\ PostOwner' /\ HandedOwner'
    BY <1>11 DEF ListReturn, OwnID, RequestsMapExact, Registered, FetchedOwner, PostOwner,
      HandedOwner
  <2> QED BY <2>1
<1>12. ASSUME NEW l \in Lists, NEW f \in Frontends, ListReceive(l, f) PROVE SerialInv'
  <2>1. OwnID'
    BY <1>12 DEF ListReceive, TypeOK, DrawnID, OwnID
  <2>2. RequestsMapExact'
    BY <1>12 DEF ListReceive, TypeOK, DrawnID, OwnID, RequestsMapExact, Registered
  <2>3. FetchedOwner'
    BY <1>12 DEF ListReceive, TypeOK, DrawnID, FetchedOwner, Early
  <2>4. PostOwner'
    BY <1>12 DEF ListReceive, TypeOK, DrawnID, PostOwner
  <2>5. HandedOwner'
    BY <1>12 DEF ListReceive, TypeOK, DrawnID, OwnID, HandedOwner, Early
  <2> QED BY <2>1, <2>2, <2>3, <2>4, <2>5
<1>13. ASSUME NEW i \in IDs, NEW w \in BOOLEAN, GetRequest(i, w) PROVE SerialInv'
  <2>1. FetchedOwner'
    BY <1>13 DEF GetRequest, WrittenWhole, TypeOK, FetchedOwner, EntryOwned, Registered,
      Early
  <2>2. OwnID' /\ RequestsMapExact' /\ PostOwner' /\ HandedOwner'
    BY <1>13 DEF GetRequest, WrittenWhole, OwnID, RequestsMapExact, Registered, PostOwner,
      HandedOwner
  <2> QED BY <2>1, <2>2
<1>14. ASSUME NEW p \in Posts, NEW q \in fetched, PostStart(p, q) PROVE SerialInv'
  <2>1. PostOwner'
    BY <1>14 DEF PostStart, TypeOK, DrawnID, OwnID, FetchedOwner, EntryOwned, Registered,
      PostOwner, Early
  <2>2. OwnID' /\ RequestsMapExact' /\ FetchedOwner' /\ HandedOwner'
    BY <1>14 DEF PostStart, OwnID, RequestsMapExact, Registered, FetchedOwner, HandedOwner
  <2> QED BY <2>1, <2>2
<1>15. ASSUME NEW p \in Posts, PostParsed(p) PROVE SerialInv'
  <2>1. PostOwner'
    BY <1>15 DEF PostParsed, TypeOK, DrawnID, PostOwner
  <2>2. OwnID' /\ RequestsMapExact' /\ FetchedOwner' /\ HandedOwner'
    BY <1>15 DEF PostParsed, OwnID, RequestsMapExact, Registered, FetchedOwner, HandedOwner
  <2> QED BY <2>1, <2>2
<1>16. ASSUME NEW p \in Posts, PostParseFail(p) PROVE SerialInv'
  <2>1. PostOwner'
    BY <1>16 DEF PostParseFail, TypeOK, DrawnID, PostOwner
  <2>2. OwnID' /\ RequestsMapExact' /\ FetchedOwner' /\ HandedOwner'
    BY <1>16 DEF PostParseFail, OwnID, RequestsMapExact, Registered, FetchedOwner,
      HandedOwner
  <2> QED BY <2>1, <2>2
<1>17. ASSUME NEW p \in Posts, PostContextDone(p) PROVE SerialInv'
  <2>1. PostOwner'
    BY <1>17 DEF PostContextDone, TypeOK, DrawnID, PostOwner
  <2>2. OwnID' /\ RequestsMapExact' /\ FetchedOwner' /\ HandedOwner'
    BY <1>17 DEF PostContextDone, OwnID, RequestsMapExact, Registered, FetchedOwner,
      HandedOwner
  <2> QED BY <2>1, <2>2
<1>18. ASSUME NEW p \in Posts, PostRead(p) PROVE SerialInv'
  <2>1. PostOwner'
    BY <1>18 DEF PostRead, TypeOK, DrawnID, PostOwner
  <2>2. OwnID' /\ RequestsMapExact' /\ FetchedOwner' /\ HandedOwner'
    BY <1>18 DEF PostRead, OwnID, RequestsMapExact, Registered, FetchedOwner, HandedOwner
  <2> QED BY <2>1, <2>2
<1>19. ASSUME NEW p \in Posts, PostReadFail(p) PROVE SerialInv'
  <2>1. PostOwner'
    BY <1>19 DEF PostReadFail, TypeOK, DrawnID, PostOwner
  <2>2. OwnID' /\ RequestsMapExact' /\ FetchedOwner' /\ HandedOwner'
    BY <1>19 DEF PostReadFail, OwnID, RequestsMapExact, Registered, FetchedOwner,
      HandedOwner
  <2> QED BY <2>1, <2>2
<1>20. ASSUME NEW p \in Posts, PostEOF(p) PROVE SerialInv'
  <2>1. PostOwner'
    BY <1>20 DEF PostEOF, TypeOK, DrawnID, PostOwner
  <2>2. OwnID' /\ RequestsMapExact' /\ FetchedOwner' /\ HandedOwner'
    BY <1>20 DEF PostEOF, OwnID, RequestsMapExact, Registered, FetchedOwner, HandedOwner
  <2> QED BY <2>1, <2>2
<1>21. ASSUME NEW p \in Posts, PostWrite(p) PROVE SerialInv'
  <2>1. PostOwner'
    BY <1>21 DEF PostWrite, TypeOK, DrawnID, PostOwner
  <2>2. OwnID' /\ RequestsMapExact' /\ FetchedOwner' /\ HandedOwner'
    BY <1>21 DEF PostWrite, OwnID, RequestsMapExact, Registered, FetchedOwner, HandedOwner
  <2> QED BY <2>1, <2>2
<1>22. ASSUME NEW p \in Posts, PostWriteFail(p) PROVE SerialInv'
  <2>1. PostOwner'
    BY <1>22 DEF PostWriteFail, ReaderClosed, TypeOK, DrawnID, PostOwner
  <2>2. OwnID' /\ RequestsMapExact' /\ FetchedOwner' /\ HandedOwner'
    BY <1>22 DEF PostWriteFail, ReaderClosed, OwnID, RequestsMapExact, Registered,
      FetchedOwner, HandedOwner
  <2> QED BY <2>1, <2>2
<1>23. ASSUME NEW p \in Posts, NEW f \in Frontends, Deliver(p, f) PROVE SerialInv'
  <2>1. OwnID'
    BY <1>23 DEF Deliver, TypeOK, DrawnID, OwnID
  <2>2. RequestsMapExact'
    BY <1>23 DEF Deliver, TypeOK, DrawnID, OwnID, RequestsMapExact, Registered
  <2>3. FetchedOwner'
    BY <1>23 DEF Deliver, TypeOK, DrawnID, FetchedOwner, Early
  <2>4. PostOwner'
    BY <1>23 DEF Deliver, TypeOK, DrawnID, PostOwner
  <2>5. HandedOwner'
    BY <1>23 DEF Deliver, TypeOK, DrawnID, OwnID, HandedOwner, Early
  <2> QED BY <2>1, <2>2, <2>3, <2>4, <2>5
<1>24. CASE UNCHANGED vars
  BY <1>24 DEF OwnID, RequestsMapExact, FetchedOwner, PostOwner, HandedOwner, Registered
<1> QED
  BY <1>1, <1>2, <1>3, <1>4, <1>5, <1>6, <1>7, <1>8, <1>9, <1>10, <1>11, <1>12, <1>13,
    <1>14, <1>15, <1>16, <1>17, <1>18, <1>19, <1>20, <1>21, <1>22, <1>23, <1>24 DEF Next,
    FrontendStep, PostStep, ListReply, Deliveries

\* Both together are inductive, ...
LEMMA NextInv == ASSUME SerialIDs, IndInv, [Next]_vars PROVE IndInv'
BY NextBase, NextSerial DEF IndInv

\* ... and hold in every reachable state.
LEMMA Invariance == ASSUME SerialIDs PROVE Spec => []IndInv
<1>1. IndInv /\ [Next]_vars => IndInv'
  BY NextInv
<1> QED BY <1>1, InitInv, PTL DEF Spec

\* If no two calls of newID overlap, no client is given the response to another
\* client's request.
THEOREM ResponsesMatch == ASSUME SerialIDs PROVE Spec => []ResponseMatchesRequest
<1>1. IndInv => ResponseMatchesRequest
  BY NoneAssumption
  DEF IndInv, BaseInv, SerialInv, TypeOK, TakenFrom, PostOwner, Delivered, ResponseMatchesRequest
<1> QED BY <1>1, Invariance, PTL

\* If no two calls of newID overlap, proxy.requests holds exactly the calls in
\* flight.
THEOREM MapExact == ASSUME SerialIDs PROVE Spec => []RequestsMapExact
<1>1. IndInv => RequestsMapExact
  BY DEF IndInv, SerialInv
<1> QED BY <1>1, Invariance, PTL

\* If no two calls of newID overlap, no ID is returned by two list calls, or
\* twice by one.
THEOREM NeverListedAgain == ASSUME SerialIDs PROVE Spec => []HandedOutOnce
<1>1. IndInv => HandedOutOnce
  BY DEF IndInv, SerialInv, HandedOwner, HandedOutOnce
<1> QED BY <1>1, Invariance, PTL
=============================================================================
