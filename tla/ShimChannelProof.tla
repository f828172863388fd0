-------------------------- MODULE ShimChannelProof --------------------------
(***************************************************************************)
(* The websocket shim, for any number of sessions and calls and channels   *)
(* of any capacity: its variables keep their types, so no count goes below *)
(* zero or above a capacity, and a poll reports the end of a session only  *)
(* after everything that the backend sent in it.                           *)
(***************************************************************************)
EXTENDS ShimChannel, TLAPS

\* What is taken out of serverMessages was put there.
Counts ==
    /\ pushed \in [Sessions -> Nat]
    /\ polled \in [Sessions -> Nat]

\* Between its read and its push the reader holds one message, and none
\* otherwise: it returns with its hands empty.
ReaderHolds ==
    \A s \in Sessions :
        /\ rpc[s] = "push" => read[s] = pushed[s] + 1
        /\ rpc[s] # "push" => read[s] = pushed[s]

\* The goroutines of a connection run only once it is dialled.
RunsOpened == \A s \in Sessions \ opened : wpc[s] = "exit" /\ rpc[s] = "exit"

\* A call that got past the look-up in the map works with a session that was
\* opened, and so does the cleanup goroutine.
WorksOnOpened ==
    /\ \A c \in Calls : call[c].step \notin {"new", "unknown"} => call[c].session \in opened
    /\ kpc[1] # "sleep" => kpc[2] \in opened

\* A data call that has not answered has a message left.
MessageLeft ==
    \A c \in Calls :
        call[c].kind = "data" /\ call[c].step \in {"load", "check", "send"} => call[c].left > 0

IndInv ==
    /\ TypeOK /\ Counts /\ ReaderHolds /\ RunsOpened /\ WorksOnOpened /\ MessageLeft
    /\ EndedMeansDrained

-----------------------------------------------------------------------------
\* A record of the table of calls.
Records ==
    [kind : Kinds \cup {"none"},
     session : Sessions \cup {None},
     step : {"new", "load", "check", "start", "recv", "drain", "delete", "send", "shut"} \cup Replies,
     left : 0 .. DataLen]

\* The initial state satisfies the invariant.
LEMMA InitInv == Init => IndInv
<1> SUFFICES ASSUME Init PROVE IndInv
  OBVIOUS
<1>1. NoCall \in Records
  BY CapAssumption DEF NoCall, Records
<1>2. TypeOK
  <2>1. call \in [Calls -> Records]
    BY <1>1 DEF Init
  <2>2. kpc \in {"sleep", "send", "shut", "delete"} \X (Sessions \cup {None}) /\ crashed \in BOOLEAN
    BY DEF Init
  <2>3. /\ queued \in [Sessions -> 0 .. ChanCap]
        /\ read \in [Sessions -> 0 .. MaxServer]
        /\ \A s \in Sessions : ServerQueued(s) \in 0 .. ChanCap /\ pushed[s] <= read[s]
    BY CapAssumption DEF Init, ServerQueued
  <2> QED BY <2>1, <2>2, <2>3 DEF Init, TypeOK, Records
<1>3. Counts /\ ReaderHolds /\ RunsOpened /\ WorksOnOpened /\ MessageLeft /\ EndedMeansDrained
  BY DEF Init, Counts, ReaderHolds, RunsOpened, WorksOnOpened, MessageLeft, EndedMeansDrained, Done, At, NoCall
<1> QED BY <1>2, <1>3 DEF IndInv

\* A call that goes on to another step is still a call.
LEMMA GoTypes ==
  ASSUME call \in [Calls -> Records], NEW c \in Calls,
         NEW step \in {"load", "check", "start", "recv", "drain", "delete", "send", "shut"} \cup Replies,
         Go(c, step)
  PROVE /\ call' \in [Calls -> Records]
        /\ call'[c] = [call[c] EXCEPT !.step = step]
        /\ \A d \in Calls : d # c => call'[d] = call[d]
BY DEF Go, Records

\* Steps of the goroutines of a connection, and the passing of time.
LEMMA ConnectionInv ==
  ASSUME IndInv, NEW s \in Sessions,
         \/ Open(s) \/ Age(s) \/ WriterStep(s)
         \/ ReaderRead(s) \/ ReaderPush(s) \/ ReaderExit(s) \/ BackendCloses(s)
  PROVE IndInv'
<1>1. UNCHANGED <<call, kpc, crashed>> /\ opened \subseteq opened'
  BY DEF Open, Age, WriterStep, WriterRecv, WriterWritten, WriterExit, ReaderRead, ReaderPush,
    ReaderExit, BackendCloses, connVars
<1>2. TypeOK'
  <2>1. /\ opened' \subseteq Sessions /\ connections' \subseteq opened' /\ idle' \subseteq opened'
        /\ closed' \subseteq opened' /\ cancelled' \subseteq opened'
    BY DEF Open, Age, WriterStep, WriterRecv, WriterWritten, WriterExit, ReaderRead, ReaderPush,
      ReaderExit, BackendCloses, connVars, Cancel, IndInv, TypeOK, RunsOpened
  <2>2. /\ queued' \in [Sessions -> 0 .. ChanCap]
        /\ wpc' \in [Sessions -> {"recv", "write", "exit"}]
        /\ rpc' \in [Sessions -> {"read", "push", "exit"}]
        /\ read' \in [Sessions -> 0 .. MaxServer]
    BY CapAssumption DEF Open, Age, WriterStep, WriterRecv, WriterWritten, WriterExit, ReaderRead,
      ReaderPush, ReaderExit, BackendCloses, connVars, IndInv, TypeOK
  <2>3. \A t \in Sessions : ServerQueued(t)' \in 0 .. ChanCap /\ pushed'[t] <= read'[t]
    BY CapAssumption DEF Open, Age, WriterStep, WriterRecv, WriterWritten, WriterExit, ReaderRead,
      ReaderPush, ReaderExit, BackendCloses, connVars, IndInv, TypeOK, Counts, ReaderHolds,
      ServerQueued
  <2> QED BY <1>1, <2>1, <2>2, <2>3 DEF IndInv, TypeOK
<1>3. Counts'
  BY DEF Open, Age, WriterStep, WriterRecv, WriterWritten, WriterExit, ReaderRead, ReaderPush,
    ReaderExit, BackendCloses, connVars, IndInv, Counts
<1>4. ReaderHolds'
  <2>1. CASE Age(s) \/ WriterStep(s)
    BY <2>1 DEF Age, WriterStep, WriterRecv, WriterWritten, WriterExit, connVars, IndInv, ReaderHolds
  <2>2. CASE Open(s) \/ ReaderExit(s) \/ BackendCloses(s)
    BY <2>2 DEF Open, ReaderExit, BackendCloses, IndInv, TypeOK, RunsOpened, ReaderHolds
  <2>3. CASE ReaderRead(s)
    BY <2>3, CapAssumption DEF ReaderRead, IndInv, TypeOK, Counts, ReaderHolds
  <2>4. CASE ReaderPush(s)
    BY <2>4, CapAssumption DEF ReaderPush, IndInv, TypeOK, Counts, ReaderHolds
  <2> QED BY <2>1, <2>2, <2>3, <2>4
<1>5. RunsOpened'
  BY DEF Open, Age, WriterStep, WriterRecv, WriterWritten, WriterExit, ReaderRead, ReaderPush,
    ReaderExit, BackendCloses, connVars, IndInv, TypeOK, RunsOpened
<1>6. WorksOnOpened' /\ MessageLeft'
  BY <1>1 DEF IndInv, WorksOnOpened, MessageLeft
<1>7. EndedMeansDrained'
  <2> SUFFICES ASSUME NEW c \in Calls, NEW t \in Sessions, Done(c, "poll", "ended", t)'
               PROVE rpc'[t] = "exit" /\ polled'[t] = read'[t]
    BY DEF EndedMeansDrained
  <2>1. Done(c, "poll", "ended", t)
    BY <1>1 DEF Done, At
  <2>2. rpc[t] = "exit" /\ polled[t] = read[t] /\ t \in opened
    BY <2>1 DEF IndInv, EndedMeansDrained, WorksOnOpened, Done, At
  <2> QED
    BY <2>2 DEF Open, Age, WriterStep, WriterRecv, WriterWritten, WriterExit, ReaderRead, ReaderPush,
      ReaderExit, BackendCloses, connVars, IndInv, TypeOK
<1> QED BY <1>2, <1>3, <1>4, <1>5, <1>6, <1>7 DEF IndInv

\* A call arrives.
LEMMA ArriveInv ==
  ASSUME IndInv, NEW c \in Calls, NEW s \in Sessions, NEW kind \in Kinds, Arrive(c, s, kind)
  PROVE IndInv'
<1> DEFINE rec == [kind |-> kind, session |-> s,
                   step |-> IF s \in connections THEN First[kind] ELSE "unknown",
                   left |-> IF kind = "data" THEN DataLen ELSE 0]
<1>1. call' = [call EXCEPT ![c] = rec] /\ UNCHANGED <<opened, connections, idle, connVars, kpc, crashed>>
  BY DEF Arrive
<1>2. First[kind] \in {"check", "start", "delete"}
  BY DEF First, Kinds
<1>3. rec \in Records
  BY <1>2, CapAssumption DEF Records, Replies
<1>4. call \in [Calls -> Records] /\ call' \in [Calls -> Records]
  BY <1>1, <1>3 DEF IndInv, TypeOK, Records
<1>5. TypeOK'
  BY <1>1, <1>4 DEF IndInv, TypeOK, Records, connVars, ServerQueued
<1>6. Counts' /\ ReaderHolds' /\ RunsOpened'
  BY <1>1 DEF IndInv, Counts, ReaderHolds, RunsOpened, connVars
<1>7. call'[c] = rec /\ \A d \in Calls : d # c => call'[d] = call[d]
  BY <1>1, <1>4
<1>8. rec.step # "ended" /\ rec.session = s /\ rec.kind = kind
  BY <1>2
<1>9. WorksOnOpened'
  BY <1>1, <1>7 DEF IndInv, WorksOnOpened, TypeOK
<1>10. MessageLeft'
  BY <1>7, CapAssumption DEF IndInv, MessageLeft
<1>11. EndedMeansDrained'
  BY <1>1, <1>7, <1>8 DEF IndInv, EndedMeansDrained, Done, At, connVars
<1> QED BY <1>5, <1>6, <1>9, <1>10, <1>11 DEF IndInv

\* A step of the cleanup goroutine.
LEMMA CleanInv == ASSUME IndInv, CleanStep PROVE IndInv'
<1>1. UNCHANGED <<opened, call, wpc, rpc, cancelled, read, pushed, polled, idle>>
  BY DEF CleanStep, CleanPick, CleanSend, CleanShut, CleanDelete, CleanPanic, Panic, connVars
<1>2. Counts' /\ ReaderHolds' /\ RunsOpened' /\ MessageLeft' /\ EndedMeansDrained'
  BY <1>1 DEF IndInv, Counts, ReaderHolds, RunsOpened, MessageLeft, EndedMeansDrained, Done, At
<1>3. /\ kpc' \in {"sleep", "send", "shut", "delete"} \X (Sessions \cup {None})
      /\ kpc'[1] # "sleep" => kpc'[2] \in opened
  <2>1. ASSUME NEW s \in Sessions, CleanPick(s) PROVE kpc' = <<"send", s>> /\ s \in opened
    BY <2>1 DEF CleanPick, IndInv, TypeOK
  <2>2. ASSUME CleanSend \/ CleanShut
        PROVE kpc'[1] \in {"shut", "delete"} /\ kpc' = <<kpc'[1], kpc[2]>> /\ kpc[2] \in opened
    BY <2>2 DEF CleanSend, CleanShut, IndInv, WorksOnOpened
  <2>3. ASSUME CleanDelete PROVE kpc' = <<"sleep", None>>
    BY <2>3 DEF CleanDelete
  <2>4. ASSUME CleanPanic PROVE kpc' = kpc
    BY <2>4 DEF CleanPanic, Panic
  <2> QED BY <2>1, <2>2, <2>3, <2>4 DEF CleanStep, IndInv, TypeOK, WorksOnOpened
<1>4. WorksOnOpened'
  BY <1>1, <1>3 DEF IndInv, WorksOnOpened
<1>5. /\ connections' \subseteq opened
      /\ closed' \subseteq opened
      /\ queued' \in [Sessions -> 0 .. ChanCap]
  BY CapAssumption DEF CleanStep, CleanPick, CleanSend, CleanShut, CleanDelete, CleanPanic, Panic,
    connVars, Send, IndInv, TypeOK, WorksOnOpened
<1>6. crashed' \in BOOLEAN
  BY DEF CleanStep, CleanPick, CleanSend, CleanShut, CleanDelete, CleanPanic, Panic, IndInv, TypeOK
<1>7. TypeOK'
  BY <1>1, <1>3, <1>5, <1>6 DEF IndInv, TypeOK, ServerQueued
<1> QED BY <1>2, <1>4, <1>7 DEF IndInv

\* A panic changes nothing else.
LEMMA PanicInv == ASSUME IndInv, Panic PROVE IndInv'
<1>1. crashed' \in BOOLEAN
  BY DEF Panic
<1> QED
  BY <1>1 DEF Panic, connVars, IndInv, TypeOK, ServerQueued, Counts, ReaderHolds, RunsOpened,
    WorksOnOpened, MessageLeft, EndedMeansDrained, Done, At

\* What a data call changes: it sends one message after the other.
LEMMA DataInv ==
  ASSUME IndInv, NEW c \in Calls, DataLoad(c) \/ DataMalformed(c) \/ DataCheck(c) \/ DataSend(c)
  PROVE IndInv'
<1>1. call \in [Calls -> Records] /\ call[c].session \in opened /\ call[c].session \in Sessions
      /\ call[c].kind = "data" /\ call[c].left \in 1 .. DataLen
  BY CapAssumption DEF IndInv, TypeOK, Records, WorksOnOpened, MessageLeft, DataLoad, DataMalformed,
    DataCheck, DataSend, At
<1>2. /\ call' \in [Calls -> Records]
      /\ \A d \in Calls : d # c => call'[d] = call[d]
      /\ call'[c].kind = "data" /\ call'[c].session = call[c].session
      /\ call'[c].step \in {"load", "check", "send"} => call'[c].left > 0
  <2>1. ASSUME NEW step \in {"check", "send"} \cup Replies, Go(c, step)
        PROVE /\ call' \in [Calls -> Records]
              /\ \A d \in Calls : d # c => call'[d] = call[d]
              /\ call'[c] = [call[c] EXCEPT !.step = step]
    BY <1>1, <2>1, GoTypes
  <2>2. CASE DataSend(c)
    <3> DEFINE step == IF call[c].left = 1 THEN "ok" ELSE "load"
               rec  == [call[c] EXCEPT !.left = call[c].left - 1, !.step = step]
    <3>1. call' = [call EXCEPT ![c] = rec]
      BY <1>1, <2>2 DEF DataSend, Records
    <3>2. rec \in Records
      <4>1. step \in Replies \cup {"load"} /\ call[c].left - 1 \in 0 .. DataLen
        BY <1>1, CapAssumption DEF Replies
      <4> HIDE DEF step
      <4> QED BY <1>1, <4>1 DEF Records
    <3>3. rec.kind = "data" /\ rec.session = call[c].session /\ rec.left = call[c].left - 1
          /\ rec.step = step
      BY <1>1 DEF Records
    <3>4. step \in {"load", "check", "send"} => call[c].left - 1 > 0
      BY <1>1, CapAssumption
    <3> HIDE DEF rec, step
    <3> QED BY <1>1, <3>1, <3>2, <3>3, <3>4
  <2>3. CASE DataLoad(c) \/ DataMalformed(c) \/ DataCheck(c)
    <3>1. PICK step \in {"check", "send"} \cup Replies : Go(c, step)
      BY <2>3 DEF DataLoad, DataMalformed, DataCheck, Replies
    <3>2. call'[c] = [call[c] EXCEPT !.step = step]
      BY <2>1, <3>1
    <3>3. /\ call'[c].kind = "data" /\ call'[c].session = call[c].session
          /\ call'[c].left = call[c].left
      BY <1>1, <3>2 DEF Records
    <3>4. call[c].left > 0
      BY <1>1, CapAssumption
    <3> QED BY <2>1, <3>1, <3>3, <3>4
  <2> QED BY <2>2, <2>3
<1>4. UNCHANGED <<opened, connections, closed, wpc, rpc, cancelled, read, pushed, polled, kpc, crashed>>
  BY DEF DataLoad, DataMalformed, DataCheck, DataSend, connVars
<1>5. queued' \in [Sessions -> 0 .. ChanCap] /\ idle' \subseteq opened
  BY <1>1, CapAssumption DEF DataLoad, DataMalformed, DataCheck, DataSend, connVars, Send, Active,
    IndInv, TypeOK
<1>6. TypeOK'
  BY <1>2, <1>4, <1>5 DEF IndInv, TypeOK, Records, ServerQueued
<1>7. Counts' /\ ReaderHolds' /\ RunsOpened'
  BY <1>4 DEF IndInv, Counts, ReaderHolds, RunsOpened
<1>8. WorksOnOpened' /\ MessageLeft'
  BY <1>1, <1>2, <1>4 DEF IndInv, WorksOnOpened, MessageLeft
<1>9. EndedMeansDrained'
  <2>1. ASSUME NEW d \in Calls, NEW t \in Sessions, Done(d, "poll", "ended", t)'
        PROVE Done(d, "poll", "ended", t)
    BY <1>2, <2>1 DEF Done, At
  <2> QED BY <1>4, <2>1 DEF IndInv, EndedMeansDrained
<1> QED BY <1>6, <1>7, <1>8, <1>9 DEF IndInv

\* What a poll changes: only the one that finds serverMessages closed and empty
\* reports the end of the session.
LEMMA PollInv ==
  ASSUME IndInv, NEW c \in Calls,
         PollStart(c) \/ PollRecv(c) \/ PollReturn(c) \/ PollClosed(c) \/ PollTimeout(c)
  PROVE IndInv'
<1>1. call \in [Calls -> Records] /\ call[c].session \in opened /\ call[c].session \in Sessions
      /\ call[c].kind = "poll"
  BY DEF IndInv, TypeOK, Records, WorksOnOpened, PollStart, PollRecv, PollReturn, PollClosed,
    PollTimeout, At
<1>2. PICK step \in {"recv", "drain"} \cup Replies : Go(c, step) /\ (step = "ended" => PollClosed(c))
  BY DEF PollStart, PollRecv, PollReturn, PollClosed, PollTimeout, Replies
<1>3. /\ call' \in [Calls -> Records]
      /\ call'[c] = [call[c] EXCEPT !.step = step]
      /\ \A d \in Calls : d # c => call'[d] = call[d]
  BY <1>1, <1>2, GoTypes
<1>4. UNCHANGED <<opened, queued, closed, wpc, rpc, cancelled, read, pushed, kpc, crashed>>
  BY DEF PollStart, PollRecv, PollReturn, PollClosed, PollTimeout, connVars
<1>5. connections' \subseteq opened /\ idle' \subseteq opened
  BY DEF PollStart, PollRecv, PollReturn, PollClosed, PollTimeout, connVars, Active, IndInv, TypeOK
<1>6. /\ polled' \in [Sessions -> Nat]
      /\ \A t \in Sessions : polled'[t] >= polled[t] /\ polled'[t] <= pushed[t]
      /\ \A t \in Sessions : polled[t] = pushed[t] => polled'[t] = polled[t]
  BY <1>1 DEF PollStart, PollRecv, PollReturn, PollClosed, PollTimeout, connVars, ServerQueued, IndInv,
    TypeOK, Counts
<1>7. TypeOK'
  <2>1. \A t \in Sessions : ServerQueued(t)' \in 0 .. ChanCap /\ pushed'[t] <= read'[t]
    BY <1>4, <1>6, CapAssumption DEF IndInv, TypeOK, Counts, ServerQueued
  <2> QED BY <1>3, <1>4, <1>5, <2>1 DEF IndInv, TypeOK, Records
<1>8. Counts' /\ ReaderHolds' /\ RunsOpened'
  BY <1>4, <1>6 DEF IndInv, Counts, ReaderHolds, RunsOpened
<1>9. call'[c].step = step /\ call'[c].kind = "poll" /\ call'[c].session = call[c].session
  BY <1>1, <1>3 DEF Records
<1>10. WorksOnOpened' /\ MessageLeft'
  BY <1>1, <1>3, <1>4, <1>9 DEF IndInv, WorksOnOpened, MessageLeft
<1>11. EndedMeansDrained'
  <2> SUFFICES ASSUME NEW d \in Calls, NEW t \in Sessions, Done(d, "poll", "ended", t)'
               PROVE rpc[t] = "exit" /\ polled'[t] = read[t]
    BY <1>4 DEF EndedMeansDrained
  <2>1. rpc[t] = "exit" /\ polled[t] = pushed[t]
    <3>1. CASE d = c
      BY <3>1, <1>2, <1>9 DEF Done, At, PollClosed, ServerClosed, ServerQueued, IndInv, Counts
    <3>2. CASE d # c
      <4>1. rpc[t] = "exit" /\ polled[t] = read[t]
        BY <3>2, <1>3 DEF Done, At, IndInv, EndedMeansDrained
      <4> QED BY <4>1 DEF IndInv, ReaderHolds
    <3> QED BY <3>1, <3>2
  <2> QED BY <2>1, <1>6 DEF IndInv, ReaderHolds
<1> QED BY <1>7, <1>8, <1>10, <1>11 DEF IndInv

\* What a close call changes: the session leaves the map, then the close message
\* is sent, then clientMessages is closed.
LEMMA CloseInv ==
  ASSUME IndInv, NEW c \in Calls, CloseDelete(c) \/ CloseSend(c) \/ CloseShut(c)
  PROVE IndInv'
<1>1. call \in [Calls -> Records] /\ call[c].session \in opened /\ call[c].session \in Sessions
      /\ call[c].kind = "close"
  BY DEF IndInv, TypeOK, Records, WorksOnOpened, CloseDelete, CloseSend, CloseShut, At
<1>2. PICK step \in {"send", "shut"} \cup Replies : Go(c, step)
  BY DEF CloseDelete, CloseSend, CloseShut, Replies
<1>3. /\ call' \in [Calls -> Records]
      /\ call'[c] = [call[c] EXCEPT !.step = step]
      /\ \A d \in Calls : d # c => call'[d] = call[d]
  BY <1>1, <1>2, GoTypes
<1>4. UNCHANGED <<opened, idle, wpc, rpc, cancelled, read, pushed, polled, kpc, crashed>>
  BY DEF CloseDelete, CloseSend, CloseShut, connVars
<1>5. /\ connections' \subseteq opened /\ closed' \subseteq opened
      /\ queued' \in [Sessions -> 0 .. ChanCap]
  BY <1>1, CapAssumption DEF CloseDelete, CloseSend, CloseShut, connVars, Send, IndInv, TypeOK
<1>6. TypeOK'
  BY <1>3, <1>4, <1>5 DEF IndInv, TypeOK, Records, ServerQueued
<1>7. Counts' /\ ReaderHolds' /\ RunsOpened'
  BY <1>4 DEF IndInv, Counts, ReaderHolds, RunsOpened
<1>8. call'[c].step = step /\ call'[c].kind = "close" /\ call'[c].session = call[c].session
  BY <1>1, <1>3 DEF Records
<1>9. WorksOnOpened' /\ MessageLeft'
  BY <1>1, <1>3, <1>4, <1>8 DEF IndInv, WorksOnOpened, MessageLeft
<1>10. EndedMeansDrained'
  <2>1. ASSUME NEW d \in Calls, NEW t \in Sessions, Done(d, "poll", "ended", t)'
        PROVE Done(d, "poll", "ended", t)
    BY <1>3, <1>8, <2>1 DEF Done, At
  <2> QED BY <1>4, <2>1 DEF IndInv, EndedMeansDrained
<1> QED BY <1>6, <1>7, <1>9, <1>10 DEF IndInv

\* Every step preserves the invariant.
LEMMA NextInv == IndInv /\ [Next]_vars => IndInv'
<1> SUFFICES ASSUME IndInv, [Next]_vars PROVE IndInv'
  OBVIOUS
<1>1. CASE UNCHANGED vars
  BY <1>1 DEF vars, connVars, IndInv, TypeOK, ServerQueued, Counts, ReaderHolds, RunsOpened,
    WorksOnOpened, MessageLeft, EndedMeansDrained, Done, At
<1>2. ASSUME NEW c \in Calls, CallStep(c) PROVE IndInv'
  BY <1>2, DataInv, PollInv, CloseInv, PanicInv DEF CallStep, DataPanic, ClosePanic
<1> QED BY <1>1, <1>2, ConnectionInv, ArriveInv, CleanInv DEF Next

-----------------------------------------------------------------------------
\* Every variable of the shim keeps its type: neither channel of a session ever
\* holds more than its capacity, and no message is received that was not sent.
THEOREM TypeCorrect == Spec => []TypeOK
<1>1. IndInv => TypeOK
  BY DEF IndInv
<1> QED BY <1>1, InitInv, NextInv, PTL DEF Spec

\* When ReadServerMessages reports the end of a session, every message that the
\* reader got from the backend has been polled, however the reader, the writer
\* that cancels it, other polls, close calls and the cleanup interleave.
THEOREM Drained == Spec => []EndedMeansDrained
<1>1. IndInv => EndedMeansDrained
  BY DEF IndInv
<1> QED BY <1>1, InitInv, NextInv, PTL DEF Spec
=============================================================================
