---------------------------- MODULE ShimChannel ----------------------------
(***************************************************************************)
(* The agent's websocket shim: createShimChannel and Connection            *)
(* (src/agent/websockets/shim.go, src/agent/websockets/connection.go).     *)
(*                                                                         *)
(* A session is a websocket connection to the backend that a browser works *)
(* with HTTP calls: open, then data, poll and close, each of them a        *)
(* handler goroutine.  Two bounded channels per session decouple them from *)
(* two goroutines that write to and read from the websocket; a background  *)
(* goroutine closes sessions that have been inactive for too long.  A send *)
(* on, or a close of, a closed channel panics, and nothing recovers: the   *)
(* agent is gone.                                                          *)
(***************************************************************************)
EXTENDS Naturals, FiniteSets

CONSTANTS
    Sessions,   \* sessions that may be opened
    MaxCalls,   \* bound: data, poll and close calls that are made
    ChanCap,    \* capacity of clientMessages and of serverMessages (10 in the code)
    DataLen,    \* bound: messages in the body of one data call
    MaxServer,  \* bound: messages the backend sends in a session
    None

ASSUME CapAssumption ==
    ChanCap \in Nat \ {0} /\ DataLen \in Nat \ {0} /\ MaxServer \in Nat /\ MaxCalls \in Nat

ASSUME NoneAssumption == None \notin Sessions

\* Calls are numbered as they arrive.
Calls == 1 .. MaxCalls

VARIABLES
    opened,       \* sessions whose connection was dialled
    connections,  \* the sync.Map
    idle,         \* sessions inactive for longer than the timeout
    queued,       \* messages in clientMessages
    closed,       \* sessions whose clientMessages is closed
    wpc,          \* the goroutine that writes to the websocket
    rpc,          \* the goroutine that reads from it
    cancelled,    \* sessions whose context is cancelled
    read,         \* messages the reader has read
    pushed,       \* messages it has put into serverMessages
    polled,       \* messages taken out of it
    call,         \* what each call is: its kind, session, step, and data left
    kpc,          \* where the cleanup goroutine is: <<step, session>>
    crashed       \* whether the agent has panicked

connVars == <<queued, closed, wpc, rpc, cancelled, read, pushed, polled>>
vars     == <<opened, connections, idle, connVars, call, kpc, crashed>>

\* What a call answered.  "timeout" is status 408, "unknown" and "ended" are
\* status 400: for a session that is not in the map, and for one that is over.
Replies == {"ok", "timeout", "unknown", "ended", "malformed"}

NoCall == [kind |-> "none", session |-> None, step |-> "new", left |-> 0]

Init ==
    /\ opened = {}
    /\ connections = {}
    /\ idle = {}
    /\ queued = [s \in Sessions |-> 0]
    /\ closed = {}
    /\ wpc = [s \in Sessions |-> "exit"]
    /\ rpc = [s \in Sessions |-> "exit"]
    /\ cancelled = {}
    /\ read = [s \in Sessions |-> 0]
    /\ pushed = [s \in Sessions |-> 0]
    /\ polled = [s \in Sessions |-> 0]
    /\ call = [c \in Calls |-> NoCall]
    /\ kpc = <<"sleep", None>>
    /\ crashed = FALSE

-----------------------------------------------------------------------------
(* Steps of a call *)

At(c, kind, step) == call[c].kind = kind /\ call[c].step = step

Go(c, step) == call' = [call EXCEPT ![c].step = step]

\* conn.updateActivity
Active(s) == idle' = idle \ {s}

\* serverMessages is closed when the reader has returned.
ServerClosed(s) == rpc[s] = "exit"
ServerQueued(s) == pushed[s] - polled[s]

\* A send on clientMessages: it waits for room, and panics if the channel is
\* closed, also while it waits.
Send(s) ==
    /\ s \notin closed
    /\ queued[s] < ChanCap
    /\ queued' = [queued EXCEPT ![s] = @ + 1]

Panic ==
    /\ crashed' = TRUE
    /\ UNCHANGED <<opened, connections, idle, connVars, call, kpc>>

-----------------------------------------------------------------------------
(* Defects: what some definitions below would be with a plausible mistake.  *)
(* They show that the properties at the end can fail; nothing else uses     *)
(* them.                                                                   *)

\* A receive that does not look at ok.
PollRecvUnchecked(c) ==
    /\ At(c, "poll", "recv") \/ At(c, "poll", "drain")
    /\ ServerQueued(call[c].session) > 0 \/ ServerClosed(call[c].session)
    /\ polled' = [polled EXCEPT ![call[c].session] = @ + 1]
    /\ Go(c, "drain")
    /\ UNCHANGED <<opened, connections, idle, queued, closed, wpc, rpc, cancelled, read, pushed,
                   kpc, crashed>>

\* ReadServerMessages looks at done() as SendClientMessage does.
PollClosedIfCancelled(c) ==
    /\ At(c, "poll", "recv")
    /\ call[c].session \in cancelled
    /\ Active(call[c].session)
    /\ connections' = connections \ {call[c].session}
    /\ Go(c, "ended")
    /\ UNCHANGED <<opened, connVars, kpc, crashed>>

\* Close sends the close message and leaves the channel open.
CloseWithoutShut(c) ==
    /\ At(c, "close", "shut")
    /\ Go(c, "ok")
    /\ UNCHANGED <<opened, connections, idle, connVars, kpc, crashed>>

\* The cleanup closes what has been active.
CleanPickActive(s) ==
    /\ kpc[1] = "sleep"
    /\ s \in connections \ idle
    /\ kpc' = <<"send", s>>
    /\ UNCHANGED <<opened, connections, idle, connVars, call, crashed>>

\* The writer does not cancel the context when it returns.
WriterExitSilent(s) ==
    /\ \/ wpc[s] = "write"
       \/ wpc[s] = "recv" /\ queued[s] = 0 /\ s \in closed
       \/ wpc[s] = "recv" /\ s \in cancelled
    /\ wpc' = [wpc EXCEPT ![s] = "exit"]
    /\ UNCHANGED <<opened, connections, idle, queued, closed, rpc, cancelled, read, pushed, polled,
                   call, kpc, crashed>>

-----------------------------------------------------------------------------
(* open *)

\* NewConnection dials, starts the goroutines, and the session is stored.
Open(s) ==
    /\ s \notin opened
    /\ opened' = opened \cup {s}
    /\ connections' = connections \cup {s}
    /\ wpc' = [wpc EXCEPT ![s] = "recv"]
    /\ rpc' = [rpc EXCEPT ![s] = "read"]
    /\ UNCHANGED <<idle, queued, closed, cancelled, read, pushed, polled, call, kpc, crashed>>

\* The first step of a kind of call for a session that connections.Load finds.
First == [data |-> "check", poll |-> "start", close |-> "delete"]

\* The next call, with the ID of a session that may never have been opened (a
\* dial that fails stores nothing), looks it up.
Arrive(c, s, kind) ==
    /\ call[c] = NoCall
    /\ \A d \in 1 .. c - 1 : call[d] # NoCall
    /\ call' = [call EXCEPT ![c] =
                  [kind |-> kind, session |-> s,
                   step |-> IF s \in connections THEN First[kind] ELSE "unknown",
                   left |-> IF kind = "data" THEN DataLen ELSE 0]]
    /\ UNCHANGED <<opened, connections, idle, connVars, kpc, crashed>>

-----------------------------------------------------------------------------
(* data: SendClientMessage for one message after the other *)

\* A message that is neither a string nor a base64 encoded blob is refused.
DataMalformed(c) ==
    /\ At(c, "data", "check")
    /\ Active(call[c].session)
    /\ Go(c, "malformed")
    /\ UNCHANGED <<opened, connections, connVars, kpc, crashed>>

\* The session is looked up again for each further message.
DataLoad(c) ==
    /\ At(c, "data", "load")
    /\ Go(c, IF call[c].session \in connections THEN "check" ELSE "unknown")
    /\ UNCHANGED <<opened, connections, idle, connVars, kpc, crashed>>

\* The select: conn.done() is looked at once, before the send.
DataCheck(c) ==
    /\ At(c, "data", "check")
    /\ Active(call[c].session)
    /\ Go(c, IF call[c].session \in cancelled THEN "ended" ELSE "send")
    /\ UNCHANGED <<opened, connections, connVars, kpc, crashed>>

DataSend(c) ==
    /\ At(c, "data", "send")
    /\ Send(call[c].session)
    /\ call' = [call EXCEPT ![c].left = @ - 1,
                            ![c].step = IF call[c].left = 1 THEN "ok" ELSE "load"]
    /\ UNCHANGED <<opened, connections, idle, closed, wpc, rpc, cancelled, read, pushed, polled,
                   kpc, crashed>>

DataPanic(c) == At(c, "data", "send") /\ call[c].session \in closed /\ Panic

-----------------------------------------------------------------------------
(* poll: ReadServerMessages *)

PollStart(c) ==
    /\ At(c, "poll", "start")
    /\ Active(call[c].session)
    /\ Go(c, "recv")
    /\ UNCHANGED <<opened, connections, connVars, kpc, crashed>>

\* A message is taken; the first one waits for it, the others do not.
PollRecv(c) ==
    /\ At(c, "poll", "recv") \/ At(c, "poll", "drain")
    /\ ServerQueued(call[c].session) > 0
    /\ polled' = [polled EXCEPT ![call[c].session] = @ + 1]
    /\ Go(c, "drain")
    /\ UNCHANGED <<opened, connections, idle, queued, closed, wpc, rpc, cancelled, read, pushed,
                   kpc, crashed>>

\* None is left for now: the messages are returned.
PollReturn(c) ==
    /\ At(c, "poll", "drain")
    /\ ServerQueued(call[c].session) = 0
    /\ Active(call[c].session)
    /\ Go(c, "ok")
    /\ UNCHANGED <<opened, connections, connVars, kpc, crashed>>

\* The channel is drained and closed: the session is over and is forgotten.
PollClosed(c) ==
    /\ At(c, "poll", "recv")
    /\ ServerClosed(call[c].session)
    /\ ServerQueued(call[c].session) = 0
    /\ Active(call[c].session)
    /\ connections' = connections \ {call[c].session}
    /\ Go(c, "ended")
    /\ UNCHANGED <<opened, connVars, kpc, crashed>>

PollTimeout(c) ==
    /\ At(c, "poll", "recv")
    /\ Active(call[c].session)
    /\ Go(c, "timeout")
    /\ UNCHANGED <<opened, connections, connVars, kpc, crashed>>

-----------------------------------------------------------------------------
(* close, and the cleanup of inactive sessions: Connection.Close sends a     *)
(* close message, then closes the channel                                  *)

CloseDelete(c) ==
    /\ At(c, "close", "delete")
    /\ connections' = connections \ {call[c].session}
    /\ Go(c, "send")
    /\ UNCHANGED <<opened, idle, connVars, kpc, crashed>>

CloseSend(c) ==
    /\ At(c, "close", "send")
    /\ Send(call[c].session)
    /\ Go(c, "shut")
    /\ UNCHANGED <<opened, connections, idle, closed, wpc, rpc, cancelled, read, pushed, polled,
                   kpc, crashed>>

CloseShut(c) ==
    /\ At(c, "close", "shut")
    /\ call[c].session \notin closed
    /\ closed' = closed \cup {call[c].session}
    /\ Go(c, "ok")
    /\ UNCHANGED <<opened, connections, idle, queued, wpc, rpc, cancelled, read, pushed, polled,
                   kpc, crashed>>

ClosePanic(c) ==
    /\ At(c, "close", "send") \/ At(c, "close", "shut")
    /\ call[c].session \in closed
    /\ Panic

\* A tick: a session in the map has been inactive for too long.
CleanPick(s) ==
    /\ kpc[1] = "sleep"
    /\ s \in connections \cap idle
    /\ kpc' = <<"send", s>>
    /\ UNCHANGED <<opened, connections, idle, connVars, call, crashed>>

CleanSend ==
    /\ kpc[1] = "send"
    /\ Send(kpc[2])
    /\ kpc' = <<"shut", kpc[2]>>
    /\ UNCHANGED <<opened, connections, idle, closed, wpc, rpc, cancelled, read, pushed, polled,
                   call, crashed>>

CleanShut ==
    /\ kpc[1] = "shut"
    /\ kpc[2] \notin closed
    /\ closed' = closed \cup {kpc[2]}
    /\ kpc' = <<"delete", kpc[2]>>
    /\ UNCHANGED <<opened, connections, idle, queued, wpc, rpc, cancelled, read, pushed, polled,
                   call, crashed>>

CleanDelete ==
    /\ kpc[1] = "delete"
    /\ connections' = connections \ {kpc[2]}
    /\ kpc' = <<"sleep", None>>
    /\ UNCHANGED <<opened, idle, connVars, call, crashed>>

CleanPanic == kpc[1] \in {"send", "shut"} /\ kpc[2] \in closed /\ Panic

-----------------------------------------------------------------------------
(* The goroutines of NewConnection *)

Cancel(s) == cancelled' = cancelled \cup {s}

\* The writer takes a message and writes it to the websocket, ...
WriterRecv(s) ==
    /\ wpc[s] = "recv"
    /\ queued[s] > 0
    /\ queued' = [queued EXCEPT ![s] = @ - 1]
    /\ wpc' = [wpc EXCEPT ![s] = "write"]
    /\ UNCHANGED <<opened, connections, idle, closed, rpc, cancelled, read, pushed, polled, call,
                   kpc, crashed>>

WriterWritten(s) ==
    /\ wpc[s] = "write"
    /\ wpc' = [wpc EXCEPT ![s] = "recv"]
    /\ UNCHANGED <<opened, connections, idle, queued, closed, rpc, cancelled, read, pushed, polled,
                   call, kpc, crashed>>

\* ... and returns when that fails, when the channel is closed and empty, or
\* when the context is cancelled, which it then is.
WriterExit(s) ==
    /\ \/ wpc[s] = "write"
       \/ wpc[s] = "recv" /\ queued[s] = 0 /\ s \in closed
       \/ wpc[s] = "recv" /\ s \in cancelled
    /\ wpc' = [wpc EXCEPT ![s] = "exit"]
    /\ Cancel(s)
    /\ UNCHANGED <<opened, connections, idle, queued, closed, rpc, read, pushed, polled, call, kpc,
                   crashed>>

\* The reader reads a message from the websocket and pushes it, ...
ReaderRead(s) ==
    /\ rpc[s] = "read"
    /\ read[s] < MaxServer
    /\ read' = [read EXCEPT ![s] = @ + 1]
    /\ rpc' = [rpc EXCEPT ![s] = "push"]
    /\ UNCHANGED <<opened, connections, idle, queued, closed, wpc, cancelled, pushed, polled, call,
                   kpc, crashed>>

ReaderPush(s) ==
    /\ rpc[s] = "push"
    /\ ServerQueued(s) < ChanCap
    /\ pushed' = [pushed EXCEPT ![s] = @ + 1]
    /\ rpc' = [rpc EXCEPT ![s] = "read"]
    /\ UNCHANGED <<opened, connections, idle, queued, closed, wpc, cancelled, read, polled, call,
                   kpc, crashed>>

\* ... and returns when the context is cancelled, which closes the websocket,
ReaderExit(s) ==
    /\ rpc[s] = "read"
    /\ s \in cancelled
    /\ rpc' = [rpc EXCEPT ![s] = "exit"]
    /\ UNCHANGED <<opened, connections, idle, queued, closed, wpc, cancelled, read, pushed, polled,
                   call, kpc, crashed>>

\* ... or when the backend closes it.
BackendCloses(s) ==
    /\ rpc[s] = "read"
    /\ s \notin cancelled
    /\ rpc' = [rpc EXCEPT ![s] = "exit"]
    /\ Cancel(s)
    /\ UNCHANGED <<opened, connections, idle, queued, closed, wpc, read, pushed, polled, call, kpc,
                   crashed>>

\* Time passes without activity.  A poll in progress is shorter than half of
\* the timeout, so the session it works with does not age.
Age(s) ==
    /\ s \in opened \ idle
    /\ \A c \in Calls :
         call[c].session = s /\ call[c].kind = "poll" => call[c].step \notin {"recv", "drain"}
    /\ idle' = idle \cup {s}
    /\ UNCHANGED <<opened, connections, connVars, call, kpc, crashed>>

-----------------------------------------------------------------------------
CallStep(c) ==
    \/ DataLoad(c) \/ DataMalformed(c) \/ DataCheck(c) \/ DataSend(c) \/ DataPanic(c)
    \/ PollStart(c) \/ PollRecv(c) \/ PollReturn(c) \/ PollClosed(c) \/ PollTimeout(c)
    \/ CloseDelete(c) \/ CloseSend(c) \/ CloseShut(c) \/ ClosePanic(c)

CleanStep == (\E s \in Sessions : CleanPick(s)) \/ CleanSend \/ CleanShut \/ CleanDelete \/ CleanPanic

WriterStep(s) == WriterRecv(s) \/ WriterWritten(s) \/ WriterExit(s)

Kinds == {"data", "poll", "close"}

Next ==
    /\ ~crashed
    /\ \/ \E s \in Sessions : Open(s) \/ Age(s) \/ WriterStep(s)
       \/ \E s \in Sessions : ReaderRead(s) \/ ReaderPush(s) \/ ReaderExit(s) \/ BackendCloses(s)
       \/ \E c \in Calls, s \in Sessions, kind \in Kinds : Arrive(c, s, kind)
       \/ \E c \in Calls : CallStep(c)
       \/ CleanStep

Spec == Init /\ [][Next]_vars

(***************************************************************************)
(* Fairness: goroutines that can go on do, and a write to the websocket    *)
(* ends.  Nothing is assumed of the browser, of the backend's messages, or *)
(* of the passing of time.                                                 *)
(***************************************************************************)
Alive(A) == ~crashed /\ A

FairSpec ==
    /\ Spec
    /\ \A c \in Calls : WF_vars(Alive(CallStep(c)))
    /\ \A s \in Sessions :
         /\ WF_vars(Alive(WriterStep(s)))
         /\ WF_vars(Alive(ReaderPush(s) \/ ReaderExit(s)))
    /\ WF_vars(Alive(CleanStep))

-----------------------------------------------------------------------------
(* Properties *)

TypeOK ==
    /\ opened \subseteq Sessions
    /\ connections \subseteq opened
    /\ idle \subseteq opened
    /\ queued \in [Sessions -> 0 .. ChanCap]
    /\ closed \subseteq opened
    /\ wpc \in [Sessions -> {"recv", "write", "exit"}]
    /\ rpc \in [Sessions -> {"read", "push", "exit"}]
    /\ cancelled \subseteq opened
    /\ read \in [Sessions -> 0 .. MaxServer]
    /\ \A s \in Sessions : ServerQueued(s) \in 0 .. ChanCap /\ pushed[s] <= read[s]
    /\ call \in [Calls -> [kind : Kinds \cup {"none"},
                           session : Sessions \cup {None},
                           step : {"new", "load", "check", "start", "recv", "drain", "delete",
                                   "send", "shut"} \cup Replies,
                           left : 0 .. DataLen]]
    /\ kpc \in {"sleep", "send", "shut", "delete"} \X (Sessions \cup {None})
    /\ crashed \in BOOLEAN

\* A call for s has answered.
Done(c, kind, reply, s) == At(c, kind, reply) /\ call[c].session = s

\* A poll that reports the end of a session comes after everything that the
\* reader got from the backend: ReadServerMessages drains the channel before it
\* fails, however the reader, the writer's cancellation and other polls
\* interleave.  (What is on its way when the connection is closed is dropped.)
EndedMeansDrained ==
    \A c \in Calls, s \in Sessions :
        Done(c, "poll", "ended", s) => rpc[s] = "exit" /\ polled[s] = read[s]

\* What a data call answered "ok" for is written to the websocket, or the
\* session has ended, as it must have when the writer returned: no message
\* stays in clientMessages of a live session for good.
DataIsWritten ==
    \A c \in Calls, s \in Sessions :
        Done(c, "data", "ok", s) ~>
            crashed \/ s \in cancelled \/ (queued[s] = 0 /\ wpc[s] = "recv")

\* The reader waits for room that only a poll of the session can make.
ReaderStuck(s) == rpc[s] = "push" /\ ServerQueued(s) = ChanCap

\* A close call that succeeds ends the goroutines of the session: the closed
\* channel ends the writer, its cancel() closes the websocket, which ends the
\* reader, unless that is blocked on a full serverMessages.
CloseTearsDown ==
    \A c \in Calls, s \in Sessions :
        Done(c, "close", "ok", s) ~>
            crashed \/ (wpc[s] = "exit" /\ (rpc[s] = "exit" \/ ReaderStuck(s)))

\* The cleanup goroutine waits in Connection.Close for room in a channel that
\* nobody receives from any more.
CleanerStuck == kpc[1] = "send" /\ queued[kpc[2]] = ChanCap /\ wpc[kpc[2]] = "exit"

\* An inactive session leaves the map, or becomes active again, as long as the
\* cleanup goroutine is not blocked by a session whose writer has returned.
ExpiresUnlessStuck ==
    \A s \in Sessions :
        s \in connections \cap idle ~>
            crashed \/ CleanerStuck \/ s \notin connections \/ s \notin idle

\* A message is sent only on a connection that is not closed: connection.go
\* says of SendClientMessage "The returned error value is non-nill if the
\* connection has been closed."
SendOnlyIfOpen ==
    \A c \in Calls : At(c, "data", "send") => call[c].session \notin closed
=============================================================================
