-------------------------- MODULE WebsocketBridge --------------------------
(***************************************************************************)
(* The stand-alone proxy's websocket bridge: handleWebsocketRequest        *)
(* (src/server/server.go).                                                 *)
(*                                                                         *)
(* A client's websocket is served with calls to the agent's websocket shim *)
(* (src/agent/websockets/shim.go): open, then data for every message of    *)
(* the client and poll for the backend's messages, and close.  Three       *)
(* goroutines work on it: one reads the client's messages, one polls, and  *)
(* the handler's own, which makes the data calls, writes to the client and *)
(* ends with close.  They meet in readChan, which has no room, and         *)
(* writeChan.                                                              *)
(*                                                                         *)
(* The calls go through handleFrontendRequest with a context that is never *)
(* cancelled: one whose request or response gets lost on the way to the    *)
(* agent never returns (see Server and InvertingProxy).  The context of    *)
(* the bridge is cancelled after the loop only, so its case in the select  *)
(* never happens.                                                          *)
(***************************************************************************)
EXTENDS Integers, Sequences

CONSTANTS
    MaxClient,  \* bound: messages the client sends
    MaxServer,  \* bound: messages the backend sends
    MaxPieces,  \* bound: how often a message is longer than the read buffer
    ChanCap,    \* capacity of writeChan (bufSize)
    MaxLost     \* bound: calls that never return

ASSUME BoundsAssumption ==
    /\ MaxClient \in Nat /\ MaxServer \in Nat /\ MaxPieces \in Nat
    /\ ChanCap \in Nat \ {0} /\ MaxLost \in Nat

VARIABLES
    mpc,         \* the goroutine of handleWebsocketRequest
    cpc,         \* the goroutine that reads client messages
    kpc,         \* the goroutine that polls for server messages
    clientOpen,  \* whether the client's websocket is open
    clientSent,  \* messages the client has sent
    pieces,      \* into how many pieces each message that was read is split
    fromClient,  \* the client message each of these pieces is of
    taken,       \* messages the loop has taken out of readChan
    writeChan,   \* the batches of server messages in the channel
    batch,       \* the batch the poll goroutine has received
    out,         \* what is left of the batch being written to the client
    session,     \* the shim session: "none", "open", "ended" (still known) or "gone"
    serverSent,  \* messages the backend has sent
    polled,      \* messages polls have taken out of the session
    toBackend,   \* the client message each message written to the backend is a piece of
    toClient,    \* server messages written to the client
    lost         \* calls that never return

clientVars  == <<clientOpen, clientSent>>
readVars    == <<pieces, fromClient>>
sessionVars == <<session, serverSent, polled>>
vars        == <<mpc, cpc, kpc, clientVars, readVars, taken, writeChan, batch, out, sessionVars,
                 toBackend, toClient, lost>>

Init ==
    /\ mpc = "opening"
    /\ cpc = "none"
    /\ kpc = "none"
    /\ clientOpen = TRUE
    /\ clientSent = 0
    /\ pieces = <<>>
    /\ fromClient = <<>>
    /\ taken = 0
    /\ writeChan = <<>>
    /\ batch = <<>>
    /\ out = <<>>
    /\ session = "none"
    /\ serverSent = 0
    /\ polled = 0
    /\ toBackend = <<>>
    /\ toClient = <<>>
    /\ lost = 0

\* The session is in the shim's map.
Known == session \in {"open", "ended"}

Interval(from, to) == [k \in 1 .. to - from + 1 |-> from + k - 1]

\* The pieces of the n-th client message.
Pieces(n) == [k \in 1 .. pieces[n] |-> n]

-----------------------------------------------------------------------------
(* Defects: what some definitions below would be with a plausible mistake.  *)
(* They show that the properties at the end can fail; nothing else uses     *)
(* them.                                                                   *)

\* A data call that is refused is skipped.
DataRefusedIgnored ==
    /\ mpc = "data"
    /\ session # "open"
    /\ pieces[taken] > 0
    /\ mpc' = "loop"
    /\ UNCHANGED <<cpc, kpc, clientVars, readVars, taken, writeChan, batch, out, sessionVars, toBackend,
                   toClient, lost>>

\* A poll that is refused is repeated.
PollRefusedAgain ==
    /\ \/ kpc = "poll" /\ ~Known
       \/ kpc = "wait" /\ session # "open" /\ serverSent = polled
    /\ session' = "gone"
    /\ kpc' = "poll"
    /\ UNCHANGED <<mpc, cpc, clientVars, readVars, taken, writeChan, batch, out, serverSent, polled,
                   toBackend, toClient, lost>>

\* The batch is dropped when the channel is full.
PollPushOrDrop ==
    /\ kpc = "push"
    /\ writeChan' = IF Len(writeChan) < ChanCap THEN Append(writeChan, batch) ELSE writeChan
    /\ batch' = <<>>
    /\ kpc' = "poll"
    /\ UNCHANGED <<mpc, cpc, clientVars, readVars, taken, out, sessionVars, toBackend, toClient, lost>>

\* The goroutine polls once.
PollPushOnce ==
    /\ kpc = "push"
    /\ Len(writeChan) < ChanCap
    /\ writeChan' = Append(writeChan, batch)
    /\ batch' = <<>>
    /\ kpc' = "done"
    /\ UNCHANGED <<mpc, cpc, clientVars, readVars, taken, out, sessionVars, toBackend, toClient, lost>>

\* A send that does not wait for room.
PollPushUnbounded ==
    /\ kpc = "push"
    /\ writeChan' = Append(writeChan, batch)
    /\ batch' = <<>>
    /\ kpc' = "poll"
    /\ UNCHANGED <<mpc, cpc, clientVars, readVars, taken, out, sessionVars, toBackend, toClient,
                   lost>>

-----------------------------------------------------------------------------
(* Opening *)

\* The answer to the open call: the agent has dialled the backend.
OpenOK ==
    /\ mpc = "opening"
    /\ session' = "open"
    /\ mpc' = "accept"
    /\ UNCHANGED <<cpc, kpc, clientVars, readVars, taken, writeChan, batch, out, serverSent, polled,
                   toBackend, toClient, lost>>

OpenFail ==
    /\ mpc = "opening"
    /\ mpc' = "done"
    /\ UNCHANGED <<cpc, kpc, clientVars, readVars, taken, writeChan, batch, out, sessionVars, toBackend,
                   toClient, lost>>

\* websocket.Accept, and the two goroutines.
Accept ==
    /\ mpc = "accept"
    /\ mpc' = "loop"
    /\ cpc' = "read"
    /\ kpc' = "poll"
    /\ UNCHANGED <<clientVars, readVars, taken, writeChan, batch, out, sessionVars, toBackend, toClient,
                   lost>>

\* Accept fails before the close call is deferred: the session is left to the
\* shim's timeout.
AcceptFail ==
    /\ mpc = "accept"
    /\ mpc' = "done"
    /\ UNCHANGED <<cpc, kpc, clientVars, readVars, taken, writeChan, batch, out, sessionVars, toBackend,
                   toClient, lost>>

-----------------------------------------------------------------------------
(* The goroutine that reads client messages *)

\* A message is read in pieces as large as the buffer; an empty one has none.
ClientRead(n) ==
    /\ cpc = "read"
    /\ mpc # "done"
    /\ Len(pieces) < clientSent
    /\ pieces' = Append(pieces, n)
    /\ fromClient' = fromClient \o [k \in 1 .. n |-> Len(pieces) + 1]
    /\ cpc' = "push"
    /\ UNCHANGED <<mpc, kpc, clientVars, taken, writeChan, batch, out, sessionVars, toBackend, toClient,
                   lost>>

\* conn.Reader fails when the client is gone, or after ctxCancel.
ClientReadFail ==
    /\ cpc = "read"
    /\ mpc = "done" \/ (~clientOpen /\ Len(pieces) = clientSent)
    /\ cpc' = "done"
    /\ UNCHANGED <<mpc, kpc, clientVars, readVars, taken, writeChan, batch, out, sessionVars, toBackend,
                   toClient, lost>>

-----------------------------------------------------------------------------
(* The goroutine that polls for server messages *)

\* The poll call finds the session.
PollFind ==
    /\ kpc = "poll"
    /\ Known
    /\ kpc' = "wait"
    /\ UNCHANGED <<mpc, cpc, clientVars, readVars, taken, writeChan, batch, out, sessionVars, toBackend,
                   toClient, lost>>

\* Its answer holds all messages that are there.
PollOK ==
    /\ kpc = "wait"
    /\ polled < serverSent
    /\ batch' = Interval(polled + 1, serverSent)
    /\ polled' = serverSent
    /\ kpc' = "push"
    /\ UNCHANGED <<mpc, cpc, clientVars, readVars, taken, writeChan, out, session, serverSent, toBackend,
                   toClient, lost>>

PollPush ==
    /\ kpc = "push"
    /\ Len(writeChan) < ChanCap
    /\ writeChan' = Append(writeChan, batch)
    /\ batch' = <<>>
    /\ kpc' = "poll"
    /\ UNCHANGED <<mpc, cpc, clientVars, readVars, taken, out, sessionVars, toBackend, toClient, lost>>

\* No message came in time: status 408, which is an error like any other that
\* ends the goroutine.
PollTimeout ==
    /\ kpc = "wait"
    /\ session = "open" /\ serverSent = polled
    /\ kpc' = "idle"
    /\ UNCHANGED <<mpc, cpc, clientVars, readVars, taken, writeChan, batch, out, sessionVars, toBackend,
                   toClient, lost>>

\* The session is not known, or over: status 400, and it is forgotten.
PollRefused ==
    /\ \/ kpc = "poll" /\ ~Known
       \/ kpc = "wait" /\ session # "open" /\ serverSent = polled
    /\ session' = "gone"
    /\ kpc' = "done"
    /\ UNCHANGED <<mpc, cpc, clientVars, readVars, taken, writeChan, batch, out, serverSent, polled,
                   toBackend, toClient, lost>>

-----------------------------------------------------------------------------
(* The loop *)

\* A client message is taken: a data call is made.
LoopRead ==
    /\ mpc = "loop"
    /\ cpc = "push"
    /\ mpc' = "data"
    /\ cpc' = "read"
    /\ taken' = Len(pieces)
    /\ UNCHANGED <<kpc, clientVars, readVars, writeChan, batch, out, sessionVars, toBackend, toClient,
                   lost>>

\* The agent sends the pieces, each as a message, to the backend.  For a
\* message without pieces it does not look for the session.
DataOK ==
    /\ mpc = "data"
    /\ session = "open" \/ pieces[taken] = 0
    /\ toBackend' = toBackend \o Pieces(taken)
    /\ mpc' = "loop"
    /\ UNCHANGED <<cpc, kpc, clientVars, readVars, taken, writeChan, batch, out, sessionVars, toClient,
                   lost>>

DataRefused ==
    /\ mpc = "data"
    /\ session # "open"
    /\ pieces[taken] > 0
    /\ mpc' = "closing"
    /\ UNCHANGED <<cpc, kpc, clientVars, readVars, taken, writeChan, batch, out, sessionVars, toBackend,
                   toClient, lost>>

\* The backend leaves while the agent goes through the pieces: it has accepted
\* the first k and refuses the next.
DataBroken(k) ==
    /\ mpc = "data"
    /\ session = "open"
    /\ k < pieces[taken]
    /\ session' = "ended"
    /\ toBackend' = toBackend \o SubSeq(Pieces(taken), 1, k)
    /\ mpc' = "closing"
    /\ UNCHANGED <<cpc, kpc, clientVars, readVars, taken, writeChan, batch, out, serverSent, polled,
                   toClient, lost>>

LoopWrite ==
    /\ mpc = "loop"
    /\ writeChan # <<>>
    /\ out' = Head(writeChan)
    /\ writeChan' = Tail(writeChan)
    /\ mpc' = "write"
    /\ UNCHANGED <<cpc, kpc, clientVars, readVars, taken, batch, sessionVars, toBackend, toClient, lost>>

WriteClient ==
    /\ mpc = "write"
    /\ clientOpen
    /\ toClient' = Append(toClient, Head(out))
    /\ out' = Tail(out)
    /\ mpc' = IF Len(out) = 1 THEN "loop" ELSE "write"
    /\ UNCHANGED <<cpc, kpc, clientVars, readVars, taken, writeChan, batch, sessionVars, toBackend, lost>>

WriteFail ==
    /\ mpc = "write"
    /\ ~clientOpen
    /\ mpc' = "closing"
    /\ UNCHANGED <<cpc, kpc, clientVars, readVars, taken, writeChan, batch, out, sessionVars, toBackend,
                   toClient, lost>>

\* The deferred function: the close call, answered in one way or the other,
\* ctxCancel and CloseNow.
CloseDone ==
    /\ mpc = "closing"
    /\ session' = "gone"
    /\ mpc' = "done"
    /\ clientOpen' = FALSE
    /\ UNCHANGED <<cpc, kpc, clientSent, readVars, taken, writeChan, batch, out, serverSent, polled,
                   toBackend, toClient, lost>>

-----------------------------------------------------------------------------
(* The client, the backend and the agent *)

ClientSend ==
    /\ clientOpen
    /\ mpc \notin {"opening", "accept"}
    /\ clientSent < MaxClient
    /\ clientSent' = clientSent + 1
    /\ UNCHANGED <<mpc, cpc, kpc, clientOpen, readVars, taken, writeChan, batch, out, sessionVars, toBackend,
                   toClient, lost>>

ClientLeave ==
    /\ clientOpen
    /\ mpc \notin {"opening", "accept"}
    /\ clientOpen' = FALSE
    /\ UNCHANGED <<mpc, cpc, kpc, clientSent, readVars, taken, writeChan, batch, out, sessionVars, toBackend,
                   toClient, lost>>

BackendSend ==
    /\ session = "open"
    /\ serverSent < MaxServer
    /\ serverSent' = serverSent + 1
    /\ UNCHANGED <<mpc, cpc, kpc, clientVars, readVars, taken, writeChan, batch, out, session, polled,
                   toBackend, toClient, lost>>

BackendLeave ==
    /\ session = "open"
    /\ session' = "ended"
    /\ UNCHANGED <<mpc, cpc, kpc, clientVars, readVars, taken, writeChan, batch, out, serverSent, polled,
                   toBackend, toClient, lost>>

\* The shim closes a session that has been inactive for too long; a poll is
\* activity.
Expire ==
    /\ Known
    /\ kpc # "wait"
    /\ session' = "gone"
    /\ UNCHANGED <<mpc, cpc, kpc, clientVars, readVars, taken, writeChan, batch, out, serverSent, polled,
                   toBackend, toClient, lost>>

\* A call never returns.  The agent may have carried it out.
LoseCall(done) ==
    /\ lost < MaxLost
    /\ lost' = lost + 1
    /\ \/ /\ mpc \in {"opening", "data", "closing"}
          /\ mpc' = "lost"
          /\ session' = IF ~done THEN session
                        ELSE [opening |-> "open", data |-> session, closing |-> "gone"][mpc]
          /\ toBackend' = IF done /\ mpc = "data" /\ session = "open"
                          THEN toBackend \o Pieces(taken) ELSE toBackend
          /\ UNCHANGED <<kpc, polled>>
       \/ /\ kpc \in {"poll", "wait"}
          /\ kpc' = "lost"
          /\ polled' = IF done /\ kpc = "wait" THEN serverSent ELSE polled
          /\ UNCHANGED <<mpc, session, toBackend>>
    /\ UNCHANGED <<cpc, clientVars, readVars, taken, writeChan, batch, out, serverSent, toClient>>

-----------------------------------------------------------------------------
MainStep ==
    \/ OpenOK \/ OpenFail \/ Accept \/ AcceptFail
    \/ LoopRead \/ DataOK \/ DataRefused \/ (\E k \in 1 .. MaxPieces : DataBroken(k))
    \/ LoopWrite \/ WriteClient \/ WriteFail \/ CloseDone

ReaderStep == (\E n \in 0 .. MaxPieces : ClientRead(n)) \/ ClientReadFail

PollStep == PollFind \/ PollOK \/ PollPush \/ PollTimeout \/ PollRefused

Next ==
    \/ MainStep \/ ReaderStep \/ PollStep
    \/ ClientSend \/ ClientLeave \/ BackendSend \/ BackendLeave \/ Expire
    \/ \E done \in BOOLEAN : LoseCall(done)

Spec == Init /\ [][Next]_vars

(***************************************************************************)
(* Fairness: the three goroutines go on when they can, and a call that is  *)
(* not lost is answered, since the shim's handlers return (a poll after    *)
(* its timeout at the latest).  The select takes either channel again and  *)
(* again.  A client that is still there reads, so that a write to it ends; *)
(* a client that stops reading would hold the loop in it.  Nothing else is *)
(* assumed of the client, the backend or the agent's cleanup.              *)
(***************************************************************************)
FairSpec ==
    /\ Spec
    /\ WF_vars(MainStep) /\ SF_vars(LoopRead) /\ SF_vars(LoopWrite)
    /\ WF_vars(ReaderStep)
    /\ WF_vars(PollStep)

-----------------------------------------------------------------------------
(* Properties *)

TypeOK ==
    /\ mpc \in {"opening", "accept", "loop", "data", "write", "closing", "done", "lost"}
    /\ cpc \in {"none", "read", "push", "done"}
    /\ kpc \in {"none", "poll", "wait", "push", "idle", "done", "lost"}
    /\ clientOpen \in BOOLEAN
    /\ clientSent \in 0 .. MaxClient
    /\ pieces \in Seq(0 .. MaxPieces) /\ Len(pieces) <= clientSent
    /\ taken \in 0 .. Len(pieces)
    /\ Len(writeChan) <= ChanCap
    /\ batch \in Seq(1 .. polled) /\ out \in Seq(1 .. polled)
    /\ session \in {"none", "open", "ended", "gone"}
    /\ serverSent \in 0 .. MaxServer
    /\ polled \in 0 .. serverSent
    /\ fromClient \in Seq(1 .. Len(pieces)) /\ toBackend \in Seq(1 .. taken)
    /\ toClient \in Seq(1 .. polled)
    /\ lost \in 0 .. MaxLost

\* Whatever ends first and whichever call is lost, the client gets a prefix
\* of the backend's messages, and the backend a prefix of the client's, split
\* where they are longer than the buffer: none is skipped, repeated or
\* overtaken (server.go:419-440 and 467-539).
StreamsInOrder ==
    /\ toClient = Interval(1, Len(toClient))
    /\ Len(toBackend) <= Len(fromClient)
    /\ toBackend = SubSeq(fromClient, 1, Len(toBackend))

\* The bridge ends when a server message cannot be given to a client that has
\* left, and when a client message, unless empty, cannot be given to a session
\* that is over (server.go:504 and 523).
EndsWhenUsed ==
    \/ ~clientOpen /\ writeChan # <<>>
    \/ ~Known /\ cpc = "push" /\ pieces[Len(pieces)] > 0
    ~> mpc \in {"done", "lost"}

\* When the bridge is over both goroutines end, except a reader that still
\* holds a message, and a poll goroutine whose call is lost or whose channel
\* is full (server.go:438 and 255).
GoroutinesEnd ==
    mpc = "done" ~> /\ cpc \in {"none", "done", "push"}
                    /\ kpc \in {"none", "idle", "done", "lost"} \/ Len(writeChan) = ChanCap

\* A message of the backend reaches the client, unless the client leaves, the
\* bridge ends or a call is lost, or a poll or the whole session was without
\* activity for too long before (server.go:442-465).
ServerMessageRelayed ==
    \A n \in 1 .. MaxServer :
      serverSent >= n ~> \/ Len(toClient) >= n
                         \/ ~clientOpen
                         \/ mpc \in {"done", "lost"}
                         \/ kpc \in {"idle", "lost"}
                         \/ session = "gone"
=============================================================================
