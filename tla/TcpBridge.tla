----------------------------- MODULE TcpBridge -----------------------------
(***************************************************************************)
(* The TCP bridge: tcp-bridge-frontend and the Handler that                *)
(* tcp-bridge-backend serves                                               *)
(* (src/utils/tcpbridge/tcp-bridge-frontend/tcp-bridge-frontend.go,        *)
(* src/utils/tcpbridge/connection/connection.go).                          *)
(*                                                                         *)
(* Each side has a TCP connection to a peer, the client or the server, and *)
(* shares a websocket with the other side.  Two goroutines copy, one from  *)
(* the peer to the websocket ("up") and one back ("down"); when both have  *)
(* returned the side closes both connections.  The sides do not close      *)
(* one direction alone, so the end of a peer's data is not passed on.      *)
(*                                                                         *)
(* The bytes that a peer sends are numbered from 1.                        *)
(***************************************************************************)
EXTENDS Integers, Sequences

CONSTANTS
    MaxBytes,  \* bound: bytes a peer sends
    MaxRead    \* bound: bytes one Read returns

ASSUME BytesAssumption == MaxBytes \in Nat /\ MaxRead \in Nat \ {0}

Sides == {"frontend", "backend"}

Other(s) == IF s = "frontend" THEN "backend" ELSE "frontend"

VARIABLES
    status,    \* each side: "waiting", "dialling", "copying", "ended" or "failed"
    up,        \* its goroutine that copies from the peer: "run" or "done"
    down,      \* its goroutine that copies to the peer
    peer,      \* its peer: "open", "half" (has sent all, still reads) or "closed"
    sent,      \* bytes the peer has sent
    taken,     \* bytes of them that Read has returned
    ws,        \* websocket messages on their way from this side
    buffered,  \* WebsocketNetConn.bufferedMsg
    received   \* bytes written to the peer that it can read

vars == <<status, up, down, peer, sent, taken, ws, buffered, received>>

Interval(from, to) == [k \in 1 .. to - from + 1 |-> from + k - 1]

\* A client has connected to the frontend, which dials.
Init ==
    /\ status = [s \in Sides |-> IF s = "frontend" THEN "dialling" ELSE "waiting"]
    /\ up = [s \in Sides |-> "run"]
    /\ down = [s \in Sides |-> "run"]
    /\ peer = [s \in Sides |-> "open"]
    /\ sent = [s \in Sides |-> 0]
    /\ taken = [s \in Sides |-> 0]
    /\ ws = [s \in Sides |-> <<>>]
    /\ buffered = [s \in Sides |-> <<>>]
    /\ received = [s \in Sides |-> <<>>]

-----------------------------------------------------------------------------
(* Defects: what some definitions below would be with a plausible mistake.  *)
(* They show that the properties at the end can fail; nothing else uses     *)
(* them.                                                                   *)

\* A Read forgets what did not fit.
DownCopyForgetful(s, n) ==
    /\ status[s] = "copying" /\ down[s] = "run"
    /\ n <= Len(buffered[s])
    /\ peer[s] # "closed"
    /\ received' = [received EXCEPT ![s] = @ \o SubSeq(buffered[s], 1, n)]
    /\ buffered' = [buffered EXCEPT ![s] = <<>>]
    /\ UNCHANGED <<status, up, down, peer, sent, taken, ws>>

\* A side ends with the first of its goroutines.
EndEarly(s) ==
    /\ status[s] = "copying"
    /\ up[s] = "done" \/ down[s] = "done"
    /\ status' = [status EXCEPT ![s] = "ended"]
    /\ UNCHANGED <<up, down, peer, sent, taken, ws, buffered, received>>

\* A side ends without closing the websocket.
WebsocketLeftOpen(s) == FALSE

-----------------------------------------------------------------------------
(* Establishing the bridge *)

\* DialWebsocket: the backend upgrades the connection and dials its server.
DialWebsocket ==
    /\ status["frontend"] = "dialling"
    /\ status' = [frontend |-> "copying", backend |-> "dialling"]
    /\ UNCHANGED <<up, down, peer, sent, taken, ws, buffered, received>>

DialBackend ==
    /\ status["backend"] = "dialling"
    /\ status' = [status EXCEPT !["backend"] = "copying"]
    /\ UNCHANGED <<up, down, peer, sent, taken, ws, buffered, received>>

\* A side that cannot dial returns, which closes what is open.
DialFail(s) ==
    /\ status[s] = "dialling"
    /\ status' = [status EXCEPT ![s] = "failed"]
    /\ UNCHANGED <<up, down, peer, sent, taken, ws, buffered, received>>

-----------------------------------------------------------------------------
(* io.Copy from the peer to the websocket *)

\* wsConn.Close has been called.
WebsocketClosed(s) == status[s] \in {"ended", "failed"}

\* Some bytes are read and written as one message.  What is written after the
\* other side has closed the websocket is lost, ...
UpCopy(s, n) ==
    /\ status[s] = "copying" /\ up[s] = "run"
    /\ taken[s] + n <= sent[s]
    /\ taken' = [taken EXCEPT ![s] = @ + n]
    /\ ws' = IF WebsocketClosed(Other(s)) THEN ws
             ELSE [ws EXCEPT ![s] = Append(@, Interval(taken[s] + 1, taken[s] + n))]
    /\ UNCHANGED <<status, up, down, peer, sent, buffered, received>>

\* ... or the Write fails.
UpFail(s) ==
    /\ status[s] = "copying" /\ up[s] = "run"
    /\ taken[s] < sent[s]
    /\ WebsocketClosed(Other(s))
    /\ up' = [up EXCEPT ![s] = "done"]
    /\ UNCHANGED <<status, down, peer, sent, taken, ws, buffered, received>>

\* A peer that closes its connection before it has read everything, or that is
\* written to afterwards, resets it: Read fails.
UpReset(s) ==
    /\ status[s] = "copying" /\ up[s] = "run"
    /\ taken[s] < sent[s]
    /\ peer[s] = "closed"
    /\ up' = [up EXCEPT ![s] = "done"]
    /\ UNCHANGED <<status, down, peer, sent, taken, ws, buffered, received>>

UpEOF(s) ==
    /\ status[s] = "copying" /\ up[s] = "run"
    /\ taken[s] = sent[s]
    /\ peer[s] # "open"
    /\ up' = [up EXCEPT ![s] = "done"]
    /\ UNCHANGED <<status, down, peer, sent, taken, ws, buffered, received>>

-----------------------------------------------------------------------------
(* io.Copy from the websocket to the peer *)

\* WebsocketNetConn.Read reads a message when nothing is buffered, ...
DownRead(s) ==
    /\ status[s] = "copying" /\ down[s] = "run"
    /\ buffered[s] = <<>>
    /\ ws[Other(s)] # <<>>
    /\ buffered' = [buffered EXCEPT ![s] = Head(ws[Other(s)])]
    /\ ws' = [ws EXCEPT ![Other(s)] = Tail(@)]
    /\ UNCHANGED <<status, up, down, peer, sent, taken, received>>

\* ... and returns as much of it as fits, which is written to the peer.
DownCopy(s, n) ==
    /\ status[s] = "copying" /\ down[s] = "run"
    /\ n <= Len(buffered[s])
    /\ peer[s] # "closed"
    /\ received' = [received EXCEPT ![s] = @ \o SubSeq(buffered[s], 1, n)]
    /\ buffered' = [buffered EXCEPT ![s] = SubSeq(@, n + 1, Len(@))]
    /\ UNCHANGED <<status, up, down, peer, sent, taken, ws>>

\* To a peer that has closed its connection the kernel accepts a Write, which
\* then is lost, or the Write fails.
DownLost(s) ==
    /\ status[s] = "copying" /\ down[s] = "run"
    /\ buffered[s] # <<>>
    /\ peer[s] = "closed"
    /\ buffered' = [buffered EXCEPT ![s] = <<>>]
    /\ down' \in {down, [down EXCEPT ![s] = "done"]}
    /\ UNCHANGED <<status, up, peer, sent, taken, ws, received>>

\* ReadMessage fails when the other side has closed the websocket, which may
\* discard messages that have not been read.
DownFail(s) ==
    /\ status[s] = "copying" /\ down[s] = "run"
    /\ buffered[s] = <<>>
    /\ WebsocketClosed(Other(s))
    /\ ws' = [ws EXCEPT ![Other(s)] = <<>>]
    /\ down' = [down EXCEPT ![s] = "done"]
    /\ UNCHANGED <<status, up, peer, sent, taken, buffered, received>>

\* wg.Wait returns, and the deferred functions close both connections.
End(s) ==
    /\ status[s] = "copying"
    /\ up[s] = "done" /\ down[s] = "done"
    /\ status' = [status EXCEPT ![s] = "ended"]
    /\ UNCHANGED <<up, down, peer, sent, taken, ws, buffered, received>>

-----------------------------------------------------------------------------
(* The peers *)

Connected(s) == status[s] = "copying" \/ (s = "frontend" /\ status[s] = "dialling")

PeerSend(s) ==
    /\ Connected(s)
    /\ peer[s] = "open"
    /\ sent[s] < MaxBytes
    /\ sent' = [sent EXCEPT ![s] = @ + 1]
    /\ UNCHANGED <<status, up, down, peer, taken, ws, buffered, received>>

PeerClose(s, how) ==
    /\ Connected(s)
    /\ \/ peer[s] = "open"
       \/ peer[s] = "half" /\ how = "closed"
    /\ peer' = [peer EXCEPT ![s] = how]
    /\ UNCHANGED <<status, up, down, sent, taken, ws, buffered, received>>

-----------------------------------------------------------------------------
SideStep(s) ==
    \/ \E n \in 1 .. MaxRead : UpCopy(s, n) \/ DownCopy(s, n)
    \/ UpFail(s) \/ UpReset(s) \/ UpEOF(s) \/ DownRead(s) \/ DownLost(s) \/ DownFail(s) \/ End(s)

Next ==
    \/ DialWebsocket \/ DialBackend
    \/ \E s \in Sides :
         DialFail(s) \/ SideStep(s) \/ PeerSend(s) \/ \E how \in {"half", "closed"} : PeerClose(s, how)

Spec == Init /\ [][Next]_vars

(***************************************************************************)
(* Fairness: both goroutines of a side go on when they can, and the side   *)
(* itself; dialling succeeds or fails.  A peer that has not closed its     *)
(* connection reads, also when it has ended its own data, so that a write  *)
(* to it ends.  Nothing is assumed of what the peers send and when.        *)
(***************************************************************************)
UpStep(s)   == UpFail(s) \/ UpReset(s) \/ UpEOF(s) \/ \E n \in 1 .. MaxRead : UpCopy(s, n)
DownStep(s) == DownRead(s) \/ DownLost(s) \/ DownFail(s) \/ \E n \in 1 .. MaxRead : DownCopy(s, n)

FairSpec ==
    /\ Spec
    /\ WF_vars(DialWebsocket \/ DialFail("frontend")) /\ WF_vars(DialBackend \/ DialFail("backend"))
    /\ \A s \in Sides : WF_vars(UpStep(s)) /\ WF_vars(DownStep(s)) /\ WF_vars(End(s))

-----------------------------------------------------------------------------
(* Properties *)

\* A peer reads what the other one sent, from the first byte on, each byte once
\* and in order, however the messages are cut up (connection.go:59-79).
StreamsIntact == \A s \in Sides : received[s] = Interval(1, Len(received[s]))

\* What a peer sends is received by the other one as long as neither closes
\* its connection, also after either has ended its own data: a goroutine that
\* is done does not end the other one (connection.go:132-142).
Delivered ==
    \A s \in Sides, n \in 1 .. MaxBytes :
      sent[s] >= n ~> \/ Len(received[Other(s)]) >= n
                      \/ "closed" \in {peer[s], peer[Other(s)]}
                      \/ "failed" \in {status[s], status[Other(s)]}

Over(s) == status[s] \in {"ended", "failed"}

\* When one side is over, so is the other one as soon as its peer ends its
\* data: its goroutines do not wait for the websocket for good
\* (connection.go:122 and tcp-bridge-frontend.go:80).
OtherSideFollows ==
    \A s \in Sides :
      Over(s) /\ peer[Other(s)] # "open" ~> Over(Other(s))
=============================================================================
