------------------------ MODULE WebsocketBridgeProof ------------------------
(***************************************************************************)
(* The websocket bridge of the stand-alone proxy, for any number of        *)
(* messages, pieces and lost calls and any capacity of writeChan: its      *)
(* variables keep their types, and both streams arrive in order.           *)
(***************************************************************************)
EXTENDS WebsocketBridge, SequenceTheorems, TLAPS

\* x holds consecutive numbers, the first of which is from.
Run(x, from) == \A j \in 1 .. Len(x) : x[j] = from + j - 1

\* x is how y begins.
Begins(x, y) == Len(x) <= Len(y) /\ \A j \in 1 .. Len(x) : x[j] = y[j]

\* What a poll brings: at least one message.
Batches == {x \in Seq(Nat) : x # <<>>}

\* The batches w follow each other: before the k-th come at[k] messages, got of
\* which before the first, and after the last there have been end.
Laid(w, at, got, end) ==
    /\ at[1] = got /\ at[Len(w) + 1] = end
    /\ \A k \in 1 .. Len(w) : at[k + 1] = at[k] + Len(w[k]) /\ Run(w[k], at[k] + 1)

Chain(w, got, end) == \E at \in [1 .. Len(w) + 1 -> 0 .. end] : Laid(w, at, got, end)

\* The variables that are not sequences.
Scalars ==
    /\ mpc \in {"opening", "accept", "loop", "data", "write", "closing", "done", "lost"}
    /\ cpc \in {"none", "read", "push", "done"}
    /\ kpc \in {"none", "poll", "wait", "push", "idle", "done", "lost"}
    /\ session \in {"none", "open", "ended", "gone"}
    /\ clientSent \in 0 .. MaxClient
    /\ serverSent \in 0 .. MaxServer
    /\ polled \in 0 .. serverSent
    /\ lost \in 0 .. MaxLost

Flags == clientOpen \in BOOLEAN

-----------------------------------------------------------------------------
(* The messages of the backend on their way to the client *)

ServerTypes ==
    /\ writeChan \in Seq(Batches) /\ Len(writeChan) <= ChanCap
    /\ batch \in Seq(Nat) /\ out \in Seq(Nat) /\ toClient \in Seq(Nat)

\* Where a goroutine holds messages.
ServerHeld ==
    /\ mpc = "write" => out # <<>>
    /\ mpc \in {"opening", "accept", "loop", "data"} => out = <<>>
    /\ kpc = "push" <=> batch # <<>>
    /\ mpc \in {"opening", "accept"} => kpc = "none"

\* What the client got, what is being written to it, what is in the channel and
\* what the poll goroutine holds are together the messages that polls took, in
\* order; unless a poll is lost, which is then the last one.
Relayed ==
    /\ Run(toClient, 1) /\ Run(out, Len(toClient) + 1)
    /\ \E end \in 0 .. polled :
         /\ Chain(writeChan, Len(toClient) + Len(out), end)
         /\ Run(batch, end + 1) /\ end + Len(batch) <= polled
         /\ kpc # "lost" => end + Len(batch) = polled

ServerInv == ServerTypes /\ ServerHeld /\ Relayed

-----------------------------------------------------------------------------
(* The messages of the client on their way to the backend *)

ClientTypes ==
    /\ pieces \in Seq(0 .. MaxPieces) /\ Len(pieces) <= clientSent
    /\ taken \in 0 .. Len(pieces)
    /\ fromClient \in Seq(1 .. Len(pieces))
    /\ toBackend \in Seq(1 .. taken)

\* Nothing is read before the websocket is accepted; then the reader is at most
\* one message ahead of the loop, which is the one in readChan.
ClientHeld ==
    /\ mpc \in {"opening", "accept"} => cpc = "none" /\ pieces = <<>> /\ fromClient = <<>> /\ toBackend = <<>>
    /\ mpc \in {"loop", "data", "write"} => taken = IF cpc = "push" THEN Len(pieces) - 1 ELSE Len(pieces)
    /\ mpc = "data" => taken > 0
    /\ cpc = "push" => taken < Len(pieces)

\* The pieces in readChan.
Waiting == IF cpc = "push" THEN Pieces(Len(pieces)) ELSE <<>>

\* What the backend got, the message that is being sent and the one in readChan
\* are together what was read from the client, in order; after the loop they
\* are how it begins.
Sent ==
    /\ Begins(toBackend, fromClient)
    /\ mpc \in {"loop", "write"} => fromClient = toBackend \o Waiting
    /\ mpc = "data" => fromClient = (toBackend \o Pieces(taken)) \o Waiting

ClientInv == ClientTypes /\ ClientHeld /\ Sent

IndInv == Scalars /\ Flags /\ ServerInv /\ ClientInv

-----------------------------------------------------------------------------
(* Runs and chains *)

\* A run without its head is a run.
LEMMA RunTail ==
  ASSUME NEW x \in Seq(Nat), x # <<>>, NEW from \in Nat, Run(x, from)
  PROVE /\ Head(x) = from /\ Tail(x) \in Seq(Nat)
        /\ Len(x) \in Nat \ {0} /\ Len(Tail(x)) = Len(x) - 1 /\ Run(Tail(x), from + 1)
<1>1. /\ Len(x) \in Nat \ {0} /\ Head(x) = x[1]
      /\ Tail(x) \in Seq(Nat) /\ Len(Tail(x)) = Len(x) - 1
      /\ \A k \in 1 .. Len(Tail(x)) : Tail(x)[k] = x[k + 1]
  BY HeadTailProperties, EmptySeq
<1> HIDE DEF Run
<1>2. Head(x) = from
  BY <1>1 DEF Run
<1> DEFINE t == Tail(x)
<1>3. Run(t, from + 1)
  <2>1. Len(t) = Len(x) - 1 /\ \A k \in 1 .. Len(t) : t[k] = x[k + 1]
    BY <1>1
  <2> HIDE DEF t
  <2> QED BY <1>1, <2>1 DEF Run
<1> QED BY <1>1, <1>2, <1>3

\* A run goes on with the number after its last one.
LEMMA RunAppend ==
  ASSUME NEW x \in Seq(Nat), NEW from \in Nat, Run(x, from)
  PROVE /\ Append(x, from + Len(x)) \in Seq(Nat)
        /\ Len(Append(x, from + Len(x))) = Len(x) + 1
        /\ Run(Append(x, from + Len(x)), from)
<1>1. Len(x) \in Nat
  BY LenProperties
<1> DEFINE n == from + Len(x)
           a == Append(x, n)
<1>2. n \in Nat
  BY <1>1
<1>3. /\ a \in Seq(Nat) /\ Len(a) = Len(x) + 1
      /\ \A k \in 1 .. Len(x) : a[k] = x[k]
      /\ a[Len(x) + 1] = n
  BY <1>2, AppendProperties
<1> HIDE DEF a
<1>4. ASSUME NEW j \in 1 .. Len(a) PROVE a[j] = from + j - 1
  <2>1. CASE j = Len(x) + 1
    BY <1>1, <1>3, <2>1
  <2>2. CASE j # Len(x) + 1
    <3>1. j \in 1 .. Len(x)
      BY <1>1, <1>3, <2>2
    <3> QED BY <1>3, <3>1 DEF Run
  <2> QED BY <2>1, <2>2
<1>5. Run(a, from)
  BY <1>4 DEF Run
<1> QED BY <1>3, <1>5 DEF a

\* A run lies between its ends.
LEMMA RunRange ==
  ASSUME NEW x \in Seq(Nat), NEW from \in Nat \ {0}, NEW top \in Nat, Run(x, from), from + Len(x) <= top + 1
  PROVE x \in Seq(1 .. top)
<1>1. Len(x) \in Nat /\ x \in [1 .. Len(x) -> Nat]
  BY LenProperties
<1>2. \A j \in 1 .. Len(x) : x[j] \in 1 .. top
  BY <1>1 DEF Run
<1>3. x \in [1 .. Len(x) -> 1 .. top]
  BY <1>1, <1>2
<1> QED BY <1>1, <1>3, SeqDef

\* Interval is the run between two numbers.
LEMMA IntervalRun ==
  ASSUME NEW a \in Nat, NEW b \in Nat, a < b
  PROVE /\ Interval(a + 1, b) \in Seq(Nat) /\ Len(Interval(a + 1, b)) = b - a
        /\ Interval(a + 1, b) # <<>> /\ Run(Interval(a + 1, b), a + 1)
<1> DEFINE x == Interval(a + 1, b)
<1>1. b - (a + 1) + 1 = b - a /\ b - a \in Nat \ {0}
  OBVIOUS
<1>2. x = [k \in 1 .. b - a |-> a + 1 + k - 1]
  BY <1>1 DEF Interval
<1>3. x \in Seq(Nat) /\ Len(x) = b - a
  BY <1>1, <1>2
<1>4. Run(x, a + 1)
  BY <1>2, <1>3 DEF Run
<1> HIDE DEF x
<1>5. x # <<>>
  BY <1>1, <1>3, EmptySeq
<1> QED BY <1>3, <1>4, <1>5 DEF x

\* Taking the first batch out of a chain.
LEMMA ChainTail ==
  ASSUME NEW w \in Seq(Batches), w # <<>>, NEW got \in Nat, NEW end \in Nat, Chain(w, got, end)
  PROVE /\ Head(w) \in Batches /\ Tail(w) \in Seq(Batches) /\ Len(Tail(w)) = Len(w) - 1
        /\ Run(Head(w), got + 1)
        /\ Chain(Tail(w), got + Len(Head(w)), end)
<1>1. /\ Len(w) \in Nat \ {0} /\ Head(w) = w[1] /\ Head(w) \in Batches
      /\ Tail(w) \in Seq(Batches) /\ Len(Tail(w)) = Len(w) - 1
      /\ \A k \in 1 .. Len(Tail(w)) : Tail(w)[k] = w[k + 1]
  BY HeadTailProperties, EmptySeq, ElementOfSeq
<1>2. PICK at \in [1 .. Len(w) + 1 -> 0 .. end] : Laid(w, at, got, end)
  BY DEF Chain
<1> DEFINE t == Tail(w)
           off == [k \in 1 .. Len(t) + 1 |-> at[k + 1]]
<1>3. Len(t) \in Nat /\ Len(t) + 1 = Len(w) /\ \A k \in 1 .. Len(t) : t[k] = w[k + 1]
  BY <1>1
<1>4. Run(Head(w), got + 1) /\ at[2] = got + Len(Head(w))
  <2>1. 1 \in 1 .. Len(w)
    BY <1>1
  <2>2. at[1 + 1] = at[1] + Len(w[1]) /\ Run(w[1], at[1] + 1) /\ at[1] = got
    BY <1>2, <2>1 DEF Laid
  <2> QED BY <1>1, <2>2
<1> HIDE DEF t
<1>5. off \in [1 .. Len(t) + 1 -> 0 .. end]
  BY <1>1, <1>3
<1>6. \A k \in 1 .. Len(t) + 1 : off[k] = at[k + 1]
  OBVIOUS
<1> HIDE DEF off
<1>7. Laid(t, off, got + Len(Head(w)), end)
  <2>1. 1 \in 1 .. Len(t) + 1 /\ Len(t) + 1 \in 1 .. Len(t) + 1
    BY <1>3
  <2>2. off[1] = got + Len(Head(w)) /\ off[Len(t) + 1] = end
    BY <1>2, <1>3, <1>4, <1>6, <2>1 DEF Laid
  <2>3. ASSUME NEW k \in 1 .. Len(t)
        PROVE off[k + 1] = off[k] + Len(t[k]) /\ Run(t[k], off[k] + 1)
    <3>1. k + 1 \in 1 .. Len(w) /\ k \in 1 .. Len(t) + 1 /\ k + 1 \in 1 .. Len(t) + 1
      BY <1>3
    <3>2. at[k + 1 + 1] = at[k + 1] + Len(w[k + 1]) /\ Run(w[k + 1], at[k + 1] + 1)
      BY <1>2, <3>1 DEF Laid
    <3> QED BY <1>3, <1>6, <3>1, <3>2
  <2> QED BY <2>2, <2>3 DEF Laid
<1>8. Chain(t, got + Len(Head(w)), end)
  BY <1>5, <1>7 DEF Chain
<1> QED BY <1>1, <1>4, <1>8 DEF t

\* Putting another batch behind a chain.
LEMMA ChainAppend ==
  ASSUME NEW w \in Seq(Batches), NEW got \in Nat, NEW end \in Nat, Chain(w, got, end),
         NEW x \in Batches, Run(x, end + 1)
  PROVE /\ Append(w, x) \in Seq(Batches) /\ Len(Append(w, x)) = Len(w) + 1
        /\ Chain(Append(w, x), got, end + Len(x))
<1>1. Len(w) \in Nat /\ Len(x) \in Nat
  BY LenProperties DEF Batches
<1> DEFINE a == Append(w, x)
           last == end + Len(x)
<1>2. /\ a \in Seq(Batches) /\ Len(a) = Len(w) + 1
      /\ \A k \in 1 .. Len(w) : a[k] = w[k]
      /\ a[Len(w) + 1] = x
  BY AppendProperties
<1>3. PICK at \in [1 .. Len(w) + 1 -> 0 .. end] : Laid(w, at, got, end)
  BY DEF Chain
<1> DEFINE off == [k \in 1 .. Len(a) + 1 |-> IF k = Len(w) + 2 THEN last ELSE at[k]]
<1> HIDE DEF a
<1>4. last \in Nat /\ end <= last
  BY <1>1
<1>5. off \in [1 .. Len(a) + 1 -> 0 .. last]
  <2>1. ASSUME NEW k \in 1 .. Len(a) + 1, k # Len(w) + 2 PROVE at[k] \in 0 .. last
    <3>1. at[k] \in 0 .. end
      BY <1>1, <1>2, <2>1
    <3> QED BY <1>4, <3>1
  <2>2. last \in 0 .. last
    BY <1>4
  <2> HIDE DEF last
  <2> QED BY <2>1, <2>2
<1>6. /\ \A k \in 1 .. Len(w) + 1 : off[k] = at[k]
      /\ off[Len(w) + 2] = last
  BY <1>1, <1>2
<1> HIDE DEF off
<1>7. Laid(a, off, got, last)
  <2>1. off[1] = got /\ off[Len(a) + 1] = last
    BY <1>1, <1>2, <1>3, <1>6 DEF Laid
  <2>2. ASSUME NEW k \in 1 .. Len(a)
        PROVE off[k + 1] = off[k] + Len(a[k]) /\ Run(a[k], off[k] + 1)
    <3>1. CASE k = Len(w) + 1
      <4>1. off[k] = end /\ a[k] = x /\ off[k + 1] = last
        BY <1>1, <1>2, <1>3, <1>6, <3>1 DEF Laid
      <4> QED BY <4>1
    <3>2. CASE k # Len(w) + 1
      <4>1. k \in 1 .. Len(w) /\ k \in 1 .. Len(w) + 1 /\ k + 1 \in 1 .. Len(w) + 1
        BY <1>1, <1>2, <3>2
      <4>2. at[k + 1] = at[k] + Len(w[k]) /\ Run(w[k], at[k] + 1)
        BY <1>3, <4>1 DEF Laid
      <4> QED BY <1>2, <1>6, <4>1, <4>2
    <3> QED BY <3>1, <3>2
  <2> QED BY <2>1, <2>2 DEF Laid
<1>8. Chain(a, got, last)
  BY <1>5, <1>7 DEF Chain
<1> QED BY <1>2, <1>8 DEF a

\* A chain does not end before it begins.
LEMMA ChainBounds ==
  ASSUME NEW w \in Seq(Batches), NEW got \in Nat, NEW end \in Nat, Chain(w, got, end)
  PROVE got <= end
<1>1. Len(w) \in Nat
  BY LenProperties
<1>2. PICK at \in [1 .. Len(w) + 1 -> 0 .. end] : Laid(w, at, got, end)
  BY DEF Chain
<1>3. at[1] \in 0 .. end
  BY <1>1, <1>2
<1> QED BY <1>2, <1>3 DEF Laid

-----------------------------------------------------------------------------
(* The variables that are not sequences *)

\* Every counter starts at zero.
LEMMA InitScalars == Init => Scalars /\ Flags
BY BoundsAssumption DEF Init, Scalars, Flags

\* No step takes a counter over its bound or a goroutine to a place it does not
\* have.
LEMMA NextScalars ==
  ASSUME Scalars, Flags, [Next]_vars
  PROVE Scalars' /\ Flags'
<1>1. CASE MainStep
  <2>1. Scalars'
    BY <1>1 DEF MainStep, OpenOK, OpenFail, Accept, AcceptFail, LoopRead, DataOK, DataRefused, DataBroken,
      LoopWrite, WriteClient, WriteFail, CloseDone, Scalars, clientVars, readVars, sessionVars
  <2>2. Flags'
    BY <1>1, Zenon DEF MainStep, OpenOK, OpenFail, Accept, AcceptFail, LoopRead, DataOK, DataRefused,
      DataBroken, LoopWrite, WriteClient, WriteFail, CloseDone, Flags, clientVars
  <2> QED BY <2>1, <2>2
<1>2. CASE ReaderStep \/ PollStep
  <2>1. Scalars'
    <3>1. CASE PollOK
      <4>1. polled' \in 0 .. serverSent'
        BY <3>1, BoundsAssumption DEF PollOK, Scalars
      <4> QED BY <3>1, <4>1 DEF PollOK, Scalars, clientVars
    <3>2. CASE ~PollOK
      BY <1>2, <3>2 DEF ReaderStep, ClientRead, ClientReadFail, PollStep, PollFind, PollPush, PollTimeout,
        PollRefused, Scalars, clientVars, readVars, sessionVars
    <3> QED BY <3>1, <3>2
  <2>2. Flags'
    BY <1>2, Zenon DEF ReaderStep, ClientRead, ClientReadFail, PollStep, PollFind, PollOK, PollPush,
      PollTimeout, PollRefused, Flags, clientVars
  <2> QED BY <2>1, <2>2
<1>3. CASE ClientSend \/ ClientLeave \/ BackendSend \/ BackendLeave \/ Expire
  <2>1. Scalars'
    BY <1>3, BoundsAssumption DEF ClientSend, ClientLeave, BackendSend, BackendLeave, Expire, Scalars,
      clientVars, readVars, sessionVars
  <2>2. Flags'
    BY <1>3, Zenon DEF ClientSend, ClientLeave, BackendSend, BackendLeave, Expire, Flags, clientVars
  <2> QED BY <2>1, <2>2
<1>4. ASSUME NEW done \in BOOLEAN, LoseCall(done) PROVE Scalars' /\ Flags'
  <2>1. /\ UNCHANGED <<cpc, clientOpen, clientSent, serverSent>>
        /\ lost' \in 0 .. MaxLost
    BY <1>4, BoundsAssumption DEF LoseCall, Scalars, clientVars
  <2>2. /\ mpc' \in {mpc, "lost"} /\ kpc' \in {kpc, "lost"}
        /\ polled' \in {polled, serverSent}
    BY <1>4, Zenon DEF LoseCall
  <2>3. session' \in {session, "open", "gone"}
    BY <1>4 DEF LoseCall
  <2>4. Scalars'
    BY <2>1, <2>2, <2>3 DEF Scalars
  <2>5. Flags'
    BY <2>1 DEF Flags
  <2> QED BY <2>4, <2>5
<1>5. CASE UNCHANGED vars
  BY <1>5 DEF vars, Scalars, Flags, clientVars, sessionVars
<1> QED BY <1>1, <1>2, <1>3, <1>4, <1>5 DEF Next

-----------------------------------------------------------------------------
(* From the backend to the client *)

\* Nothing has been sent to the client.
LEMMA InitServer == Init => ServerInv
<1> SUFFICES ASSUME Init PROVE ServerInv
  OBVIOUS
<1>1. <<>> \in Seq(Nat) /\ <<>> \in Seq(Batches) /\ Len(<<>>) = 0
  BY EmptySeq
<1>2. ServerTypes /\ ServerHeld
  BY <1>1, BoundsAssumption DEF Init, ServerTypes, ServerHeld
<1>3. \A from : Run(<<>>, from)
  BY <1>1 DEF Run
<1>4. Chain(<<>>, 0, 0)
  <2> DEFINE at == [k \in 1 .. Len(<<>>) + 1 |-> 0]
  <2>1. at \in [1 .. Len(<<>>) + 1 -> 0 .. 0]
    OBVIOUS
  <2>2. Laid(<<>>, at, 0, 0)
    BY <1>1 DEF Laid
  <2> QED BY <2>1, <2>2 DEF Chain
<1>5. Relayed
  <2>1. /\ toClient = <<>> /\ out = <<>> /\ batch = <<>> /\ writeChan = <<>> /\ polled = 0
        /\ Len(toClient) + Len(out) = 0 /\ 0 + Len(batch) = 0 /\ 0 \in 0 .. polled
    BY <1>1 DEF Init
  <2>2. /\ Chain(writeChan, Len(toClient) + Len(out), 0) /\ Run(batch, 0 + 1)
        /\ 0 + Len(batch) <= polled /\ 0 + Len(batch) = polled
    BY <1>3, <1>4, <2>1
  <2> QED BY <1>3, <2>1, <2>2 DEF Relayed
<1> QED BY <1>2, <1>5 DEF ServerInv

\* The answer to a poll arrives.
LEMMA PollOKInv ==
  ASSUME Scalars, ServerInv, PollOK
  PROVE ServerInv'
<1>1. /\ kpc = "wait" /\ polled < serverSent /\ kpc' = "push" /\ polled' = serverSent
      /\ batch' = Interval(polled + 1, serverSent)
      /\ UNCHANGED <<mpc, writeChan, out, toClient>>
  BY DEF PollOK
<1>2. polled \in Nat /\ serverSent \in Nat
  BY BoundsAssumption DEF Scalars
<1>3. /\ batch' \in Seq(Nat) /\ Len(batch') = serverSent - polled
      /\ batch' # <<>> /\ Run(batch', polled + 1)
  BY <1>1, <1>2, IntervalRun
<1>4. batch = <<>> /\ Len(batch) = 0
  BY <1>1, EmptySeq DEF ServerInv, ServerHeld
<1>5. PICK end \in 0 .. polled :
        /\ Chain(writeChan, Len(toClient) + Len(out), end)
        /\ Run(batch, end + 1) /\ end + Len(batch) <= polled
        /\ kpc # "lost" => end + Len(batch) = polled
  BY DEF ServerInv, Relayed
<1>6. end = polled
  BY <1>1, <1>2, <1>4, <1>5
<1>7. end \in 0 .. polled' /\ end + Len(batch') = polled' /\ end + Len(batch') <= polled'
  BY <1>1, <1>2, <1>3, <1>6
<1>8. Relayed'
  <2>1. Run(batch', end + 1) /\ Chain(writeChan', Len(toClient') + Len(out'), end)
    BY <1>1, <1>3, <1>5, <1>6
  <2>2. Run(toClient', 1) /\ Run(out', Len(toClient') + 1)
    BY <1>1 DEF ServerInv, Relayed
  <2> QED BY <1>7, <2>1, <2>2 DEF Relayed
<1> QED BY <1>1, <1>3, <1>8 DEF ServerInv, ServerTypes, ServerHeld

\* The batch goes into writeChan.
LEMMA PollPushInv ==
  ASSUME Scalars, ServerInv, PollPush
  PROVE ServerInv'
<1>1. /\ kpc = "push" /\ Len(writeChan) < ChanCap /\ kpc' = "poll"
      /\ writeChan' = Append(writeChan, batch) /\ batch' = <<>>
      /\ UNCHANGED <<mpc, out, toClient, polled>>
  BY DEF PollPush, sessionVars
<1>2. /\ batch \in Batches /\ writeChan \in Seq(Batches)
      /\ Len(toClient) \in Nat /\ Len(out) \in Nat /\ Len(batch) \in Nat /\ Len(writeChan) \in Nat
      /\ polled \in Nat
  BY <1>1, BoundsAssumption, LenProperties DEF Scalars, ServerInv, ServerTypes, ServerHeld, Batches
<1> DEFINE got == Len(toClient) + Len(out)
<1>3. got \in Nat
  BY <1>2
<1>4. PICK end \in 0 .. polled :
        /\ Chain(writeChan, got, end)
        /\ Run(batch, end + 1) /\ end + Len(batch) <= polled
        /\ kpc # "lost" => end + Len(batch) = polled
  BY DEF ServerInv, Relayed
<1> DEFINE got1 == got
           end1 == end + Len(batch)
<1>5. end \in Nat /\ end1 \in 0 .. polled /\ end1 = polled
  BY <1>1, <1>2, <1>4
<1> HIDE DEF got, end1
<1>6. /\ writeChan' \in Seq(Batches) /\ Len(writeChan') = Len(writeChan) + 1
      /\ Chain(writeChan', got, end1)
  BY <1>1, <1>2, <1>3, <1>4, <1>5, ChainAppend DEF end1
<1>7. batch' \in Seq(Nat) /\ Len(batch') = 0 /\ Run(batch', end1 + 1)
  BY <1>1, EmptySeq DEF Run
<1>8. end1 + Len(batch') = polled' /\ end1 \in 0 .. polled'
  BY <1>1, <1>2, <1>5, <1>7
<1>9. Chain(writeChan', Len(toClient') + Len(out'), end1)
  BY <1>1, <1>6 DEF got
<1>10. end1 + Len(batch') <= polled'
  BY <1>1, <1>2, <1>8
<1>11. Relayed'
  BY <1>1, <1>7, <1>8, <1>9, <1>10 DEF ServerInv, Relayed
<1>12. ServerTypes'
  <2>1. Len(writeChan') <= ChanCap
    BY <1>1, <1>2, <1>6, BoundsAssumption
  <2> QED BY <1>1, <1>6, <1>7, <2>1 DEF ServerInv, ServerTypes
<1>13. ServerHeld'
  BY <1>1 DEF ServerInv, ServerHeld
<1> QED BY <1>11, <1>12, <1>13 DEF ServerInv

\* The loop takes a batch out of writeChan.
LEMMA LoopWriteInv ==
  ASSUME Scalars, ServerInv, LoopWrite
  PROVE ServerInv'
<1>1. /\ mpc = "loop" /\ writeChan # <<>> /\ mpc' = "write"
      /\ out' = Head(writeChan) /\ writeChan' = Tail(writeChan)
      /\ UNCHANGED <<kpc, batch, toClient, polled>>
  BY DEF LoopWrite, sessionVars
<1>2. /\ out = <<>> /\ Len(out) = 0 /\ writeChan \in Seq(Batches)
      /\ Len(toClient) \in Nat /\ Len(writeChan) \in Nat /\ polled \in Nat
  BY <1>1, BoundsAssumption, LenProperties, EmptySeq DEF Scalars, ServerInv, ServerTypes, ServerHeld
<1>3. PICK end \in 0 .. polled :
        /\ Chain(writeChan, Len(toClient) + Len(out), end)
        /\ Run(batch, end + 1) /\ end + Len(batch) <= polled
        /\ kpc # "lost" => end + Len(batch) = polled
  BY DEF ServerInv, Relayed
<1>4. Chain(writeChan, Len(toClient), end) /\ end \in Nat
  <2>1. Len(toClient) + Len(out) = Len(toClient)
    BY <1>2
  <2> QED BY <1>2, <1>3, <2>1
<1>5. /\ out' \in Batches /\ writeChan' \in Seq(Batches) /\ Len(writeChan') = Len(writeChan) - 1
      /\ Run(out', Len(toClient) + 1)
      /\ Chain(writeChan', Len(toClient) + Len(out'), end)
  BY <1>1, <1>2, <1>4, ChainTail
<1>6. Relayed'
  BY <1>1, <1>3, <1>5 DEF ServerInv, Relayed
<1>7. ServerTypes'
  <2>1. Len(writeChan') <= ChanCap
    BY <1>2, <1>5, BoundsAssumption DEF ServerInv, ServerTypes
  <2> QED BY <1>1, <1>5, <2>1 DEF ServerInv, ServerTypes, Batches
<1>8. ServerHeld'
  BY <1>1, <1>5 DEF ServerInv, ServerHeld, Batches
<1> QED BY <1>6, <1>7, <1>8 DEF ServerInv

\* A message is written to the client.
LEMMA WriteClientInv ==
  ASSUME Scalars, ServerInv, WriteClient
  PROVE ServerInv'
<1>1. /\ mpc = "write" /\ toClient' = Append(toClient, Head(out)) /\ out' = Tail(out)
      /\ mpc' = IF Len(out) = 1 THEN "loop" ELSE "write"
      /\ UNCHANGED <<kpc, batch, writeChan, polled>>
  BY DEF WriteClient, sessionVars
<1>2. out # <<>> /\ out \in Seq(Nat) /\ toClient \in Seq(Nat) /\ Len(toClient) \in Nat
  BY <1>1, LenProperties DEF ServerInv, ServerTypes, ServerHeld
<1> DEFINE n == Len(toClient)
<1>3. n \in Nat /\ n + 1 \in Nat /\ Run(out, n + 1) /\ Run(toClient, 1)
  BY <1>2 DEF ServerInv, Relayed
<1> HIDE DEF n
<1>4. /\ Head(out) = n + 1 /\ out' \in Seq(Nat) /\ Len(out) \in Nat \ {0} /\ Len(out') = Len(out) - 1
      /\ Run(out', n + 1 + 1)
  BY <1>1, <1>2, <1>3, RunTail
<1>5. /\ toClient' \in Seq(Nat) /\ Len(toClient') = n + 1 /\ Run(toClient', 1)
  <2>1. Head(out) = 1 + n
    BY <1>3, <1>4
  <2> QED BY <1>1, <1>2, <1>3, <2>1, RunAppend DEF n
<1>6. Len(toClient') + Len(out') = Len(toClient) + Len(out)
  BY <1>3, <1>4, <1>5 DEF n
<1>7. Run(out', Len(toClient') + 1)
  BY <1>4, <1>5
<1>8. Relayed'
  BY <1>1, <1>5, <1>6, <1>7 DEF ServerInv, Relayed
<1>9. ServerTypes'
  BY <1>1, <1>4, <1>5 DEF ServerInv, ServerTypes
<1>10. mpc' = "write" => out' # <<>>
  BY <1>1, <1>4, EmptySeq
<1>11. mpc' \in {"opening", "accept", "loop", "data"} => out' = <<>>
  <2>1. Len(out) = 1 => out' = <<>>
    BY <1>4, EmptySeq
  <2> QED BY <1>1, <2>1
<1>12. ServerHeld'
  BY <1>1, <1>10, <1>11 DEF ServerInv, ServerHeld
<1> QED BY <1>8, <1>9, <1>12 DEF ServerInv

\* A call is lost; a lost poll may have taken messages along.
LEMMA LoseCallServer ==
  ASSUME Scalars, ServerInv, NEW done \in BOOLEAN, LoseCall(done)
  PROVE ServerInv'
<1>1. UNCHANGED <<writeChan, batch, out, toClient>>
  BY DEF LoseCall
<1>2. /\ mpc' = mpc \/ (mpc \in {"opening", "data", "closing"} /\ mpc' = "lost")
      /\ \/ UNCHANGED <<kpc, polled>>
         \/ kpc \in {"poll", "wait"} /\ kpc' = "lost" /\ polled' \in {polled, serverSent}
  BY Zenon DEF LoseCall
<1>3. ServerTypes' /\ ServerHeld'
  BY <1>1, <1>2 DEF ServerInv, ServerTypes, ServerHeld
<1>4. CASE UNCHANGED <<kpc, polled>>
  BY <1>1, <1>3, <1>4 DEF ServerInv, Relayed
<1>5. CASE kpc \in {"poll", "wait"} /\ kpc' = "lost" /\ polled' \in {polled, serverSent}
  <2>1. polled \in Nat /\ polled' \in Nat /\ polled <= polled' /\ Len(batch) \in Nat
    BY <1>5, BoundsAssumption, LenProperties DEF Scalars, ServerInv, ServerTypes
  <2>2. PICK end \in 0 .. polled :
          /\ Chain(writeChan, Len(toClient) + Len(out), end)
          /\ Run(batch, end + 1) /\ end + Len(batch) <= polled
    BY DEF ServerInv, Relayed
  <2>3. end \in 0 .. polled' /\ end + Len(batch) <= polled'
    BY <2>1, <2>2
  <2>4. Relayed'
    BY <1>1, <1>5, <2>2, <2>3 DEF ServerInv, Relayed
  <2> QED BY <1>3, <2>4 DEF ServerInv
<1> QED BY <1>2, <1>4, <1>5

\* Every step keeps the messages of the backend in order.
LEMMA NextServer ==
  ASSUME Scalars, ServerInv, [Next]_vars
  PROVE ServerInv'
<1>1. \/ PollOK \/ PollPush \/ LoopWrite \/ WriteClient
      \/ \E done \in BOOLEAN : LoseCall(done)
      \/ /\ UNCHANGED <<writeChan, batch, out, toClient, polled>>
         /\ mpc' = mpc \/ mpc' \in {"closing", "done"}
            \/ (mpc \in {"opening", "accept", "loop", "data"} /\ mpc' \in {"accept", "loop", "data"})
         /\ kpc' = kpc \/ (kpc \notin {"push", "lost"} /\ kpc' \in {"poll", "wait", "idle", "done"})
         /\ mpc' \in {"opening", "accept"} => mpc \in {"opening", "accept"} /\ kpc' = kpc
  BY DEF ServerInv, ServerHeld, Next, MainStep, OpenOK, OpenFail, Accept, AcceptFail, LoopRead, DataOK, DataRefused, DataBroken,
    WriteFail, CloseDone, ReaderStep, ClientRead, ClientReadFail, PollStep, PollFind, PollTimeout,
    PollRefused, ClientSend, ClientLeave, BackendSend, BackendLeave, Expire, vars, clientVars, readVars,
    sessionVars
<1>2. CASE /\ UNCHANGED <<writeChan, batch, out, toClient, polled>>
           /\ mpc' = mpc \/ mpc' \in {"closing", "done"}
              \/ (mpc \in {"opening", "accept", "loop", "data"} /\ mpc' \in {"accept", "loop", "data"})
           /\ kpc' = kpc \/ (kpc \notin {"push", "lost"} /\ kpc' \in {"poll", "wait", "idle", "done"})
           /\ mpc' \in {"opening", "accept"} => mpc \in {"opening", "accept"} /\ kpc' = kpc
  <2>1. ServerTypes' /\ ServerHeld'
    BY <1>2 DEF ServerInv, ServerTypes, ServerHeld
  <2>2. Relayed'
    BY <1>2 DEF ServerInv, Relayed
  <2> QED BY <2>1, <2>2 DEF ServerInv
<1> QED BY <1>1, <1>2, PollOKInv, PollPushInv, LoopWriteInv, WriteClientInv, LoseCallServer

-----------------------------------------------------------------------------
(* From the client to the backend *)

\* What is in a set of sequences is in the larger ones.
LEMMA SeqMono ==
  ASSUME NEW S, NEW T, S \subseteq T, NEW x \in Seq(S)
  PROVE x \in Seq(T)
<1>1. Len(x) \in Nat /\ x \in [1 .. Len(x) -> S]
  BY LenProperties
<1>2. x \in [1 .. Len(x) -> T]
  BY <1>1
<1> QED BY <1>1, <1>2, SeqDef

\* A sequence begins with its parts.
LEMMA BeginsConcat ==
  ASSUME NEW x \in Seq(Nat), NEW y \in Seq(Nat), NEW z \in Seq(Nat)
  PROVE /\ Begins(x, x) /\ Begins(x, x \o y)
        /\ Begins(x, y) => Begins(x, y \o z)
        /\ Begins(x, y) /\ Begins(y, z) => Begins(x, z)
<1>1. Len(x) \in Nat /\ Len(y) \in Nat /\ Len(z) \in Nat
  BY LenProperties
<1>2. /\ Len(x \o y) = Len(x) + Len(y)
      /\ \A i \in 1 .. Len(x) + Len(y) : (x \o y)[i] = IF i <= Len(x) THEN x[i] ELSE y[i - Len(x)]
  BY ConcatProperties
<1>3. /\ Len(y \o z) = Len(y) + Len(z)
      /\ \A i \in 1 .. Len(y) + Len(z) : (y \o z)[i] = IF i <= Len(y) THEN y[i] ELSE z[i - Len(y)]
  BY ConcatProperties
<1> DEFINE a == x \o y
           b == y \o z
<1> HIDE DEF a, b
<1>4. Begins(x, x) /\ Begins(x, a)
  BY <1>1, <1>2 DEF Begins, a
<1>5. ASSUME Begins(x, y) PROVE Begins(x, b)
  BY <1>1, <1>3, <1>5 DEF Begins, b
<1>6. ASSUME Begins(x, y), Begins(y, z) PROVE Begins(x, z)
  BY <1>1, <1>6 DEF Begins
<1> QED BY <1>4, <1>5, <1>6 DEF a, b

\* The pieces of a message.
LEMMA PiecesSeq ==
  ASSUME NEW n \in Nat \ {0}, NEW c \in Nat
  PROVE /\ [k \in 1 .. c |-> n] \in Seq(1 .. n) /\ [k \in 1 .. c |-> n] \in Seq(Nat)
        /\ Len([k \in 1 .. c |-> n]) = c
OBVIOUS

\* What the types give.
LEMMA ClientFacts ==
  ASSUME ClientTypes
  PROVE /\ Len(pieces) \in Nat /\ taken \in Nat /\ MaxPieces \in Nat
        /\ \A n \in 1 .. Len(pieces) :
             /\ pieces[n] \in 0 .. MaxPieces /\ pieces[n] \in Nat
             /\ Pieces(n) \in Seq(1 .. n) /\ Pieces(n) \in Seq(Nat)
        /\ fromClient \in Seq(Nat) /\ toBackend \in Seq(Nat)
<1>1. Len(pieces) \in Nat /\ taken \in Nat /\ MaxPieces \in Nat
  BY BoundsAssumption, LenProperties DEF ClientTypes
<1>2. ASSUME NEW n \in 1 .. Len(pieces)
      PROVE /\ pieces[n] \in 0 .. MaxPieces /\ pieces[n] \in Nat
            /\ Pieces(n) \in Seq(1 .. n) /\ Pieces(n) \in Seq(Nat)
  <2>1. pieces[n] \in 0 .. MaxPieces
    BY ElementOfSeq DEF ClientTypes
  <2>2. pieces[n] \in Nat /\ n \in Nat \ {0}
    BY <1>1, <2>1
  <2> QED BY <2>1, <2>2, PiecesSeq DEF Pieces
<1>3. fromClient \in Seq(Nat) /\ toBackend \in Seq(Nat)
  <2>1. 1 .. Len(pieces) \subseteq Nat /\ 1 .. taken \subseteq Nat
    BY <1>1
  <2> QED BY <2>1, SeqMono DEF ClientTypes
<1> QED BY <1>1, <1>2, <1>3

\* Nothing has been sent to the backend.
LEMMA InitClient == Init => ClientInv
<1> SUFFICES ASSUME Init PROVE ClientInv
  OBVIOUS
<1>1. /\ Len(<<>>) = 0 /\ <<>> \in Seq(0 .. MaxPieces) /\ \A n : <<>> \in Seq(1 .. n)
  BY EmptySeq
<1>2. ClientTypes
  BY <1>1 DEF Init, ClientTypes
<1>3. ClientHeld /\ Sent
  BY <1>1 DEF Init, ClientHeld, Sent, Begins
<1> QED BY <1>2, <1>3 DEF ClientInv

\* The two goroutines start.
LEMMA AcceptInv ==
  ASSUME ClientInv, Accept
  PROVE ClientInv'
<1>1. /\ mpc = "accept" /\ mpc' = "loop" /\ cpc' = "read"
      /\ UNCHANGED <<clientSent, pieces, fromClient, taken, toBackend>>
  BY DEF Accept, clientVars, readVars
<1>2. pieces = <<>> /\ fromClient = <<>> /\ toBackend = <<>> /\ Len(pieces) = 0 /\ taken = 0
  BY <1>1, EmptySeq DEF ClientInv, ClientTypes, ClientHeld
<1>3. ClientTypes' /\ ClientHeld'
  BY <1>1, <1>2 DEF ClientInv, ClientTypes, ClientHeld
<1>4. <<>> \in Seq(Nat) /\ <<>> \o <<>> = <<>>
  BY EmptySeq, ConcatEmptySeq
<1>5. Sent'
  BY <1>1, <1>2, <1>4 DEF ClientInv, Sent, Waiting
<1> QED BY <1>3, <1>5 DEF ClientInv

\* A message is read from the client.
LEMMA ClientReadInv ==
  ASSUME Scalars, ClientInv, NEW n \in 0 .. MaxPieces, ClientRead(n)
  PROVE ClientInv'
<1> DEFINE len == Len(pieces)
           new == [k \in 1 .. n |-> len + 1]
<1>1. /\ cpc = "read" /\ cpc' = "push" /\ Len(pieces) < clientSent
      /\ pieces' = Append(pieces, n) /\ fromClient' = fromClient \o new
      /\ UNCHANGED <<mpc, clientSent, taken, toBackend>>
  BY DEF ClientRead, clientVars
<1>2. /\ len \in Nat /\ taken \in Nat /\ n \in Nat /\ clientSent \in Nat
      /\ fromClient \in Seq(Nat) /\ toBackend \in Seq(Nat)
      /\ pieces \in Seq(0 .. MaxPieces)
  BY ClientFacts, BoundsAssumption DEF ClientInv, ClientTypes, Scalars
<1> HIDE DEF len
<1>3. /\ pieces' \in Seq(0 .. MaxPieces) /\ Len(pieces') = len + 1
      /\ \A k \in 1 .. len : pieces'[k] = pieces[k]
      /\ pieces'[len + 1] = n
  BY <1>1, <1>2, AppendProperties DEF len
<1>4. /\ new \in Seq(1 .. len + 1) /\ new \in Seq(Nat)
  <2>1. len + 1 \in Nat \ {0}
    BY <1>2
  <2> QED BY <1>2, <2>1, PiecesSeq
<1>5. Waiting' = new
  BY <1>1, <1>3 DEF Waiting, Pieces
<1> HIDE DEF new
<1>6. fromClient' \in Seq(1 .. len + 1)
  <2>1. 1 .. len \subseteq 1 .. len + 1
    BY <1>2
  <2>2. fromClient \in Seq(1 .. len + 1)
    BY <2>1, SeqMono DEF ClientInv, ClientTypes, len
  <2> QED BY <1>1, <1>4, <2>2, ConcatProperties
<1>7. ClientTypes'
  <2>1. len + 1 <= clientSent /\ taken \in 0 .. len + 1
    BY <1>1, <1>2 DEF ClientInv, ClientTypes, len
  <2> QED BY <1>1, <1>3, <1>6, <2>1 DEF ClientInv, ClientTypes
<1>8. ClientHeld'
  <2>1. mpc \notin {"opening", "accept"}
    BY <1>1 DEF ClientInv, ClientHeld
  <2>2. taken <= len
    BY <1>2 DEF ClientInv, ClientTypes, len
  <2>3. mpc \in {"loop", "data", "write"} => taken = len
    BY <1>1 DEF ClientInv, ClientHeld, len
  <2> QED BY <1>1, <1>2, <1>3, <2>1, <2>2, <2>3 DEF ClientInv, ClientHeld
<1>9. Sent'
  <2>1. Begins(toBackend', fromClient')
    BY <1>1, <1>2, <1>4, BeginsConcat DEF ClientInv, Sent
  <2>2. ASSUME mpc' \in {"loop", "write"} PROVE fromClient' = toBackend' \o Waiting'
    <3>1. fromClient = toBackend \o <<>>
      BY <1>1, <2>2 DEF ClientInv, Sent, Waiting
    <3>2. fromClient = toBackend
      BY <1>2, <3>1, ConcatEmptySeq
    <3> QED BY <1>1, <1>5, <3>2
  <2>3. ASSUME mpc' = "data" PROVE fromClient' = (toBackend' \o Pieces(taken)') \o Waiting'
    <3>1. taken \in 1 .. len
      BY <1>1, <1>2, <2>3 DEF ClientInv, ClientTypes, ClientHeld, len
    <3>2. Pieces(taken)' = Pieces(taken) /\ Pieces(taken) \in Seq(Nat)
      <4>1. pieces'[taken] = pieces[taken] /\ taken' = taken
        BY <1>1, <1>3, <3>1
      <4>2. Pieces(taken)' = Pieces(taken)
        BY <4>1 DEF Pieces
      <4> QED BY <3>1, <4>2, ClientFacts DEF ClientInv, len
    <3>3. fromClient = (toBackend \o Pieces(taken)) \o <<>>
      BY <1>1, <2>3 DEF ClientInv, Sent, Waiting
    <3>4. toBackend \o Pieces(taken) \in Seq(Nat)
      BY <1>2, <3>2, ConcatProperties
    <3>5. fromClient = toBackend \o Pieces(taken)
      BY <3>3, <3>4, ConcatEmptySeq
    <3> QED BY <1>1, <1>5, <3>2, <3>5
  <2> QED BY <2>1, <2>2, <2>3 DEF Sent
<1> QED BY <1>7, <1>8, <1>9 DEF ClientInv

\* The loop takes a message out of readChan.
LEMMA LoopReadInv ==
  ASSUME ClientInv, LoopRead
  PROVE ClientInv'
<1>1. /\ mpc = "loop" /\ cpc = "push" /\ mpc' = "data" /\ cpc' = "read" /\ taken' = Len(pieces)
      /\ UNCHANGED <<clientSent, pieces, fromClient, toBackend>>
  BY DEF LoopRead, clientVars, readVars
<1>2. /\ Len(pieces) \in Nat /\ taken = Len(pieces) - 1 /\ taken \in Nat
      /\ toBackend \in Seq(Nat) /\ Len(pieces) \in 1 .. Len(pieces) /\ Pieces(Len(pieces)) \in Seq(Nat)
  <2>1. Len(pieces) \in Nat /\ taken = Len(pieces) - 1 /\ taken \in Nat
    BY <1>1, ClientFacts DEF ClientInv, ClientHeld
  <2>2. Len(pieces) \in 1 .. Len(pieces)
    BY <2>1
  <2> QED BY <2>1, <2>2, ClientFacts DEF ClientInv
<1>3. toBackend \in Seq(1 .. Len(pieces))
  <2>1. 1 .. taken \subseteq 1 .. Len(pieces)
    BY <1>2
  <2> QED BY <2>1, SeqMono DEF ClientInv, ClientTypes
<1>4. ClientTypes'
  BY <1>1, <1>2, <1>3 DEF ClientInv, ClientTypes
<1>5. ClientHeld'
  BY <1>1, <1>2 DEF ClientInv, ClientHeld
<1>6. Sent'
  <2>1. fromClient = toBackend \o Pieces(Len(pieces))
    BY <1>1 DEF ClientInv, Sent, Waiting
  <2>2. Pieces(taken)' = Pieces(Len(pieces))
    BY <1>1 DEF Pieces
  <2>3. toBackend \o Pieces(Len(pieces)) \in Seq(Nat)
    BY <1>2, ConcatProperties
  <2>4. Waiting' = <<>>
    BY <1>1 DEF Waiting
  <2>5. fromClient = (toBackend \o Pieces(Len(pieces))) \o <<>>
    BY <2>1, <2>3, ConcatEmptySeq
  <2> QED BY <1>1, <2>2, <2>4, <2>5 DEF ClientInv, Sent
<1> QED BY <1>4, <1>5, <1>6 DEF ClientInv

\* Some of the pieces of the message being sent, from the first on, reach the
\* backend: all of them if the loop goes on.
LEMMA SentPieces ==
  ASSUME ClientInv, mpc = "data", NEW x,
         x = Pieces(taken) \/ \E k \in 1 .. MaxPieces : k < pieces[taken] /\ x = SubSeq(Pieces(taken), 1, k),
         toBackend' = toBackend \o x,
         UNCHANGED <<cpc, clientSent, pieces, fromClient, taken>>,
         mpc' \in {"loop", "closing", "lost"}, mpc' = "loop" => x = Pieces(taken)
  PROVE ClientInv'
<1>1. /\ taken \in 1 .. Len(pieces) /\ Len(pieces) \in Nat /\ pieces[taken] \in Nat
      /\ Pieces(taken) \in Seq(1 .. taken) /\ Pieces(taken) \in Seq(Nat)
      /\ toBackend \in Seq(Nat) /\ fromClient \in Seq(Nat) /\ toBackend \in Seq(1 .. taken)
  <2>1. taken \in 1 .. Len(pieces)
    BY ClientFacts DEF ClientInv, ClientTypes, ClientHeld
  <2> QED BY <2>1, ClientFacts DEF ClientInv, ClientTypes
<1>2. x \in Seq(1 .. taken) /\ x \in Seq(Nat) /\ Begins(x, Pieces(taken))
  <2>1. CASE x = Pieces(taken)
    BY <1>1, <2>1, BeginsConcat
  <2>2. CASE \E k \in 1 .. MaxPieces : k < pieces[taken] /\ x = SubSeq(Pieces(taken), 1, k)
    <3>1. PICK k \in 1 .. MaxPieces : k < pieces[taken] /\ x = SubSeq(Pieces(taken), 1, k)
      BY <2>2
    <3> DEFINE p == Pieces(taken)
    <3>2. p \in Seq(1 .. taken) /\ p \in Seq(Nat) /\ Len(p) = pieces[taken]
      BY <1>1 DEF Pieces
    <3> HIDE DEF p
    <3>3. k \in Nat /\ k \in 1 .. Len(p) + 1 /\ 1 \in 1 .. Len(p) + 1 /\ k - 1 + 1 = k /\ k <= Len(p)
      BY <1>1, <3>1, <3>2, BoundsAssumption
    <3>4. /\ SubSeq(p, 1, k) \in Seq(1 .. taken) /\ SubSeq(p, 1, k) \in Seq(Nat)
          /\ Len(SubSeq(p, 1, k)) = k
          /\ \A j \in 1 .. k : SubSeq(p, 1, k)[j] = p[j]
      <4>1. Len(p) \in Nat /\ 1 <= k /\ k + 1 - 1 = k
        BY <1>1, <3>2, <3>3
      <4>2. \A j \in 1 .. k : 1 + j - 1 = j /\ j \in 1 .. Len(p)
        BY <3>3, <4>1
      <4>3. SubSeq(p, 1, k) \in Seq(1 .. taken)
        <5>1. \A j \in 1 .. k : p[j] \in 1 .. taken
          BY <3>2, <4>2, ElementOfSeq
        <5> QED BY <3>3, <5>1, SubSeqProperties
      <4>4. /\ SubSeq(p, 1, k) \in Seq(Nat) /\ Len(SubSeq(p, 1, k)) = k
            /\ \A j \in 1 .. k : SubSeq(p, 1, k)[j] = p[j]
        BY <3>2, <3>3, <4>1, <4>2, SubSeqProperties
      <4> QED BY <4>3, <4>4
    <3>5. x = SubSeq(p, 1, k)
      BY <3>1 DEF p
    <3> QED BY <3>2, <3>3, <3>4, <3>5 DEF Begins, p
  <2> QED BY <2>1, <2>2
<1>3. toBackend' \in Seq(1 .. taken) /\ toBackend' \in Seq(Nat)
  BY <1>1, <1>2, ConcatProperties
<1>4. ClientTypes'
  BY <1>3 DEF ClientInv, ClientTypes
<1>5. ClientHeld'
  BY DEF ClientInv, ClientHeld
<1>6. Waiting' = Waiting /\ Waiting \in Seq(Nat)
  <2>1. Waiting' = Waiting
    BY DEF Waiting, Pieces
  <2>2. CASE cpc = "push"
    <3>1. Len(pieces) \in 1 .. Len(pieces)
      BY <1>1
    <3> QED BY <2>1, <2>2, <3>1, ClientFacts DEF ClientInv, Waiting
  <2>3. CASE cpc # "push"
    BY <2>1, <2>3, EmptySeq DEF Waiting
  <2> QED BY <2>2, <2>3
<1>7. Begins(toBackend', fromClient')
  <2> DEFINE all == toBackend \o Pieces(taken)
  <2>1. all \in Seq(Nat) /\ fromClient = all \o Waiting
    BY <1>1, ConcatProperties DEF ClientInv, Sent
  <2>2. Begins(toBackend', all)
    <3> DEFINE p == Pieces(taken)
               y == toBackend \o x
    <3>1. /\ Len(all) = Len(toBackend) + Len(p)
          /\ \A i \in 1 .. Len(toBackend) + Len(p) :
               all[i] = IF i <= Len(toBackend) THEN toBackend[i] ELSE p[i - Len(toBackend)]
      BY <1>1, ConcatProperties
    <3>2. /\ Len(y) = Len(toBackend) + Len(x)
          /\ \A i \in 1 .. Len(toBackend) + Len(x) :
               y[i] = IF i <= Len(toBackend) THEN toBackend[i] ELSE x[i - Len(toBackend)]
      BY <1>1, <1>2, ConcatProperties
    <3>3. Len(x) \in Nat /\ Len(p) \in Nat /\ Len(toBackend) \in Nat /\ Begins(x, p)
      BY <1>1, <1>2, LenProperties
    <3> HIDE DEF all, p, y
    <3>4. ASSUME NEW i \in 1 .. Len(y) PROVE y[i] = all[i]
      <4>1. CASE i <= Len(toBackend)
        <5>1. i \in 1 .. Len(toBackend) + Len(x) /\ i \in 1 .. Len(toBackend) + Len(p)
          BY <3>2, <3>3, <4>1
        <5> QED BY <3>1, <3>2, <4>1, <5>1
      <4>2. CASE i > Len(toBackend)
        <5> DEFINE j == i - Len(toBackend)
        <5>1. /\ i \in 1 .. Len(toBackend) + Len(x) /\ i \in 1 .. Len(toBackend) + Len(p)
              /\ j \in 1 .. Len(x) /\ ~(i <= Len(toBackend))
          BY <3>2, <3>3, <4>2 DEF Begins
        <5>2. y[i] = x[j] /\ all[i] = p[j]
          BY <3>1, <3>2, <5>1
        <5> HIDE DEF j
        <5> QED BY <3>3, <5>1, <5>2 DEF Begins
      <4> QED BY <3>2, <3>3, <4>1, <4>2
    <3>5. Len(y) <= Len(all)
      BY <3>1, <3>2, <3>3 DEF Begins
    <3>6. Begins(y, all)
      BY <3>4, <3>5 DEF Begins
    <3> QED BY <3>6 DEF y
  <2>3. Begins(all, all \o Waiting)
    BY <1>6, <2>1, BeginsConcat
  <2>4. Begins(toBackend', fromClient)
    <3> HIDE DEF all
    <3>1. Begins(all, fromClient)
      BY <2>1, <2>3
    <3> QED BY <1>1, <1>3, <2>1, <2>2, <3>1, BeginsConcat
  <2> QED BY <2>4
<1>8. ASSUME mpc' \in {"loop", "write"} PROVE fromClient' = toBackend' \o Waiting'
  <2>1. fromClient = (toBackend \o Pieces(taken)) \o Waiting
    BY DEF ClientInv, Sent
  <2> QED BY <1>6, <1>8, <2>1
<1>9. Sent'
  BY <1>7, <1>8 DEF Sent
<1> QED BY <1>4, <1>5, <1>9 DEF ClientInv

\* Every step keeps the messages of the client in order.
LEMMA NextClient ==
  ASSUME Scalars, ClientInv, [Next]_vars
  PROVE ClientInv'
<1>1. CASE Accept \/ LoopRead \/ \E n \in 0 .. MaxPieces : ClientRead(n)
  BY <1>1, AcceptInv, LoopReadInv, ClientReadInv
<1>2. CASE DataOK \/ \E k \in 1 .. MaxPieces : DataBroken(k)
  <2>1. CASE DataOK
    BY <2>1, SentPieces DEF DataOK, clientVars, readVars
  <2>2. ASSUME NEW k \in 1 .. MaxPieces, DataBroken(k) PROVE ClientInv'
    BY <2>2, SentPieces DEF DataBroken, clientVars, readVars
  <2> QED BY <1>2, <2>1, <2>2
<1>3. CASE /\ UNCHANGED <<pieces, fromClient, taken, toBackend>>
           /\ cpc' = cpc \/ (cpc = "read" /\ cpc' = "done")
           /\ clientSent' = clientSent \/ clientSent' = clientSent + 1
           /\ \/ mpc' = mpc \/ mpc' \in {"closing", "done", "lost"}
              \/ mpc \in {"opening", "accept"} /\ mpc' = "accept" /\ cpc' = cpc
              \/ mpc \in {"loop", "write"} /\ mpc' \in {"loop", "write"}
  <2>1. ClientTypes'
    <3>1. Len(pieces) <= clientSent'
      BY <1>3, ClientFacts, BoundsAssumption DEF ClientInv, ClientTypes, Scalars
    <3> QED BY <1>3, <3>1 DEF ClientInv, ClientTypes
  <2>2. ClientHeld'
    BY <1>3 DEF ClientInv, ClientHeld
  <2>3. Waiting' = Waiting /\ Pieces(taken)' = Pieces(taken)
    BY <1>3 DEF Waiting, Pieces
  <2>4. Sent'
    BY <1>3, <2>3 DEF ClientInv, Sent
  <2> QED BY <2>1, <2>2, <2>4 DEF ClientInv
<1>4. ASSUME NEW done \in BOOLEAN, LoseCall(done) PROVE ClientInv'
  <2>1. CASE mpc = "data" /\ mpc' = "lost" /\ toBackend' = toBackend \o Pieces(taken)
    BY <1>4, <2>1, SentPieces DEF LoseCall, clientVars, readVars
  <2>2. CASE toBackend' = toBackend
    BY <1>3, <1>4, <2>2 DEF LoseCall, clientVars, readVars
  <2> QED BY <1>4, <2>1, <2>2, Zenon DEF LoseCall
<1>5. CASE ~Accept /\ ~LoopRead /\ ~DataOK /\ ~(\E k \in 1 .. MaxPieces : DataBroken(k))
           /\ ~(\E n \in 0 .. MaxPieces : ClientRead(n)) /\ ~(\E done \in BOOLEAN : LoseCall(done))
  BY <1>3, <1>5 DEF Next, MainStep, OpenOK, OpenFail, AcceptFail, DataRefused, LoopWrite, WriteClient,
    WriteFail, CloseDone, ReaderStep, ClientReadFail, PollStep, PollFind, PollOK, PollPush, PollTimeout,
    PollRefused, ClientSend, ClientLeave, BackendSend, BackendLeave, Expire, vars, clientVars, readVars,
    sessionVars
<1> QED BY <1>1, <1>2, <1>4, <1>5

-----------------------------------------------------------------------------
(* The theorems *)

\* The initial states satisfy the invariant.
LEMMA InitInv == Init => IndInv
BY InitScalars, InitServer, InitClient DEF IndInv

\* Every step preserves it.
LEMMA NextInv == IndInv /\ [Next]_vars => IndInv'
BY NextScalars, NextServer, NextClient DEF IndInv

\* The messages that polls took bound what is on its way to the client.
LEMMA InvTypes == IndInv => TypeOK
<1> SUFFICES ASSUME IndInv PROVE TypeOK
  OBVIOUS
<1>1. /\ polled \in Nat /\ writeChan \in Seq(Batches)
      /\ Len(toClient) \in Nat /\ Len(out) \in Nat /\ Len(batch) \in Nat
      /\ toClient \in Seq(Nat) /\ out \in Seq(Nat) /\ batch \in Seq(Nat)
  BY BoundsAssumption, LenProperties DEF IndInv, Scalars, ServerInv, ServerTypes
<1>2. PICK end \in 0 .. polled :
        /\ Chain(writeChan, Len(toClient) + Len(out), end)
        /\ Run(batch, end + 1) /\ end + Len(batch) <= polled
  BY DEF IndInv, ServerInv, Relayed
<1>3. Len(toClient) + Len(out) <= end /\ end \in Nat
  <2>1. Len(toClient) + Len(out) \in Nat /\ end \in Nat
    BY <1>1, <1>2
  <2> QED BY <1>1, <1>2, <2>1, ChainBounds
<1>4. toClient \in Seq(1 .. polled)
  <2>1. 1 + Len(toClient) <= polled + 1
    BY <1>1, <1>2, <1>3
  <2> QED BY <1>1, <2>1, RunRange DEF IndInv, ServerInv, Relayed
<1>5. out \in Seq(1 .. polled)
  <2>1. Len(toClient) + 1 \in Nat \ {0} /\ (Len(toClient) + 1) + Len(out) <= polled + 1
    BY <1>1, <1>2, <1>3
  <2> QED BY <1>1, <2>1, RunRange DEF IndInv, ServerInv, Relayed
<1>6. batch \in Seq(1 .. polled)
  <2>1. end + 1 \in Nat \ {0} /\ (end + 1) + Len(batch) <= polled + 1
    BY <1>1, <1>2, <1>3
  <2> QED BY <1>1, <1>2, <2>1, RunRange
<1> QED BY <1>4, <1>5, <1>6 DEF IndInv, Scalars, Flags, ServerInv, ServerTypes, ClientInv, ClientTypes, TypeOK

\* Runs from 1 are intervals, and beginnings are prefixes.
LEMMA InvStreams == IndInv => StreamsInOrder
<1> SUFFICES ASSUME IndInv PROVE StreamsInOrder
  OBVIOUS
<1>1. toClient = Interval(1, Len(toClient))
  <2>1. toClient \in Seq(Nat) /\ Len(toClient) \in Nat /\ Run(toClient, 1)
    BY LenProperties DEF IndInv, ServerInv, ServerTypes, Relayed
  <2>2. toClient \in [1 .. Len(toClient) -> Nat]
    BY <2>1, LenProperties
  <2>3. Len(toClient) - 1 + 1 = Len(toClient)
    BY <2>1
  <2>4. Interval(1, Len(toClient)) = [k \in 1 .. Len(toClient) |-> 1 + k - 1]
    BY <2>3 DEF Interval
  <2>5. \A k \in 1 .. Len(toClient) : toClient[k] = 1 + k - 1
    BY <2>1 DEF Run
  <2> QED BY <2>2, <2>4, <2>5
<1>2. Len(toBackend) <= Len(fromClient) /\ toBackend = SubSeq(fromClient, 1, Len(toBackend))
  <2> DEFINE n == Len(toBackend)
             x == SubSeq(fromClient, 1, n)
  <2>1. toBackend \in Seq(Nat) /\ fromClient \in Seq(Nat) /\ Begins(toBackend, fromClient)
    BY ClientFacts DEF IndInv, ClientInv, Sent
  <2>2. n \in Nat /\ Len(fromClient) \in Nat /\ n <= Len(fromClient)
    BY <2>1, LenProperties DEF Begins
  <2> HIDE DEF n
  <2>3. \A j \in 1 .. n : fromClient[j] \in Nat
    BY <2>1, <2>2, ElementOfSeq
  <2>4. x \in Seq(Nat) /\ Len(x) = n /\ \A j \in 1 .. n : x[j] = fromClient[j]
    <3>1. (IF 1 <= n THEN n - 1 + 1 ELSE 0) = n /\ n - 1 + 1 = n /\ \A j \in 1 .. n : 1 + j - 1 = j
      BY <2>2
    <3> QED BY <2>2, <2>3, <3>1, SubSeqProperties
  <2> HIDE DEF x
  <2>5. \A j \in 1 .. n : x[j] = toBackend[j]
    BY <2>1, <2>4 DEF Begins, n
  <2>6. toBackend = x
    BY <2>1, <2>4, <2>5, SeqEqual DEF n
  <2> QED BY <2>2, <2>6 DEF n, x
<1> QED BY <1>1, <1>2 DEF StreamsInOrder

\* What the two streams are at every moment.
THEOREM Invariant == Spec => []IndInv
BY InitInv, NextInv, PTL DEF Spec

\* Every variable keeps its type: in particular writeChan never holds more than
\* its capacity, and neither stream holds a message that was not sent.
THEOREM TypeCorrect == Spec => []TypeOK
BY Invariant, InvTypes, PTL

\* Whichever goroutine is ahead and whichever call is lost, the client gets a
\* prefix of the backend's messages and the backend a prefix of the pieces of
\* the client's (server.go:419-440 and 467-539).
THEOREM InOrder == Spec => []StreamsInOrder
BY Invariant, InvStreams, PTL
=============================================================================
