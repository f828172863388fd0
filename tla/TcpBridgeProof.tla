--------------------------- MODULE TcpBridgeProof ---------------------------
(***************************************************************************)
(* The TCP bridge keeps both byte streams intact, for any number of bytes  *)
(* and any sizes of reads: however the bytes are cut into websocket        *)
(* messages and these into writes, a peer reads the numbers 1, 2, 3, ...   *)
(***************************************************************************)
EXTENDS TcpBridge, SequenceTheorems, TLAPS

\* x holds consecutive numbers, the first of which is from.
Run(x, from) == \A j \in 1 .. Len(x) : x[j] = from + j - 1

\* A message: io.Copy writes what a Read returned, which is not empty.
Messages == {x \in Seq(Nat) : Len(x) > 0 /\ Run(x, x[1])}

Types ==
    /\ status \in [Sides -> {"waiting", "dialling", "copying", "ended", "failed"}]
    /\ down \in [Sides -> {"run", "done"}]
    /\ peer \in [Sides -> {"open", "half", "closed"}]
    /\ taken \in [Sides -> Nat]
    /\ ws \in [Sides -> Seq(Messages)]
    /\ buffered \in [Sides -> Seq(Nat)]
    /\ received \in [Sides -> Seq(Nat)]

\* The backend hears of a client when the frontend has dialled it.
DialledInOrder == status["frontend"] = "dialling" => status["backend"] = "waiting"

\* Side s still copies to its peer, which still reads.
Flowing(s) == ~WebsocketClosed(s) /\ down[s] = "run" /\ peer[s] # "closed"

\* How many bytes side s has got out of the websocket.
Got(s) == Len(received[s]) + Len(buffered[s])

\* The messages m start after byte got, each follows the one before it, and the
\* last one ends with byte end.
Chain(m, got, end) ==
    /\ Len(m) = 0 => got = end
    /\ Len(m) > 0 => m[1][1] = got + 1 /\ m[Len(m)][1] + Len(m[Len(m)]) = end + 1
    /\ \A k \in 1 .. Len(m) - 1 : m[k + 1][1] = m[k][1] + Len(m[k])

\* While side s copies, what its peer has read, what is buffered and what is in
\* the websocket are together the bytes that the other side has read, in order.
NothingMissing ==
    \A s \in Sides : Flowing(s) =>
        /\ Run(buffered[s], Len(received[s]) + 1)
        /\ Chain(ws[Other(s)], Got(s), taken[Other(s)])

ReadInOrder == \A s \in Sides : Run(received[s], 1)

IndInv == Types /\ DialledInOrder /\ NothingMissing /\ ReadInOrder

-----------------------------------------------------------------------------
(* Runs and chains *)

\* Cutting a run leaves runs.
LEMMA CutRun ==
  ASSUME NEW x \in Seq(Nat), NEW from \in Nat, Run(x, from), NEW n \in 1 .. Len(x)
  PROVE /\ SubSeq(x, 1, n) \in Seq(Nat) /\ Len(SubSeq(x, 1, n)) = n /\ Run(SubSeq(x, 1, n), from)
        /\ SubSeq(x, n + 1, Len(x)) \in Seq(Nat) /\ Len(SubSeq(x, n + 1, Len(x))) = Len(x) - n
        /\ Run(SubSeq(x, n + 1, Len(x)), from + n)
<1>1. Len(x) \in Nat /\ \A i \in 1 .. Len(x) : x[i] \in Nat
  BY LenProperties
<1>2. /\ SubSeq(x, 1, n) \in Seq(Nat) /\ Len(SubSeq(x, 1, n)) = n
      /\ \A i \in 1 .. n : SubSeq(x, 1, n)[i] = x[i]
  BY <1>1, SubSeqProperties
<1>3. /\ SubSeq(x, n + 1, Len(x)) \in Seq(Nat) /\ Len(SubSeq(x, n + 1, Len(x))) = Len(x) - n
      /\ \A i \in 1 .. Len(x) - n : SubSeq(x, n + 1, Len(x))[i] = x[n + i]
  BY <1>1, SubSeqProperties
<1> QED BY <1>1, <1>2, <1>3 DEF Run

\* A run followed by a run that continues it is a run.
LEMMA JoinRun ==
  ASSUME NEW x \in Seq(Nat), NEW y \in Seq(Nat), NEW from \in Nat,
         Run(x, from), Run(y, from + Len(x))
  PROVE x \o y \in Seq(Nat) /\ Len(x \o y) = Len(x) + Len(y) /\ Run(x \o y, from)
<1>1. Len(x) \in Nat /\ Len(y) \in Nat
  BY LenProperties
<1>2. /\ x \o y \in Seq(Nat)
      /\ Len(x \o y) = Len(x) + Len(y)
      /\ \A i \in 1 .. Len(x) + Len(y) : (x \o y)[i] = IF i <= Len(x) THEN x[i] ELSE y[i - Len(x)]
  BY ConcatProperties
<1> QED BY <1>1, <1>2 DEF Run

\* Interval is the run between two numbers.
LEMMA IntervalRun ==
  ASSUME NEW a \in Nat \ {0}, NEW n \in Nat \ {0}
  PROVE /\ Interval(a, a + n - 1) \in Messages
        /\ Len(Interval(a, a + n - 1)) = n
        /\ Interval(a, a + n - 1)[1] = a
<1> DEFINE x == Interval(a, a + n - 1)
<1>1. x = [k \in 1 .. n |-> a + k - 1]
  BY DEF Interval
<1>2. x \in Seq(Nat) /\ Len(x) = n
  BY <1>1
<1>3. Run(x, a) /\ x[1] = a
  BY <1>1, <1>2 DEF Run
<1> QED BY <1>2, <1>3 DEF Messages

\* Reading the first message of a chain.
LEMMA ChainTail ==
  ASSUME NEW m \in Seq(Messages), m # <<>>, NEW got \in Nat, NEW end \in Nat, Chain(m, got, end)
  PROVE /\ Head(m) \in Messages /\ Tail(m) \in Seq(Messages)
        /\ Run(Head(m), got + 1)
        /\ Chain(Tail(m), got + Len(Head(m)), end)
<1>1. /\ Len(m) \in Nat \ {0} /\ Head(m) = m[1] /\ \A k \in 1 .. Len(m) : m[k] \in Messages
      /\ Tail(m) \in Seq(Messages) /\ Len(Tail(m)) = Len(m) - 1
      /\ \A k \in 1 .. Len(Tail(m)) : Tail(m)[k] = m[k + 1]
  BY HeadTailProperties, EmptySeq, ElementOfSeq
<1>2. \A k \in 1 .. Len(m) : Len(m[k]) \in Nat \ {0} /\ m[k][1] \in Nat /\ Run(m[k], m[k][1])
  <2>1. ASSUME NEW x \in Messages PROVE Len(x) \in Nat \ {0} /\ x[1] \in Nat /\ Run(x, x[1])
    BY LenProperties, ElementOfSeq DEF Messages
  <2> QED BY <1>1, <2>1
<1>3. m[1][1] = got + 1 /\ Run(Head(m), got + 1)
  BY <1>1, <1>2 DEF Chain
<1>4. Chain(Tail(m), got + Len(Head(m)), end)
  <2> DEFINE t == Tail(m)
             first == m[1]
  <2>1. Len(m) \in Nat /\ Len(t) = Len(m) - 1 /\ \A k \in 1 .. Len(t) : t[k] = m[k + 1]
    BY <1>1
  <2>2. Len(first) \in Nat /\ first[1] = got + 1 /\ Head(m) = first
    BY <1>1, <1>2, <1>3
  <2> HIDE DEF t, first
  <2>3. ASSUME Len(t) = 0 PROVE got + Len(first) = end
    <3>1. Len(m) = 1
      BY <2>1, <2>3
    <3>2. m[Len(m)][1] + Len(m[Len(m)]) = end + 1
      BY <1>1 DEF Chain
    <3>3. first[1] + Len(first) = end + 1
      BY <3>1, <3>2 DEF first
    <3> QED BY <2>2, <3>3
  <2>4. ASSUME Len(t) > 0
        PROVE t[1][1] = got + Len(first) + 1 /\ t[Len(t)][1] + Len(t[Len(t)]) = end + 1
    <3>1. 1 \in 1 .. Len(t) /\ Len(t) \in 1 .. Len(t) /\ Len(t) + 1 = Len(m)
      BY <1>1, <2>1, <2>4
    <3>2. t[1] = m[1 + 1] /\ t[Len(t)] = m[Len(m)]
      BY <2>1, <3>1
    <3>3. m[1 + 1][1] = m[1][1] + Len(m[1])
      BY <1>1, <3>1 DEF Chain
    <3>4. m[Len(m)][1] + Len(m[Len(m)]) = end + 1
      BY <1>1 DEF Chain
    <3>5. t[1][1] = first[1] + Len(first)
      BY <3>2, <3>3 DEF first
    <3>6. t[1][1] = got + Len(first) + 1
      BY <2>2, <3>5
    <3> QED BY <3>2, <3>4, <3>6
  <2>5. \A k \in 1 .. Len(t) - 1 : t[k + 1][1] = t[k][1] + Len(t[k])
    <3> SUFFICES ASSUME NEW k \in 1 .. Len(t) - 1 PROVE t[k + 1][1] = t[k][1] + Len(t[k])
      OBVIOUS
    <3>1. k + 1 \in 1 .. Len(m) - 1 /\ k \in 1 .. Len(t) /\ k + 1 \in 1 .. Len(t)
      BY <1>1, <2>1
    <3>2. t[k] = m[k + 1] /\ t[k + 1] = m[k + 1 + 1]
      BY <2>1, <3>1
    <3> QED BY <3>1, <3>2 DEF Chain
  <2>6. Chain(t, got + Len(first), end)
    BY <2>3, <2>4, <2>5 DEF Chain
  <2> QED BY <2>2, <2>6 DEF t
<1> QED BY <1>1, <1>3, <1>4

\* Writing another message.
LEMMA ChainAppend ==
  ASSUME NEW m \in Seq(Messages), NEW got \in Nat, NEW end \in Nat, Chain(m, got, end),
         NEW x \in Messages, x[1] = end + 1
  PROVE Append(m, x) \in Seq(Messages) /\ Chain(Append(m, x), got, end + Len(x))
<1>1. /\ Append(m, x) \in Seq(Messages)
      /\ Len(m) \in Nat /\ Len(Append(m, x)) = Len(m) + 1
      /\ \A k \in 1 .. Len(m) : Append(m, x)[k] = m[k]
      /\ Append(m, x)[Len(m) + 1] = x
  BY AppendProperties, LenProperties
<1>2. Len(x) \in Nat \ {0}
  BY LenProperties DEF Messages
<1>3. CASE Len(m) = 0
  BY <1>1, <1>2, <1>3 DEF Chain
<1>4. CASE Len(m) > 0
  <2> DEFINE a == Append(m, x)
  <2>1. /\ Len(a) = Len(m) + 1 /\ a[Len(m) + 1] = x
        /\ \A k \in 1 .. Len(m) : a[k] = m[k]
    BY <1>1
  <2> HIDE DEF a
  <2>2. a[1][1] = got + 1 /\ a[Len(a)][1] + Len(a[Len(a)]) = end + Len(x) + 1
    <3>1. m[1][1] = got + 1
      BY <1>4 DEF Chain
    <3>2. a[1] = m[1] /\ a[Len(a)] = x
      BY <1>1, <1>4, <2>1
    <3>3. x[1] + Len(x) = end + Len(x) + 1
      BY <1>2
    <3> QED BY <3>1, <3>2, <3>3
  <2>3. ASSUME NEW k \in 1 .. Len(m) PROVE a[k + 1][1] = a[k][1] + Len(a[k])
    <3>1. CASE k < Len(m)
      BY <1>1, <2>1, <3>1 DEF Chain
    <3>2. CASE k = Len(m)
      BY <1>1, <1>4, <2>1, <3>2 DEF Chain
    <3> QED BY <1>1, <3>1, <3>2
  <2>4. Chain(a, got, end + Len(x))
    BY <1>1, <2>1, <2>2, <2>3 DEF Chain
  <2> QED BY <1>1, <2>4 DEF a
<1> QED BY <1>1, <1>3, <1>4

-----------------------------------------------------------------------------
(* The invariant *)

\* Each side is the other one's other side.
LEMMA OtherSide ==
  /\ \A s \in Sides : Other(s) \in Sides /\ Other(s) # s /\ Other(Other(s)) = s
  /\ \A s, t \in Sides : s = t \/ s = Other(t)
BY DEF Sides, Other

\* The streams that reach the peer of s, on their way.
Stream(s) ==
    Flowing(s) => Run(buffered[s], Len(received[s]) + 1) /\ Chain(ws[Other(s)], Got(s), taken[Other(s)])

\* The initial state satisfies the invariant: nothing has been sent.
LEMMA InitInv == Init => IndInv
<1> SUFFICES ASSUME Init PROVE IndInv
  OBVIOUS
<1>1. <<>> \in Seq(Nat) /\ <<>> \in Seq(Messages) /\ Len(<<>>) = 0
  BY EmptySeq
<1>2. Types
  BY <1>1 DEF Init, Types
<1>3. DialledInOrder
  BY DEF Init, DialledInOrder, Sides
<1>4. ASSUME NEW s \in Sides PROVE Stream(s) /\ Run(received[s], 1)
  <2>1. Other(s) \in Sides
    BY OtherSide
  <2>2. /\ received[s] = <<>> /\ buffered[s] = <<>>
        /\ ws[Other(s)] = <<>> /\ taken[Other(s)] = 0
    BY <2>1 DEF Init
  <2> QED BY <1>1, <2>2 DEF Stream, Run, Chain, Got
<1> QED BY <1>2, <1>3, <1>4 DEF IndInv, NothingMissing, ReadInOrder, Stream

\* A side that does not copy, or has stopped copying, never starts again.
LEMMA StopsForGood ==
  ASSUME IndInv, [Next]_vars, NEW s \in Sides, Flowing(s)'
  PROVE Flowing(s)
<1>1. down[s] = "run"
  BY DEF Flowing, Next, SideStep, DialWebsocket, DialBackend, DialFail, UpCopy, UpFail, UpReset, UpEOF,
    DownRead, DownCopy, DownLost, DownFail, End, PeerSend, PeerClose, vars, IndInv, Types
<1>2. peer[s] # "closed"
  BY DEF Flowing, Next, SideStep, DialWebsocket, DialBackend, DialFail, UpCopy, UpFail, UpReset, UpEOF,
    DownRead, DownCopy, DownLost, DownFail, End, PeerSend, PeerClose, vars, IndInv, Types
<1>3. ~WebsocketClosed(s)
  BY DEF Flowing, WebsocketClosed, Next, SideStep, DialWebsocket, DialBackend, DialFail, UpCopy, UpFail,
    UpReset, UpEOF, DownRead, DownCopy, DownLost, DownFail, End, PeerSend, PeerClose, vars, IndInv,
    Types, DialledInOrder, Sides
<1> QED BY <1>1, <1>2, <1>3 DEF Flowing

\* Types and order of dialling, for the variables that do not hold bytes.
LEMMA ControlInv ==
  ASSUME IndInv, [Next]_vars
  PROVE /\ status' \in [Sides -> {"waiting", "dialling", "copying", "ended", "failed"}]
        /\ down' \in [Sides -> {"run", "done"}]
        /\ peer' \in [Sides -> {"open", "half", "closed"}]
        /\ DialledInOrder'
<1>1. down' \in [Sides -> {"run", "done"}] /\ peer' \in [Sides -> {"open", "half", "closed"}]
  <2>1. ASSUME NEW s \in Sides, DownLost(s) \/ DownFail(s)
        PROVE down' \in [Sides -> {"run", "done"}] /\ peer' = peer
    BY <2>1 DEF DownLost, DownFail, IndInv, Types
  <2>2. ASSUME NEW s \in Sides, NEW how \in {"half", "closed"}, PeerClose(s, how)
        PROVE down' = down /\ peer' \in [Sides -> {"open", "half", "closed"}]
    BY <2>2 DEF PeerClose, IndInv, Types
  <2>3. \/ down' = down /\ peer' = peer
        \/ \E s \in Sides : DownLost(s) \/ DownFail(s)
        \/ \E s \in Sides, how \in {"half", "closed"} : PeerClose(s, how)
    BY DEF Next, SideStep, DialWebsocket, DialBackend, DialFail, UpCopy, UpFail, UpReset, UpEOF,
      DownRead, DownCopy, End, PeerSend, vars
  <2> QED BY <2>1, <2>2, <2>3 DEF IndInv, Types
<1>2. CASE DialWebsocket
  BY <1>1, <1>2 DEF DialWebsocket, Sides, DialledInOrder
<1>3. CASE ~DialWebsocket
  BY <1>1, <1>3 DEF Next, SideStep, DialBackend, DialFail, UpCopy, UpFail, UpReset, UpEOF,
    DownRead, DownCopy, DownLost, DownFail, End, PeerSend, PeerClose, vars, IndInv, Types,
    DialledInOrder, Sides
<1> QED BY <1>2, <1>3

\* A step that moves no byte of the stream to s leaves it as it is.
LEMMA StreamKept ==
  ASSUME IndInv, [Next]_vars, NEW s \in Sides,
         received'[s] = received[s], buffered'[s] = buffered[s],
         ws'[Other(s)] = ws[Other(s)], taken'[Other(s)] = taken[Other(s)]
  PROVE Stream(s)'
BY StopsForGood DEF IndInv, NothingMissing, Stream, Got

\* What the parts of the invariant give for one side.
LEMMA SideFacts ==
  ASSUME IndInv, NEW s \in Sides
  PROVE /\ received[s] \in Seq(Nat) /\ buffered[s] \in Seq(Nat) /\ ws[Other(s)] \in Seq(Messages)
        /\ Len(received[s]) \in Nat /\ Len(buffered[s]) \in Nat
        /\ taken[Other(s)] \in Nat /\ Got(s) \in Nat
<1>1. Other(s) \in Sides
  BY OtherSide
<1>2. /\ received[s] \in Seq(Nat) /\ buffered[s] \in Seq(Nat) /\ ws[Other(s)] \in Seq(Messages)
      /\ taken[Other(s)] \in Nat
  BY <1>1 DEF IndInv, Types
<1>3. Len(received[s]) \in Nat /\ Len(buffered[s]) \in Nat
  BY <1>2, LenProperties
<1>4. Got(s) = Len(received[s]) + Len(buffered[s])
  BY DEF Got
<1>5. Got(s) \in Nat
  <2>1. \A a, b \in Nat : a + b \in Nat
    OBVIOUS
  <2> QED BY <1>3, <1>4, <2>1, Zenon
<1> QED BY <1>2, <1>3, <1>5

\* Bytes of the peer of s go into the websocket.
LEMMA UpCopyInv ==
  ASSUME IndInv, Next, NEW s \in Sides, NEW n \in 1 .. MaxRead, UpCopy(s, n)
  PROVE IndInv'
<1> DEFINE x == Interval(taken[s] + 1, taken[s] + n)
           r == Other(s)
<1>1. r \in Sides /\ r # s /\ Other(r) = s
  BY OtherSide
<1>2. taken[s] \in Nat /\ n \in Nat \ {0} /\ ws[s] \in Seq(Messages)
  BY BytesAssumption DEF IndInv, Types
<1>3. x \in Messages /\ Len(x) = n /\ x[1] = taken[s] + 1
  <2>1. PICK a \in Nat \ {0} : a = taken[s] + 1
    BY <1>2
  <2>2. x = Interval(a, a + n - 1)
    <3>1. taken[s] + n = a + n - 1
      BY <1>2, <2>1
    <3> QED BY <2>1, <3>1
  <2> QED BY <1>2, <2>1, <2>2, IntervalRun
<1> HIDE DEF x
<1>4. /\ UNCHANGED <<buffered, received>>
      /\ taken' = [taken EXCEPT ![s] = taken[s] + n]
      /\ ws' = IF WebsocketClosed(r) THEN ws ELSE [ws EXCEPT ![s] = Append(ws[s], x)]
  BY DEF UpCopy, x
<1>5. Append(ws[s], x) \in Seq(Messages)
  BY <1>2, <1>3, AppendProperties
<1>6. ws' \in [Sides -> Seq(Messages)] /\ taken' \in [Sides -> Nat]
  BY <1>2, <1>4, <1>5 DEF IndInv, Types
<1>7. Types' /\ DialledInOrder'
  BY <1>4, <1>6, ControlInv DEF IndInv, Types
<1>8. Stream(s)'
  <2>1. ws'[r] = ws[r] /\ taken'[r] = taken[r]
    BY <1>1, <1>4 DEF IndInv, Types
  <2> QED BY <1>4, <2>1, StreamKept
<1>9. Stream(r)'
  <2> SUFFICES ASSUME Flowing(r)'
               PROVE Run(buffered[r], Len(received[r]) + 1) /\ Chain(ws'[s], Got(r), taken'[s])
    BY <1>1, <1>4 DEF Stream, Got
  <2>1. Flowing(r)
    BY <1>1, StopsForGood
  <2>2. Run(buffered[r], Len(received[r]) + 1) /\ Chain(ws[s], Got(r), taken[s]) /\ Got(r) \in Nat
    BY <1>1, <2>1, SideFacts DEF IndInv, NothingMissing
  <2>3. ws'[s] = Append(ws[s], x) /\ taken'[s] = taken[s] + n
    BY <1>4, <2>1 DEF Flowing, IndInv, Types
  <2>4. Chain(Append(ws[s], x), Got(r), taken[s] + n)
    BY <1>2, <1>3, <2>2, ChainAppend
  <2> QED BY <2>2, <2>3, <2>4
<1>10. NothingMissing' /\ ReadInOrder'
  BY <1>4, <1>8, <1>9, OtherSide DEF NothingMissing, ReadInOrder, Stream, IndInv
<1> QED BY <1>7, <1>10 DEF IndInv

\* A message is read from the websocket.
LEMMA DownReadInv ==
  ASSUME IndInv, Next, NEW s \in Sides, DownRead(s)
  PROVE IndInv'
<1> DEFINE u == Other(s)
           m == ws[u]
<1>1. u \in Sides /\ u # s /\ Other(u) = s
  BY OtherSide
<1>2. /\ UNCHANGED <<received, taken>>
      /\ buffered' = [buffered EXCEPT ![s] = Head(m)]
      /\ ws' = [ws EXCEPT ![u] = Tail(m)]
      /\ buffered[s] = <<>> /\ m # <<>>
  BY DEF DownRead
<1>3. m \in Seq(Messages) /\ Head(m) \in Messages /\ Tail(m) \in Seq(Messages) /\ Head(m) \in Seq(Nat)
  BY <1>1, <1>2, HeadTailProperties DEF IndInv, Types, Messages
<1>4. buffered' \in [Sides -> Seq(Nat)] /\ ws' \in [Sides -> Seq(Messages)]
  BY <1>1, <1>2, <1>3 DEF IndInv, Types
<1>5. Types' /\ DialledInOrder'
  BY <1>2, <1>4, ControlInv DEF IndInv, Types
<1>6. Stream(u)'
  <2>1. buffered'[u] = buffered[u] /\ ws'[s] = ws[s]
    BY <1>1, <1>2 DEF IndInv, Types
  <2> QED BY <1>1, <1>2, <2>1, StreamKept
<1>7. Stream(s)'
  <2> SUFFICES ASSUME Flowing(s)'
               PROVE /\ Run(buffered'[s], Len(received[s]) + 1)
                     /\ Chain(ws'[u], Len(received[s]) + Len(buffered'[s]), taken[u])
    BY <1>2 DEF Stream, Got
  <2>1. Flowing(s)
    BY StopsForGood
  <2>2. Got(s) = Len(received[s]) /\ Len(received[s]) \in Nat /\ taken[u] \in Nat
    <3>1. Len(buffered[s]) = 0 /\ Len(received[s]) \in Nat /\ taken[u] \in Nat
      BY <1>2, SideFacts, EmptySeq
    <3>2. Got(s) = Len(received[s]) + Len(buffered[s])
      BY DEF Got
    <3> QED BY <3>1, <3>2
  <2>3. Chain(m, Len(received[s]), taken[u])
    BY <2>1, <2>2 DEF IndInv, NothingMissing
  <2>4. Run(Head(m), Len(received[s]) + 1) /\ Chain(Tail(m), Len(received[s]) + Len(Head(m)), taken[u])
    BY <1>2, <1>3, <2>2, <2>3, ChainTail
  <2>5. buffered'[s] = Head(m) /\ ws'[u] = Tail(m)
    BY <1>1, <1>2 DEF IndInv, Types
  <2> QED BY <2>4, <2>5
<1>8. NothingMissing' /\ ReadInOrder'
  BY <1>2, <1>6, <1>7, OtherSide DEF NothingMissing, ReadInOrder, Stream, IndInv
<1> QED BY <1>5, <1>8 DEF IndInv

\* Buffered bytes are written to the peer.
LEMMA DownCopyInv ==
  ASSUME IndInv, Next, NEW s \in Sides, NEW n \in 1 .. MaxRead, DownCopy(s, n)
  PROVE IndInv'
<1> DEFINE b == buffered[s]
           out == SubSeq(b, 1, n)
           rest == SubSeq(b, n + 1, Len(b))
           u == Other(s)
<1>1. u \in Sides /\ u # s /\ Other(u) = s
  BY OtherSide
<1>2. /\ received[s] \in Seq(Nat) /\ b \in Seq(Nat) /\ Len(received[s]) \in Nat /\ Len(b) \in Nat
      /\ n \in 1 .. Len(b)
  BY SideFacts, BytesAssumption DEF DownCopy
<1>3. Flowing(s)
  BY DEF DownCopy, Flowing, WebsocketClosed
<1>4. Run(b, Len(received[s]) + 1) /\ Chain(ws[u], Got(s), taken[u]) /\ Run(received[s], 1)
  BY <1>3 DEF IndInv, NothingMissing, ReadInOrder
<1>5. /\ out \in Seq(Nat) /\ Len(out) = n /\ Run(out, Len(received[s]) + 1)
      /\ rest \in Seq(Nat) /\ Len(rest) = Len(b) - n /\ Run(rest, Len(received[s]) + 1 + n)
  <2>1. Len(received[s]) + 1 \in Nat
    BY <1>2
  <2> HIDE DEF b
  <2> QED BY <1>2, <1>4, <2>1, CutRun
<1>6. /\ UNCHANGED <<taken, ws>>
      /\ received' = [received EXCEPT ![s] = received[s] \o out]
      /\ buffered' = [buffered EXCEPT ![s] = rest]
  BY DEF DownCopy
<1> HIDE DEF b, out, rest
<1>7. /\ received[s] \o out \in Seq(Nat) /\ Len(received[s] \o out) = Len(received[s]) + n
      /\ Run(received[s] \o out, 1)
  <2>1. Run(out, 1 + Len(received[s]))
    BY <1>2, <1>5 DEF Run
  <2> QED BY <1>2, <1>4, <1>5, <2>1, JoinRun
<1>8. Types' /\ DialledInOrder'
  BY <1>5, <1>6, <1>7, ControlInv DEF IndInv, Types
<1>9. /\ received'[s] = received[s] \o out /\ buffered'[s] = rest
      /\ received'[u] = received[u] /\ buffered'[u] = buffered[u]
  BY <1>1, <1>6 DEF IndInv, Types
<1>10. Stream(u)'
  BY <1>1, <1>6, <1>9, StreamKept
<1>11. Stream(s)'
  <2>1. Len(received'[s]) + 1 = Len(received[s]) + 1 + n /\ Got(s)' = Got(s)
    <3>1. Len(received'[s]) = Len(received[s]) + n /\ Len(buffered'[s]) = Len(b) - n
      BY <1>5, <1>7, <1>9
    <3>2. Got(s) = Len(received[s]) + Len(b) /\ Got(s)' = Len(received'[s]) + Len(buffered'[s])
      BY DEF Got, b
    <3> QED BY <1>2, <3>1, <3>2
  <2>2. Run(buffered'[s], Len(received'[s]) + 1)
    BY <1>5, <1>9, <2>1
  <2>3. Chain(ws'[u], Got(s)', taken'[u])
    BY <1>4, <1>6, <2>1
  <2> QED BY <2>2, <2>3 DEF Stream
<1>12. NothingMissing'
  BY <1>10, <1>11, OtherSide DEF NothingMissing, Stream
<1>13. ReadInOrder'
  BY <1>1, <1>7, <1>9, OtherSide DEF ReadInOrder, IndInv
<1> QED BY <1>8, <1>12, <1>13 DEF IndInv

\* What is lost is lost at the end of a stream: nothing follows it.
LEMMA LossInv ==
  ASSUME IndInv, Next, NEW s \in Sides, DownLost(s) \/ DownFail(s)
  PROVE IndInv'
<1>1. Other(s) \in Sides /\ Other(s) # s /\ Other(Other(s)) = s
  BY OtherSide
<1>2. <<>> \in Seq(Nat) /\ <<>> \in Seq(Messages)
  BY EmptySeq
<1>3. UNCHANGED <<received, taken>>
  BY DEF DownLost, DownFail
<1>4. /\ buffered' \in [Sides -> Seq(Nat)] /\ ws' \in [Sides -> Seq(Messages)]
      /\ buffered'[Other(s)] = buffered[Other(s)] /\ ws'[s] = ws[s]
  <2>1. CASE DownLost(s)
    BY <1>1, <1>2, <2>1 DEF DownLost, IndInv, Types
  <2>2. CASE DownFail(s)
    BY <1>1, <1>2, <2>2 DEF DownFail, IndInv, Types
  <2> QED BY <2>1, <2>2
<1>5. Types' /\ DialledInOrder'
  BY <1>3, <1>4, ControlInv DEF IndInv, Types
<1>6. ~Flowing(s)'
  BY DEF DownLost, DownFail, Flowing, IndInv, Types
<1>7. Stream(Other(s))'
  BY <1>1, <1>3, <1>4, StreamKept
<1>8. NothingMissing' /\ ReadInOrder'
  BY <1>3, <1>6, <1>7, OtherSide DEF NothingMissing, ReadInOrder, Stream, IndInv
<1> QED BY <1>5, <1>8 DEF IndInv

\* Every step preserves the invariant.
LEMMA NextInv == IndInv /\ [Next]_vars => IndInv'
<1> SUFFICES ASSUME IndInv, [Next]_vars PROVE IndInv'
  OBVIOUS
<1>1. ASSUME UNCHANGED <<taken, ws, buffered, received>> PROVE IndInv'
  <2>1. Types' /\ DialledInOrder'
    BY <1>1, ControlInv DEF IndInv, Types
  <2>2. NothingMissing' /\ ReadInOrder'
    BY <1>1, StreamKept DEF NothingMissing, ReadInOrder, Stream, IndInv
  <2> QED BY <2>1, <2>2 DEF IndInv
<1>2. CASE Next
  <2>1. ASSUME NEW s \in Sides,
               \/ DialFail(s) \/ UpFail(s) \/ UpReset(s) \/ UpEOF(s) \/ End(s) \/ PeerSend(s)
               \/ \E how \in {"half", "closed"} : PeerClose(s, how)
        PROVE IndInv'
    BY <1>1, <2>1 DEF DialFail, UpFail, UpReset, UpEOF, End, PeerSend, PeerClose
  <2>2. ASSUME DialWebsocket \/ DialBackend PROVE IndInv'
    BY <1>1, <2>2 DEF DialWebsocket, DialBackend
  <2> QED BY <1>2, <2>1, <2>2, UpCopyInv, DownReadInv, DownCopyInv, LossInv DEF Next, SideStep
<1>3. CASE UNCHANGED vars
  BY <1>1, <1>3 DEF vars
<1> QED BY <1>2, <1>3

-----------------------------------------------------------------------------
\* A peer reads what the other one sent, from the first byte on, each byte once
\* and in order: for all reads of any size, whatever of a message is buffered
\* (WebsocketNetConn.Read), and wherever either side stops.
THEOREM Intact == Spec => []StreamsIntact
<1>1. IndInv => StreamsIntact
  <2> SUFFICES ASSUME IndInv, NEW s \in Sides PROVE received[s] = Interval(1, Len(received[s]))
    BY DEF StreamsIntact
  <2> DEFINE n == Len(received[s])
  <2>1. n \in Nat /\ received[s] \in [1 .. n -> Nat]
    BY SideFacts, LenProperties
  <2>2. \A j \in 1 .. n : received[s][j] = 1 + j - 1
    BY DEF IndInv, ReadInOrder, Run
  <2>3. Interval(1, n) = [j \in 1 .. n |-> 1 + j - 1]
    BY <2>1 DEF Interval
  <2> HIDE DEF n
  <2> QED BY <2>1, <2>2, <2>3 DEF n
<1> QED BY <1>1, InitInv, NextInv, PTL DEF Spec
=============================================================================
