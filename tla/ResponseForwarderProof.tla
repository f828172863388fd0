----------------------- MODULE ResponseForwarderProof -----------------------
(***************************************************************************)
(* Sending one response to the proxy, for bodies, writes, replay buffers   *)
(* and numbers of retries of any size: what is acknowledged is the whole   *)
(* response unless an attempt left its reader behind, and a short response *)
(* is not given up while retries are left.                                 *)
(***************************************************************************)
EXTENDS ResponseForwarder, FiniteSetTheorems, SequenceTheorems, TLAPS

\* x holds consecutive numbers, the first of which is from.
Run(x, from) == \A j \in 1 .. Len(x) : x[j] = from + j - 1

\* No byte occurs twice in x; none is in both x and y; all were read.
Distinct(x)    == \A i, j \in 1 .. Len(x) : x[i] = x[j] => i = j
Disjoint(x, y) == \A i \in 1 .. Len(x), j \in 1 .. Len(y) : x[i] # y[j]
UpTo(x, n)     == \A i \in 1 .. Len(x) : x[i] <= n

\* How many bytes were read from the writer goroutine.
Taken == wired - offer

\* The handler and the writer goroutine: how much is written when, and why the
\* writer is done.
WriterInv ==
    /\ hpc = "header" => wpc = "resp"
    /\ wpc \in {"resp", "read"} => offer = 0 /\ ~ended
    /\ wpc = "resp" => wired = 0
    /\ offer <= wired
    /\ werr => wpc = "done"
    /\ wpc = "done" /\ ~werr => ended /\ offer = 0
    /\ \/ wired = 0 /\ body = 0 /\ ~ended
       \/ wired = body + 1 /\ ~ended
       \/ wired = body + 2 /\ ended
    /\ ended => hpc \notin {"header", "body"}
    /\ hpc \notin {"header", "body"} => body = size \/ cut \/ werr

\* The readers of the attempts, and how the post goroutine ends.
PostInv ==
    /\ \A a \in Attempts : a > attempt => rpc[a] = "none"
    /\ \A a \in Attempts : rpc[a] = "eof" => wpc = "done" /\ ~werr
    /\ acked => ppc # "calling" /\ rpc[attempt] = "eof"
    /\ ppc # "calling" /\ size + 2 < BufSize => acked \/ refused \/ attempt = WriteRetries

\* What a Read works with.
HeldTypes ==
    \A a \in Attempts :
        /\ rpc[a] \in {"read", "store"} => held[a][1] \in Seq(1 .. wired)
        /\ rpc[a] = "store" => held[a][2] \in Seq(1 .. wired)

\* Whatever readers there are, no byte is stored twice.
StoredOnce ==
    /\ Distinct(buf) /\ UpTo(buf, Taken)
    /\ \A a \in Attempts : rpc[a] = "store" =>
          /\ Distinct(held[a][2]) /\ UpTo(held[a][2], Taken) /\ Disjoint(buf, held[a][2])
          /\ \A b \in Attempts : rpc[b] = "store" /\ b # a => Disjoint(held[a][2], held[b][2])

\* While only the last attempt has a reader, what it has sent and what its Read
\* will return are the bytes read so far in order, and so is what is stored; it
\* is all of them until the buffer is full.
Replay ==
    left = 0 =>
      /\ \A a \in Attempts : a # attempt => rpc[a] \in {"none", "gone", "eof"}
      /\ Run(buf, 1) /\ Run(sent, 1)
      /\ rpc[attempt] # "store" /\ Len(buf) < BufSize => Len(buf) = Taken
      /\ rpc[attempt] = "idle" =>
           /\ Len(sent) + Len(buf) - readHead = Taken
           /\ readHead = Len(buf) \/ Len(sent) = readHead
      /\ rpc[attempt] = "read" =>
           /\ readHead = Len(buf)
           /\ Run(held[attempt][1], Len(sent) + 1)
           /\ Len(sent) + Len(held[attempt][1]) = Taken
      /\ rpc[attempt] = "store" =>
           /\ readHead = Len(buf)
           /\ Run(held[attempt][1], Len(sent) + 1)
           /\ Run(held[attempt][2], Len(sent) + Len(held[attempt][1]) + 1)
           /\ Len(sent) + Len(held[attempt][1]) + Len(held[attempt][2]) = Taken
           /\ Len(buf) < BufSize => Len(buf) = Len(sent) + Len(held[attempt][1])
      /\ rpc[attempt] = "eof" => Len(sent) = Taken

IndInv == TypeOK /\ WriterInv /\ PostInv /\ HeldTypes /\ StoredOnce /\ Replay

-----------------------------------------------------------------------------
(* Sequences of bytes *)

\* A sequence over a set is one over a larger set.
LEMMA WiderSeq ==
  ASSUME NEW S, NEW T, S \subseteq T, NEW x \in Seq(S)
  PROVE x \in Seq(T)
<1>1. Len(x) \in Nat /\ x \in [1 .. Len(x) -> S]
  BY LenProperties
<1>2. x \in [1 .. Len(x) -> T]
  BY <1>1
<1> QED BY <1>1, <1>2

\* A sequence of w different bytes at most is not longer than w.
LEMMA Pigeons ==
  ASSUME NEW w \in Nat, NEW x \in Seq(1 .. w), Distinct(x)
  PROVE Len(x) <= w
<1>1. Len(x) \in Nat /\ x \in [1 .. Len(x) -> 1 .. w]
  BY LenProperties
<1>2. \A n \in Nat : IsFiniteSet(1 .. n) /\ Cardinality(1 .. n) = n
  BY FS_Interval
<1>3. /\ IsFiniteSet(1 .. w) /\ Cardinality(1 .. w) = w
      /\ IsFiniteSet(1 .. Len(x)) /\ Cardinality(1 .. Len(x)) = Len(x)
  BY <1>1, <1>2
<1> SUFFICES ASSUME ~(Len(x) <= w) PROVE FALSE
  OBVIOUS
<1>4. Cardinality(1 .. w) < Cardinality(1 .. Len(x))
  BY <1>1, <1>3
<1>5. \E i, j \in 1 .. Len(x) : i # j /\ x[i] = x[j]
  BY <1>1, <1>3, <1>4, FS_PigeonHole
<1> QED BY <1>5 DEF Distinct

\* The first n elements.
LEMMA Prefix ==
  ASSUME NEW S, NEW x \in Seq(S), NEW n \in 0 .. Len(x)
  PROVE /\ SubSeq(x, 1, n) \in Seq(S) /\ Len(SubSeq(x, 1, n)) = n
        /\ \A i \in 1 .. n : SubSeq(x, 1, n)[i] = x[i]
<1>1. Len(x) \in Nat /\ \A i \in 1 .. Len(x) : x[i] \in S
  BY LenProperties
<1> QED BY <1>1, SubSeqProperties

\* The elements after the n-th.
LEMMA Suffix ==
  ASSUME NEW S, NEW x \in Seq(S), NEW n \in 0 .. Len(x)
  PROVE /\ SubSeq(x, n + 1, Len(x)) \in Seq(S) /\ Len(SubSeq(x, n + 1, Len(x))) = Len(x) - n
        /\ \A i \in 1 .. Len(x) - n : SubSeq(x, n + 1, Len(x))[i] = x[n + i]
<1>1. Len(x) \in Nat /\ \A i \in 1 .. Len(x) : x[i] \in S
  BY LenProperties
<1> QED BY <1>1, SubSeqProperties

\* A run followed by a run that continues it is a run.
LEMMA JoinRun ==
  ASSUME NEW S, NEW x \in Seq(S), NEW y \in Seq(S), NEW from \in Nat,
         Run(x, from), Run(y, from + Len(x))
  PROVE Run(x \o y, from)
<1>1. Len(x) \in Nat /\ Len(y) \in Nat
  BY LenProperties
<1>2. /\ Len(x \o y) = Len(x) + Len(y)
      /\ \A i \in 1 .. Len(x) + Len(y) : (x \o y)[i] = IF i <= Len(x) THEN x[i] ELSE y[i - Len(x)]
  BY ConcatProperties
<1> QED BY <1>1, <1>2 DEF Run

\* Interval is the run between two numbers.
LEMMA IntervalRun ==
  ASSUME NEW a \in Nat, NEW n \in Nat, NEW w \in Nat, a + n <= w
  PROVE /\ Interval(a + 1, a + n) \in Seq(1 .. w)
        /\ Len(Interval(a + 1, a + n)) = n
        /\ Run(Interval(a + 1, a + n), a + 1)
<1> DEFINE x == Interval(a + 1, a + n)
<1>0. (a + n) - (a + 1) + 1 = n
  OBVIOUS
<1>1. x = [k \in 1 .. n |-> (a + 1) + k - 1]
  BY <1>0 DEF Interval
<1>2. \A k \in 1 .. n : (a + 1) + k - 1 \in 1 .. w
  OBVIOUS
<1>3. x \in Seq(1 .. w) /\ Len(x) = n
  BY <1>1, <1>2
<1> QED BY <1>1, <1>3 DEF Run

\* Runs with the same length and beginning are the same.
LEMMA RunIsInterval ==
  ASSUME NEW w \in Nat, NEW x \in Seq(1 .. w), Run(x, 1), Len(x) = w
  PROVE x = Interval(1, w)
<1>1. x = [k \in 1 .. w |-> x[k]]
  BY LenProperties
<1>2. \A k \in 1 .. w : x[k] = 1 + k - 1
  BY DEF Run
<1>3. w - 1 + 1 = w
  OBVIOUS
<1>4. Interval(1, w) = [k \in 1 .. w |-> 1 + k - 1]
  BY <1>3 DEF Interval
<1> QED BY <1>1, <1>2, <1>4

\* Storing a part of other bytes repeats none.
LEMMA StoreDistinct ==
  ASSUME NEW S, NEW x \in Seq(S), NEW y \in Seq(S), Distinct(x), Distinct(y), Disjoint(x, y)
  PROVE /\ Distinct(x \o y)
        /\ \A n : UpTo(x, n) /\ UpTo(y, n) => UpTo(x \o y, n)
        /\ \A z \in Seq(S) : Disjoint(x, z) /\ Disjoint(y, z) => Disjoint(x \o y, z)
<1>1. Len(x) \in Nat /\ Len(y) \in Nat
  BY LenProperties
<1> DEFINE c == x \o y
<1>2. /\ Len(c) = Len(x) + Len(y)
      /\ \A i \in 1 .. Len(x) + Len(y) : c[i] = IF i <= Len(x) THEN x[i] ELSE y[i - Len(x)]
  BY ConcatProperties
<1> HIDE DEF c
<1>3. \A i \in 1 .. Len(c) : \/ i \in 1 .. Len(x) /\ c[i] = x[i]
                             \/ i - Len(x) \in 1 .. Len(y) /\ c[i] = y[i - Len(x)] /\ i > Len(x)
  BY <1>1, <1>2
<1>4. Distinct(c)
  <2> SUFFICES ASSUME NEW i \in 1 .. Len(c), NEW j \in 1 .. Len(c), c[i] = c[j] PROVE i = j
    BY DEF Distinct
  <2>1. CASE i \in 1 .. Len(x) /\ c[i] = x[i]
    BY <1>3, <2>1 DEF Distinct, Disjoint
  <2>2. CASE i - Len(x) \in 1 .. Len(y) /\ c[i] = y[i - Len(x)]
    <3>1. CASE j \in 1 .. Len(x) /\ c[j] = x[j]
      BY <2>2, <3>1 DEF Disjoint
    <3>2. CASE j - Len(x) \in 1 .. Len(y) /\ c[j] = y[j - Len(x)]
      <4>1. i - Len(x) = j - Len(x)
        BY <2>2, <3>2 DEF Distinct
      <4>2. i \in Int /\ j \in Int
        OBVIOUS
      <4> QED BY <1>1, <4>1, <4>2
    <3> QED BY <1>3, <3>1, <3>2
  <2> QED BY <1>3, <2>1, <2>2
<1>5. \A n : UpTo(x, n) /\ UpTo(y, n) => UpTo(c, n)
  BY <1>3 DEF UpTo
<1>6. \A z \in Seq(S) : Disjoint(x, z) /\ Disjoint(y, z) => Disjoint(c, z)
  BY <1>3 DEF Disjoint
<1> QED BY <1>4, <1>5, <1>6 DEF c

-----------------------------------------------------------------------------
(* The handler and the writer goroutine *)

ReaderStates == {"none", "idle", "read", "store", "eof", "gone"}

\* The parts of the type invariant.
ScalarTypes ==
    /\ size \in 0 .. MaxBody /\ body \in 0 .. size
    /\ hpc \in {"header", "body", "posting", "writing", "ok", "failed"}
    /\ wpc \in {"resp", "read", "write", "done"}
    /\ wired \in 0 .. size + 2 /\ offer \in 0 .. MaxWrite + 1
    /\ ppc \in {"calling", "returned", "done"}
    /\ attempt \in Attempts /\ left \in 0 .. MaxLeft
    /\ rpc \in [Attempts -> ReaderStates] /\ DOMAIN held = Attempts

Flags ==
    /\ cut \in BOOLEAN /\ ended \in BOOLEAN /\ werr \in BOOLEAN
    /\ perr \in BOOLEAN /\ acked \in BOOLEAN /\ refused \in BOOLEAN

BufferTypes ==
    /\ buf \in Seq(1 .. wired) /\ Len(buf) <= BufSize
    /\ readHead \in 0 .. Len(buf)
    /\ sent \in Seq(1 .. wired)

LEMMA TypeParts == TypeOK <=> ScalarTypes /\ Flags /\ BufferTypes
BY DEF TypeOK, ScalarTypes, Flags, BufferTypes, ReaderStates

\* What the invariant says, in its parts.
LEMMA Parts ==
  ASSUME IndInv
  PROVE /\ ScalarTypes /\ Flags /\ BufferTypes /\ WriterInv /\ PostInv /\ HeldTypes /\ StoredOnce /\ Replay
        /\ wired \in Nat /\ offer \in Nat /\ Taken \in Nat /\ size \in Nat /\ body \in Nat
        /\ Len(buf) \in Nat /\ Len(sent) \in Nat /\ readHead \in Nat
        /\ MaxBody \in Nat /\ MaxWrite \in Nat \ {0} /\ BufSize \in Nat \ {0} /\ WriteRetries \in Nat
        /\ MaxLeft \in Nat
<1>1. ScalarTypes /\ Flags /\ BufferTypes /\ WriterInv /\ PostInv /\ HeldTypes /\ StoredOnce /\ Replay
  BY TypeParts DEF IndInv
<1>2. /\ MaxBody \in Nat /\ MaxWrite \in Nat \ {0} /\ BufSize \in Nat \ {0} /\ WriteRetries \in Nat
      /\ MaxLeft \in Nat
  BY SizesAssumption
<1>3. wired \in Nat /\ offer \in Nat /\ size \in Nat /\ body \in Nat
  BY <1>1, <1>2 DEF ScalarTypes
<1>4. Taken \in Nat
  BY <1>1, <1>3 DEF Taken, WriterInv
<1>5. Len(buf) \in Nat /\ Len(sent) \in Nat /\ readHead \in Nat
  <2>1. Len(buf) \in Nat /\ Len(sent) \in Nat
    BY <1>1, LenProperties DEF BufferTypes
  <2> QED BY <1>1, <2>1 DEF BufferTypes
<1> QED BY <1>1, <1>2, <1>3, <1>4, <1>5

\* Steps that add to the wire format, or nothing, leave alone what was read.
LEMMA ReadUnchanged ==
  ASSUME IndInv, UNCHANGED <<left, attempt, rpc, held, sent, buf, readHead>>,
         Taken' = Taken, wired' \in Nat, wired <= wired'
  PROVE BufferTypes' /\ HeldTypes' /\ StoredOnce' /\ Replay'
<1>1. BufferTypes /\ HeldTypes /\ StoredOnce /\ Replay /\ wired \in Nat
  BY Parts
<1>2. 1 .. wired \subseteq 1 .. wired'
  BY <1>1
<1>3. \A x \in Seq(1 .. wired) : x \in Seq(1 .. wired')
  BY <1>2, WiderSeq
<1>4. BufferTypes' /\ HeldTypes'
  BY <1>1, <1>3 DEF BufferTypes, HeldTypes
<1>5. StoredOnce' /\ Replay'
  BY <1>1 DEF StoredOnce, Replay
<1> QED BY <1>4, <1>5

LEMMA HandlerKept ==
  ASSUME IndInv, HandlerStep \/ WriterStep
  PROVE IndInv'
<1>1. /\ ScalarTypes /\ Flags /\ WriterInv /\ PostInv
      /\ wired \in Nat /\ offer \in Nat /\ size \in Nat /\ body \in Nat
      /\ MaxBody \in Nat /\ MaxWrite \in Nat \ {0}
  BY Parts
<1>2. ASSUME UNCHANGED <<size, postVars, bufVars, readVars>>, wired' \in Nat, wired <= wired', Taken' = Taken,
             hpc' \in {"header", "body", "posting", "writing", "ok", "failed"},
             wpc' \in {"resp", "read", "write", "done"}, body' \in 0 .. size,
             offer' \in 0 .. MaxWrite + 1, cut' \in BOOLEAN, ended' \in BOOLEAN, werr' \in BOOLEAN,
             WriterInv', wpc = "done" => wpc' = "done" /\ werr' = werr
      PROVE IndInv'
  <2>1. UNCHANGED <<size, ppc, attempt, perr, acked, refused, left, buf, readHead, rpc, held, sent>>
    BY <1>2 DEF postVars, bufVars, readVars
  <2>2. BufferTypes' /\ HeldTypes' /\ StoredOnce' /\ Replay'
    BY <1>2, <2>1, ReadUnchanged
  <2>3. wired' \in 0 .. size + 2
    <3>1. wired' = 0 \/ wired' = body' + 1 \/ wired' = body' + 2
      BY <1>2 DEF WriterInv
    <3>2. wired' \in Nat /\ body' \in Nat /\ body' <= size /\ size \in Nat
      BY <1>1, <1>2
    <3>3. \A b \in Nat : b <= size => 0 <= size + 2 /\ b + 1 <= size + 2 /\ b + 2 <= size + 2
      BY <3>2
    <3>4. wired' <= size + 2
      BY <3>1, <3>2, <3>3
    <3> QED BY <3>2, <3>4
  <2>4. ScalarTypes'
    BY <1>1, <1>2, <2>1, <2>3 DEF ScalarTypes
  <2>5. Flags'
    BY <1>1, <1>2, <2>1 DEF Flags
  <2>6. PostInv'
    BY <1>1, <1>2, <2>1 DEF PostInv
  <2>7. (TypeOK <=> ScalarTypes /\ Flags /\ BufferTypes)'
    BY TypeParts, PTL
  <2> QED BY <1>2, <2>2, <2>4, <2>5, <2>6, <2>7 DEF IndInv
<1>3. cut \in BOOLEAN /\ ended \in BOOLEAN /\ werr \in BOOLEAN
  BY <1>1 DEF Flags
<1>4. CASE WriteHeader
  <2>1. WriterInv'
    BY <1>1, <1>4 DEF WriterInv, WriteHeader
  <2> QED BY <1>1, <1>2, <1>3, <1>4, <2>1 DEF WriteHeader, ScalarTypes, Taken
<1>5. CASE \E n \in 1 .. MaxWrite : Write(n)
  <2>1. PICK n \in 1 .. MaxWrite : Write(n)
    BY <1>5
  <2>2. /\ hpc = "body" /\ wpc = "read" /\ body + n <= size /\ body' = body + n
        /\ offer' = (IF wired = 0 THEN n + 1 ELSE n) /\ wired' = wired + offer' /\ wpc' = "write"
        /\ UNCHANGED <<size, cut, hpc, ended, werr, postVars, bufVars, readVars>>
    BY <2>1 DEF Write, Wire
  <2>3. offer = 0 /\ ~ended /\ ~werr
    BY <1>1, <2>2 DEF WriterInv
  <2>4. WriterInv'
    BY <1>1, <2>2, <2>3 DEF WriterInv
  <2>5. Taken' = Taken /\ offer' \in 0 .. MaxWrite + 1 /\ wired' \in Nat /\ wired <= wired' /\ body' \in 0 .. size
    BY <1>1, <2>2, <2>3 DEF Taken
  <2> QED BY <1>1, <1>2, <1>3, <2>2, <2>4, <2>5 DEF ScalarTypes
<1>6. CASE Close
  <2>1. WriterInv' /\ cut' \in BOOLEAN
    <3>1. hpc = "body" /\ hpc' = "posting" /\ cut' = (body # size /\ ~werr) /\ UNCHANGED <<size, body, writerVars>>
      BY <1>6 DEF Close
    <3>2. cut' \in BOOLEAN
      BY <3>1
    <3>3. body = size \/ cut' \/ werr
      BY <3>1
    <3> QED BY <1>1, <3>1, <3>2, <3>3 DEF WriterInv, writerVars
  <2> QED BY <1>1, <1>2, <1>3, <1>6, <2>1 DEF Close, ScalarTypes, Taken, writerVars
<1>7. CASE ClosePosted \/ CloseWritten
  <2>1. WriterInv'
    BY <1>1, <1>7 DEF WriterInv, ClosePosted, CloseWritten, writerVars
  <2> QED BY <1>1, <1>2, <1>3, <1>7, <2>1 DEF ClosePosted, CloseWritten, ScalarTypes, Taken, writerVars
<1>8. CASE WriterEOF
  <2>2. /\ wpc = "read" /\ hpc \notin {"header", "body"} /\ ended' = TRUE
        /\ offer' = (IF wired = 0 THEN 1 + 1 ELSE 1) /\ wired' = wired + offer' /\ wpc' = "write"
        /\ UNCHANGED <<size, body, cut, hpc, werr, postVars, bufVars, readVars>>
    BY <1>8 DEF WriterEOF, Wire
  <2>3. offer = 0 /\ ~ended /\ ~werr
    BY <1>1, <2>2 DEF WriterInv
  <2>4. WriterInv'
    BY <1>1, <2>2, <2>3 DEF WriterInv
  <2>5. Taken' = Taken /\ offer' \in 0 .. MaxWrite + 1 /\ wired' \in Nat /\ wired <= wired' /\ body' \in 0 .. size
    BY <1>1, <2>2, <2>3 DEF Taken, ScalarTypes
  <2>6. ended' \in BOOLEAN
    BY <2>2
  <2> QED BY <1>1, <1>2, <1>3, <2>2, <2>4, <2>5, <2>6 DEF ScalarTypes
<1>9. CASE WriterFail
  <2>1. WriterInv'
    BY <1>1, <1>9 DEF WriterInv, WriterFail
  <2>2. werr' \in BOOLEAN
    BY <1>9 DEF WriterFail
  <2> QED BY <1>1, <1>2, <1>3, <1>9, <2>1, <2>2 DEF WriterFail, ScalarTypes, Taken
<1> QED BY <1>4, <1>5, <1>6, <1>7, <1>8, <1>9 DEF HandlerStep, WriterStep

-----------------------------------------------------------------------------
(* The readers *)

\* What a step of reader a leaves alone.
LEMMA ReaderFrame ==
  ASSUME IndInv, NEW a \in Attempts, NEW v \in ReaderStates \ {"none"},
         rpc[a] \notin {"none", "eof"}, rpc' = [rpc EXCEPT ![a] = v],
         v = "eof" => wpc = "done" /\ ~werr, DOMAIN held' = Attempts,
         UNCHANGED <<size, body, cut, hpc, writerVars, postVars>>
  PROVE /\ ScalarTypes' /\ Flags' /\ WriterInv' /\ PostInv'
        /\ rpc'[a] = v /\ \A b \in Attempts : b # a => rpc'[b] = rpc[b]
        /\ a \in Attempts /\ Taken' = Taken /\ wired' = wired /\ attempt' = attempt /\ left' = left
<1>1. ScalarTypes /\ Flags /\ WriterInv /\ PostInv
  BY Parts
<1>2. /\ size' = size /\ body' = body /\ cut' = cut /\ hpc' = hpc /\ wpc' = wpc /\ wired' = wired
      /\ offer' = offer /\ ended' = ended /\ werr' = werr /\ ppc' = ppc /\ attempt' = attempt
      /\ perr' = perr /\ acked' = acked /\ refused' = refused /\ left' = left
  BY DEF writerVars, postVars
<1>3. rpc'[a] = v /\ \A b \in Attempts : b # a => rpc'[b] = rpc[b]
  BY <1>1 DEF ScalarTypes
<1>4. ScalarTypes' /\ Flags' /\ WriterInv'
  <2>1. rpc' \in [Attempts -> ReaderStates]
    BY <1>1 DEF ScalarTypes
  <2> QED BY <1>1, <1>2, <2>1 DEF ScalarTypes, Flags, WriterInv
<1>5. attempt \in Attempts
  BY <1>1 DEF ScalarTypes
<1>6. PostInv'
  BY <1>1, <1>2, <1>3, <1>5 DEF PostInv
<1> QED BY <1>2, <1>3, <1>4, <1>6 DEF Taken

\* The parts of the invariant that are about what was read make up the rest.
LEMMA Whole ==
  (ScalarTypes /\ Flags /\ BufferTypes /\ WriterInv /\ PostInv /\ HeldTypes /\ StoredOnce /\ Replay)' => IndInv'
<1>1. (TypeOK <=> ScalarTypes /\ Flags /\ BufferTypes)'
  BY TypeParts, PTL
<1> QED BY <1>1 DEF IndInv

\* While there is one reader, the one that takes a step is that of the last
\* attempt.
LEMMA OneReader ==
  ASSUME IndInv, NEW a \in Attempts, rpc[a] \in {"idle", "read", "store"}, left = 0
  PROVE a = attempt
BY Parts DEF Replay

LEMMA ReadBufferedKept ==
  ASSUME IndInv, NEW a \in Attempts, ReadBuffered(a)
  PROVE IndInv'
<1> DEFINE h == SubSeq(buf, readHead + 1, Len(buf))
<1>1. /\ BufferTypes /\ HeldTypes /\ StoredOnce /\ Replay /\ ScalarTypes
      /\ Len(buf) \in Nat /\ Len(sent) \in Nat /\ readHead \in 0 .. Len(buf) /\ wired \in Nat
      /\ buf \in Seq(1 .. wired) /\ Taken \in Nat
  BY Parts DEF BufferTypes
<1>2. /\ rpc[a] = "idle" /\ rpc' = [rpc EXCEPT ![a] = "read"]
      /\ held' = [held EXCEPT ![a] = <<h>>] /\ readHead' = Len(buf)
      /\ UNCHANGED <<size, body, cut, hpc, writerVars, postVars>> /\ buf' = buf /\ sent' = sent
  BY DEF ReadBuffered
<1>3. h \in Seq(1 .. wired) /\ Len(h) = Len(buf) - readHead /\ \A i \in 1 .. Len(buf) - readHead : h[i] = buf[readHead + i]
  BY <1>1, Suffix
<1> HIDE DEF h
<1>4. DOMAIN held' = Attempts /\ held'[a][1] = h /\ \A b \in Attempts : b # a => held'[b] = held[b]
  BY <1>1, <1>2 DEF ScalarTypes
<1>5. /\ ScalarTypes' /\ Flags' /\ WriterInv' /\ PostInv'
      /\ rpc'[a] = "read" /\ \A b \in Attempts : b # a => rpc'[b] = rpc[b]
      /\ Taken' = Taken /\ wired' = wired /\ attempt' = attempt /\ left' = left
  BY <1>2, <1>4, ReaderFrame DEF ReaderStates
<1>6. BufferTypes' /\ HeldTypes'
  BY <1>1, <1>2, <1>3, <1>4, <1>5 DEF BufferTypes, HeldTypes
<1>7. StoredOnce'
  BY <1>1, <1>2, <1>4, <1>5 DEF StoredOnce
<1>8. Replay'
  <2> SUFFICES ASSUME left = 0 PROVE Replay'
    BY <1>5 DEF Replay
  <2>1. a = attempt
    BY <1>2, OneReader
  <2>2. /\ \A b \in Attempts : b # attempt => rpc[b] \in {"none", "gone", "eof"}
        /\ Run(buf, 1) /\ Run(sent, 1)
        /\ Len(buf) < BufSize => Len(buf) = Taken
        /\ Len(sent) + Len(buf) - readHead = Taken
        /\ readHead = Len(buf) \/ Len(sent) = readHead
    BY <1>1, <1>2, <2>1 DEF Replay
  <2>3. Run(h, Len(sent) + 1)
    <3> SUFFICES ASSUME NEW i \in 1 .. Len(h) PROVE h[i] = Len(sent) + 1 + i - 1
      BY DEF Run
    <3>0. i \in 1 .. Len(buf) - readHead /\ readHead \in Nat
      BY <1>1, <1>3
    <3>1. Len(sent) = readHead /\ readHead + i \in 1 .. Len(buf)
      BY <1>1, <2>2, <3>0
    <3>2. h[i] = 1 + (readHead + i) - 1
      BY <1>1, <1>3, <2>2, <3>0, <3>1 DEF Run
    <3> QED BY <1>1, <3>0, <3>1, <3>2
  <2>4. Len(sent) + Len(h) = Taken
    BY <1>1, <1>3, <2>2
  <2> QED BY <1>2, <1>4, <1>5, <2>1, <2>2, <2>3, <2>4 DEF Replay
<1> QED BY <1>5, <1>6, <1>7, <1>8, Whole

\* A write or a part of it is read: its bytes come after all that was read.
LEMMA ReadSourceKept ==
  ASSUME IndInv, NEW a \in Attempts, NEW n \in 1 .. MaxWrite + 1, ReadSource(a, n)
  PROVE IndInv'
<1> DEFINE src == Interval(Taken + 1, Taken + n)
           h   == held[a][1]
<1>1. /\ BufferTypes /\ HeldTypes /\ StoredOnce /\ Replay /\ ScalarTypes /\ Flags /\ WriterInv /\ PostInv
      /\ Len(buf) \in Nat /\ Len(sent) \in Nat /\ wired \in Nat /\ offer \in Nat /\ MaxWrite \in Nat /\ Taken \in Nat
  BY Parts
<1>2. /\ rpc[a] = "read" /\ rpc' = [rpc EXCEPT ![a] = "store"]
      /\ wpc = "write" /\ n <= offer /\ offer' = offer - n
      /\ wpc' = (IF n < offer THEN "write" ELSE IF ended THEN "done" ELSE "read")
      /\ held' = [held EXCEPT ![a] = <<h, Interval(wired - offer + 1, wired - offer + n)>>]
      /\ size' = size /\ body' = body /\ cut' = cut /\ hpc' = hpc /\ wired' = wired /\ ended' = ended
      /\ werr' = werr /\ buf' = buf /\ readHead' = readHead /\ sent' = sent
      /\ ppc' = ppc /\ attempt' = attempt /\ perr' = perr /\ acked' = acked /\ refused' = refused
      /\ left' = left
  BY DEF ReadSource, postVars, bufVars
<1>3. n \in Nat /\ Taken + n <= wired /\ Taken' = Taken + n
  BY <1>1, <1>2 DEF Taken
<1>4. src \in Seq(1 .. wired) /\ Len(src) = n /\ Run(src, Taken + 1)
  BY <1>1, <1>3, IntervalRun
<1>5. /\ DOMAIN held' = Attempts /\ held'[a][1] = h /\ held'[a][2] = src
      /\ \A b \in Attempts : b # a => held'[b] = held[b]
  BY <1>1, <1>2 DEF ScalarTypes, Taken
<1> HIDE DEF src
<1>6. /\ rpc'[a] = "store" /\ \A b \in Attempts : b # a => rpc'[b] = rpc[b]
      /\ rpc' \in [Attempts -> ReaderStates] /\ attempt \in Attempts
  BY <1>1, <1>2 DEF ScalarTypes, ReaderStates
<1>7. ScalarTypes' /\ Flags'
  <2>1. offer' \in 0 .. MaxWrite + 1
    <3>1. offer \in Nat /\ offer <= MaxWrite + 1 /\ MaxWrite \in Nat
      BY <1>1 DEF ScalarTypes
    <3>2. offer' = offer - n /\ n <= offer /\ n \in Nat
      BY <1>2, <1>3
    <3>3. offer' \in Nat /\ offer' <= MaxWrite + 1
      BY <3>1, <3>2
    <3> QED BY <3>1, <3>3
  <2>2. wpc' \in {"resp", "read", "write", "done"}
    BY <1>2
  <2>3. ScalarTypes'
    BY <1>1, <1>2, <1>5, <1>6, <2>1, <2>2 DEF ScalarTypes
  <2>4. Flags'
    BY <1>1, <1>2 DEF Flags
  <2> QED BY <2>3, <2>4
<1>8. WriterInv'
  <2>1. ~werr /\ offer' \in Nat /\ offer' <= wired /\ (wpc' # "write" => offer' = 0)
    BY <1>1, <1>2, <1>3 DEF WriterInv, Taken
  <2> QED BY <1>1, <1>2, <2>1 DEF WriterInv
<1>9. PostInv'
  BY <1>1, <1>2, <1>6 DEF PostInv
<1>10. BufferTypes' /\ HeldTypes'
  BY <1>1, <1>2, <1>4, <1>5, <1>6 DEF BufferTypes, HeldTypes
<1>11. StoredOnce'
  <2>1. \A b \in Attempts : rpc[b] = "store" => Len(held[b][2]) \in Nat /\ \A i \in 1 .. Len(held[b][2]) : held[b][2][i] \in 1 .. wired
    <3> SUFFICES ASSUME NEW b \in Attempts, rpc[b] = "store"
                 PROVE Len(held[b][2]) \in Nat /\ \A i \in 1 .. Len(held[b][2]) : held[b][2][i] \in 1 .. wired
      OBVIOUS
    <3>1. held[b][2] \in Seq(1 .. wired)
      BY <1>1 DEF HeldTypes
    <3> QED BY <3>1, LenProperties
  <2>2. \A i \in 1 .. Len(buf) : buf[i] \in 1 .. wired
    BY <1>1, LenProperties DEF BufferTypes
  <2>3. Distinct(src) /\ UpTo(src, Taken + n) /\ \A i \in 1 .. Len(src) : src[i] > Taken
    BY <1>1, <1>3, <1>4 DEF Run, Distinct, UpTo
  <2>4. ASSUME NEW x, UpTo(x, Taken), \A i \in 1 .. Len(x) : x[i] \in 1 .. wired
        PROVE Disjoint(x, src) /\ Disjoint(src, x) /\ UpTo(x, Taken + n)
    <3>0. \A i \in 1 .. Len(src) : src[i] \in 1 .. wired
      BY <1>4, ElementOfSeq
    <3>1. \A i \in 1 .. Len(src) : src[i] \in Nat
      BY <1>1, <3>0
    <3> QED BY <1>1, <1>3, <2>3, <2>4, <3>1 DEF Disjoint, UpTo
  <2>5. Distinct(buf') /\ UpTo(buf', Taken') /\ Disjoint(buf, src)
    BY <1>1, <1>2, <1>3, <2>2, <2>4 DEF StoredOnce
  <2>6. ASSUME NEW b \in Attempts, rpc'[b] = "store", b # a
        PROVE /\ Distinct(held[b][2]) /\ UpTo(held[b][2], Taken + n) /\ Disjoint(buf, held[b][2])
              /\ Disjoint(src, held[b][2]) /\ Disjoint(held[b][2], src)
    <3>1. rpc[b] = "store"
      BY <1>6, <2>6
    <3>2. Distinct(held[b][2]) /\ UpTo(held[b][2], Taken) /\ Disjoint(buf, held[b][2])
      BY <1>1, <3>1 DEF StoredOnce
    <3> QED BY <2>1, <2>4, <3>1, <3>2
  <2>7. ASSUME NEW b \in Attempts, rpc'[b] = "store"
        PROVE /\ Distinct(held'[b][2]) /\ UpTo(held'[b][2], Taken') /\ Disjoint(buf', held'[b][2])
              /\ \A c \in Attempts : rpc'[c] = "store" /\ c # b => Disjoint(held'[b][2], held'[c][2])
    <3>1. CASE b = a
      BY <1>2, <1>3, <1>5, <2>3, <2>5, <2>6, <3>1
    <3>2. CASE b # a
      <4>1. held'[b] = held[b] /\ rpc[b] = "store"
        BY <1>5, <1>6, <2>7, <3>2
      <4>2. ASSUME NEW c \in Attempts, rpc'[c] = "store", c # b PROVE Disjoint(held[b][2], held'[c][2])
        <5>1. CASE c = a
          BY <1>5, <2>6, <2>7, <3>2, <5>1
        <5>2. CASE c # a
          BY <1>1, <1>5, <1>6, <4>1, <4>2, <5>2 DEF StoredOnce
        <5> QED BY <5>1, <5>2
      <4> QED BY <1>2, <1>3, <2>6, <2>7, <3>2, <4>1, <4>2
    <3> QED BY <3>1, <3>2
  <2> QED BY <2>5, <2>7 DEF StoredOnce
<1>12. Replay'
  <2> SUFFICES ASSUME left = 0 PROVE Replay'
    BY <1>2 DEF Replay
  <2>1. a = attempt
    BY <1>2, OneReader
  <2>2. /\ \A b \in Attempts : b # attempt => rpc[b] \in {"none", "gone", "eof"}
        /\ Run(buf, 1) /\ Run(sent, 1) /\ readHead = Len(buf)
        /\ Len(buf) < BufSize => Len(buf) = Taken
        /\ Run(h, Len(sent) + 1) /\ Len(sent) + Len(h) = Taken
    BY <1>1, <1>2, <2>1 DEF Replay
  <2>3. Run(src, Len(sent) + Len(h) + 1) /\ Len(sent) + Len(h) + Len(src) = Taken'
    BY <1>3, <1>4, <2>2
  <2>4. /\ \A b \in Attempts : b # attempt' => rpc'[b] \in {"none", "gone", "eof"}
        /\ Run(buf', 1) /\ Run(sent', 1) /\ readHead' = Len(buf') /\ rpc'[attempt'] = "store"
        /\ held'[attempt'][1] = h /\ held'[attempt'][2] = src
    BY <1>2, <1>5, <1>6, <2>1, <2>2
  <2> HIDE DEF h
  <2> QED BY <1>2, <2>2, <2>3, <2>4 DEF Replay
<1> QED BY <1>7, <1>8, <1>9, <1>10, <1>11, <1>12, Whole

\* Storing: the buffer takes what there is room for, so it is full or has all.
LEMMA StoreKept ==
  ASSUME IndInv, NEW a \in Attempts, Store(a)
  PROVE IndInv'
<1> DEFINE h    == held[a][1]
           src  == held[a][2]
           room == BufSize - Len(buf)
           n    == IF room < Len(src) THEN room ELSE Len(src)
           kept == SubSeq(src, 1, n)
           all  == (sent \o h) \o src
<1>1. /\ BufferTypes /\ HeldTypes /\ StoredOnce /\ Replay /\ ScalarTypes
      /\ Len(buf) \in Nat /\ Len(sent) \in Nat /\ wired \in Nat /\ Taken \in Nat /\ BufSize \in Nat
      /\ readHead \in Nat
  BY Parts
<1>2. /\ rpc[a] = "store" /\ rpc' = [rpc EXCEPT ![a] = "idle"]
      /\ held' = [held EXCEPT ![a] = <<>>]
      /\ buf' = buf \o kept /\ readHead' = readHead + Len(kept)
      /\ sent' = (IF a = attempt THEN all ELSE sent)
      /\ UNCHANGED <<size, body, cut, hpc, writerVars, postVars>>
  BY DEF Store
<1>3. /\ h \in Seq(1 .. wired) /\ src \in Seq(1 .. wired) /\ Len(h) \in Nat /\ Len(src) \in Nat
      /\ buf \in Seq(1 .. wired) /\ sent \in Seq(1 .. wired) /\ Len(buf) <= BufSize
      /\ readHead <= Len(buf)
  <2>1. h \in Seq(1 .. wired) /\ src \in Seq(1 .. wired)
    BY <1>1, <1>2 DEF HeldTypes
  <2> QED BY <1>1, <2>1, LenProperties DEF BufferTypes
<1> HIDE DEF h, src
<1>4. n \in 0 .. Len(src) /\ Len(buf) + n <= BufSize /\ (n # Len(src) => Len(buf) + n = BufSize)
  BY <1>1, <1>3
<1> HIDE DEF n
<1>5. kept \in Seq(1 .. wired) /\ Len(kept) = n /\ \A i \in 1 .. n : kept[i] = src[i]
  BY <1>3, <1>4, Prefix
<1> HIDE DEF kept
<1>6. buf \o kept \in Seq(1 .. wired) /\ Len(buf \o kept) = Len(buf) + n
  BY <1>3, <1>5, ConcatProperties
<1>7. all \in Seq(1 .. wired) /\ Len(all) = Len(sent) + Len(h) + Len(src)
  <2>1. sent \o h \in Seq(1 .. wired) /\ Len(sent \o h) = Len(sent) + Len(h)
    BY <1>3, ConcatProperties
  <2> QED BY <1>3, <2>1, ConcatProperties
<1>8. DOMAIN held' = Attempts /\ \A b \in Attempts : b # a => held'[b] = held[b]
  BY <1>1, <1>2 DEF ScalarTypes
<1>9. /\ ScalarTypes' /\ Flags' /\ WriterInv' /\ PostInv'
      /\ rpc'[a] = "idle" /\ \A b \in Attempts : b # a => rpc'[b] = rpc[b]
      /\ Taken' = Taken /\ wired' = wired /\ attempt' = attempt /\ left' = left
  BY <1>2, <1>8, ReaderFrame DEF ReaderStates
<1>10. BufferTypes' /\ HeldTypes'
  <2>1. buf' \in Seq(1 .. wired) /\ Len(buf') = Len(buf) + n /\ readHead' = readHead + n
        /\ sent' \in Seq(1 .. wired)
    BY <1>2, <1>3, <1>5, <1>6, <1>7
  <2>2. Len(buf') <= BufSize /\ readHead' \in 0 .. Len(buf')
    BY <1>1, <1>3, <1>4, <2>1
  <2>3. BufferTypes'
    BY <1>9, <2>1, <2>2 DEF BufferTypes
  <2>4. HeldTypes'
    BY <1>1, <1>8, <1>9 DEF HeldTypes
  <2> QED BY <2>3, <2>4
<1>11. StoredOnce'
  <2>1. /\ Distinct(buf) /\ UpTo(buf, Taken) /\ Distinct(src) /\ UpTo(src, Taken) /\ Disjoint(buf, src)
        /\ \A b \in Attempts : rpc[b] = "store" /\ b # a => Disjoint(src, held[b][2])
    BY <1>1, <1>2 DEF StoredOnce, src
  <2>2. \A i \in 1 .. n : i \in 1 .. Len(src)
    BY <1>3, <1>4
  <2>3. /\ Distinct(kept) /\ UpTo(kept, Taken) /\ Disjoint(buf, kept)
        /\ \A y : Disjoint(src, y) => Disjoint(kept, y)
    BY <1>5, <2>1, <2>2 DEF Distinct, UpTo, Disjoint
  <2>4. /\ Distinct(buf \o kept)
        /\ (UpTo(buf, Taken) /\ UpTo(kept, Taken) => UpTo(buf \o kept, Taken))
        /\ \A z \in Seq(1 .. wired) : Disjoint(buf, z) /\ Disjoint(kept, z) => Disjoint(buf \o kept, z)
    BY <1>3, <1>5, <2>1, <2>3, StoreDistinct
  <2>5. ASSUME NEW b \in Attempts, rpc'[b] = "store"
        PROVE /\ Distinct(held[b][2]) /\ UpTo(held[b][2], Taken) /\ Disjoint(buf \o kept, held[b][2])
              /\ \A c \in Attempts : rpc[c] = "store" /\ c # b => Disjoint(held[b][2], held[c][2])
              /\ b # a
    <3>1. b # a /\ rpc[b] = "store"
      BY <1>9, <2>5
    <3>2. held[b][2] \in Seq(1 .. wired)
      BY <1>1, <3>1 DEF HeldTypes
    <3>3. /\ Distinct(held[b][2]) /\ UpTo(held[b][2], Taken) /\ Disjoint(buf, held[b][2])
          /\ \A c \in Attempts : rpc[c] = "store" /\ c # b => Disjoint(held[b][2], held[c][2])
      BY <1>1, <3>1 DEF StoredOnce
    <3> QED BY <2>1, <2>3, <2>4, <3>1, <3>2, <3>3
  <2>6. ASSUME NEW b \in Attempts, rpc'[b] = "store"
        PROVE /\ Distinct(held'[b][2]) /\ UpTo(held'[b][2], Taken') /\ Disjoint(buf', held'[b][2])
              /\ \A c \in Attempts : rpc'[c] = "store" /\ c # b => Disjoint(held'[b][2], held'[c][2])
    <3>1. \A c \in Attempts : rpc'[c] = "store" => rpc[c] = "store" /\ held'[c] = held[c]
      BY <1>8, <1>9
    <3> QED BY <1>2, <1>9, <2>5, <2>6, <3>1
  <2> QED BY <1>2, <1>9, <2>1, <2>3, <2>4, <2>6 DEF StoredOnce
<1>12. Replay'
  <2> SUFFICES ASSUME left = 0 PROVE Replay'
    BY <1>9 DEF Replay
  <2>1. a = attempt
    BY <1>2, OneReader
  <2>2. /\ \A b \in Attempts : b # attempt => rpc[b] \in {"none", "gone", "eof"}
        /\ Run(buf, 1) /\ Run(sent, 1) /\ readHead = Len(buf)
        /\ Run(h, Len(sent) + 1) /\ Run(src, Len(sent) + Len(h) + 1)
        /\ Len(sent) + Len(h) + Len(src) = Taken
        /\ Len(buf) < BufSize => Len(buf) = Len(sent) + Len(h)
    BY <1>1, <1>2, <2>1 DEF Replay, h, src
  <2>3. Run(all, 1)
    <3>1. 1 + Len(sent) = Len(sent) + 1 /\ 1 + (Len(sent) + Len(h)) = Len(sent) + Len(h) + 1
      BY <1>1, <1>3
    <3>2. Run(sent \o h, 1)
      BY <1>3, <2>2, <3>1, JoinRun
    <3>3. sent \o h \in Seq(1 .. wired) /\ Len(sent \o h) = Len(sent) + Len(h)
      BY <1>3, ConcatProperties
    <3>4. Run(src, 1 + Len(sent \o h))
      BY <2>2, <3>1, <3>3
    <3> QED BY <1>3, <3>2, <3>3, <3>4, JoinRun
  <2>4. Run(buf \o kept, 1)
    <3>1. Run(kept, 1 + Len(buf))
      <4> SUFFICES ASSUME NEW i \in 1 .. n PROVE kept[i] = 1 + Len(buf) + i - 1
        BY <1>5 DEF Run
      <4>1. n > 0 /\ i \in 1 .. Len(src) /\ n \in Nat
        BY <1>3, <1>4
      <4>2. Len(buf) = Len(sent) + Len(h)
        BY <1>1, <1>4, <2>2, <4>1
      <4>3. src[i] = Len(sent) + Len(h) + 1 + i - 1
        BY <2>2, <4>1 DEF Run
      <4> QED BY <1>1, <1>5, <4>1, <4>2, <4>3
    <3> QED BY <1>3, <1>5, <2>2, <3>1, JoinRun
  <2>5. Len(buf') < BufSize => Len(buf') = Taken
    <3>1. Len(buf') = Len(buf) + n
      BY <1>2, <1>6
    <3>2. n \in Nat
      BY <1>3, <1>4
    <3> SUFFICES ASSUME Len(buf) + n < BufSize PROVE Len(buf) + n = Taken
      BY <3>1
    <3>3. n = Len(src) /\ Len(buf) < BufSize
      BY <1>1, <1>4, <3>2
    <3>4. Len(buf) = Len(sent) + Len(h)
      BY <2>2, <3>3
    <3> QED BY <2>2, <3>3, <3>4
  <2>6. Len(sent') = Taken /\ readHead' = Len(buf') /\ Run(sent', 1) /\ Run(buf', 1)
    BY <1>2, <1>5, <1>6, <1>7, <2>1, <2>2, <2>3, <2>4
  <2>7. Len(sent') + Len(buf') - readHead' = Taken
    <3>1. Len(buf') \in Nat
      BY <1>1, <1>2, <1>3, <1>4, <1>6
    <3> QED BY <1>1, <2>6, <3>1
  <2> QED BY <1>9, <2>1, <2>2, <2>5, <2>6, <2>7 DEF Replay
<1> QED BY <1>9, <1>10, <1>11, <1>12, Whole

\* The end of the wire format, and of a reader.
LEMMA ReaderEndKept ==
  ASSUME IndInv, NEW a \in Attempts, ReadEOF(a) \/ ReaderGone(a)
  PROVE IndInv'
<1> DEFINE h == held[a][1]
<1>1. /\ BufferTypes /\ HeldTypes /\ StoredOnce /\ Replay /\ ScalarTypes
      /\ Len(buf) \in Nat /\ Len(sent) \in Nat /\ wired \in Nat /\ Taken \in Nat
  BY Parts
<1>2. /\ rpc[a] \in {"idle", "read"} /\ held' = [held EXCEPT ![a] = <<>>]
      /\ UNCHANGED <<size, body, cut, hpc, writerVars, postVars>> /\ buf' = buf /\ readHead' = readHead
      /\ \/ /\ rpc[a] = "read" /\ wpc = "done" /\ ~werr /\ rpc' = [rpc EXCEPT ![a] = "eof"]
            /\ sent' = IF a = attempt THEN sent \o h ELSE sent
         \/ rpc' = [rpc EXCEPT ![a] = "gone"] /\ sent' = sent
  BY DEF ReadEOF, ReaderGone, bufVars
<1>3. DOMAIN held' = Attempts /\ \A b \in Attempts : b # a => held'[b] = held[b]
  BY <1>1, <1>2 DEF ScalarTypes
<1>4. PICK v \in {"eof", "gone"} :
        /\ rpc' = [rpc EXCEPT ![a] = v] /\ (v = "eof" => wpc = "done" /\ ~werr /\ rpc[a] = "read")
        /\ sent' = IF v = "eof" /\ a = attempt THEN sent \o h ELSE sent
  BY <1>2
<1>5. /\ ScalarTypes' /\ Flags' /\ WriterInv' /\ PostInv'
      /\ rpc'[a] = v /\ \A b \in Attempts : b # a => rpc'[b] = rpc[b]
      /\ Taken' = Taken /\ wired' = wired /\ attempt' = attempt /\ left' = left
  BY <1>2, <1>3, <1>4, ReaderFrame DEF ReaderStates
<1>6. sent \in Seq(1 .. wired) /\ (v = "eof" => h \in Seq(1 .. wired) /\ Len(h) \in Nat)
  BY <1>1, <1>4, LenProperties DEF BufferTypes, HeldTypes
<1> HIDE DEF h
<1>7. v = "eof" => sent \o h \in Seq(1 .. wired) /\ Len(sent \o h) = Len(sent) + Len(h)
  BY <1>6, ConcatProperties
<1>8. BufferTypes' /\ HeldTypes'
  BY <1>1, <1>2, <1>3, <1>4, <1>5, <1>6, <1>7 DEF BufferTypes, HeldTypes
<1>9. StoredOnce'
  BY <1>1, <1>2, <1>3, <1>5 DEF StoredOnce
<1>10. Replay'
  <2> SUFFICES ASSUME left = 0 PROVE Replay'
    BY <1>5 DEF Replay
  <2>1. a = attempt
    BY <1>2, OneReader
  <2>2. /\ \A b \in Attempts : b # attempt => rpc[b] \in {"none", "gone", "eof"}
        /\ Run(buf, 1) /\ Run(sent, 1)
        /\ Len(buf) < BufSize => Len(buf) = Taken
        /\ v = "eof" => Run(h, Len(sent) + 1) /\ Len(sent) + Len(h) = Taken
    BY <1>1, <1>2, <1>4, <2>1 DEF Replay, h
  <2>3. Run(sent', 1) /\ (v = "eof" => Len(sent') = Taken)
    <3>1. CASE v = "eof"
      <4>1. 1 + Len(sent) = Len(sent) + 1
        BY <1>1
      <4>2. Run(sent \o h, 1)
        BY <1>6, <2>2, <3>1, <4>1, JoinRun
      <4> QED BY <1>4, <1>7, <2>1, <2>2, <3>1, <4>2
    <3>2. CASE v # "eof"
      BY <1>4, <2>2, <3>2
    <3> QED BY <3>1, <3>2
  <2> QED BY <1>2, <1>5, <2>1, <2>2, <2>3 DEF Replay
<1> QED BY <1>5, <1>8, <1>9, <1>10, Whole

-----------------------------------------------------------------------------
(* The post goroutine *)

\* A short response never fills the buffer, so it can be sent again.
LEMMA ShortFits ==
  ASSUME IndInv, size + 2 < BufSize
  PROVE Seekable
<1>1. buf \in Seq(1 .. wired) /\ Distinct(buf) /\ wired \in Nat /\ wired <= size + 2 /\ size \in Nat
      /\ BufSize \in Nat /\ Len(buf) \in Nat
  BY Parts DEF BufferTypes, StoredOnce, ScalarTypes
<1>2. Len(buf) <= wired
  BY <1>1, Pigeons
<1> QED BY <1>1, <1>2 DEF Seekable

\* The next attempt, or the end of them, after an attempt whose reader is done,
\* or at least counted as left behind.
LEMMA AgainKept ==
  ASSUME IndInv, ppc = "calling", NEW err \in BOOLEAN, NEW state \in ReaderStates,
         state = rpc[attempt] \/ (state = "gone" /\ rpc[attempt] \in {"idle", "eof"}),
         Again(err, [rpc EXCEPT ![attempt] = state]),
         UNCHANGED <<size, body, cut, hpc, writerVars, acked, refused, held, buf>>,
         left' \in left .. MaxLeft, left' = 0 => state \in {"gone", "eof"}
  PROVE IndInv'
<1> DEFINE readers == [rpc EXCEPT ![attempt] = state]
<1>1. /\ BufferTypes /\ HeldTypes /\ StoredOnce /\ Replay /\ ScalarTypes /\ Flags /\ WriterInv /\ PostInv
      /\ Len(buf) \in Nat /\ Len(sent) \in Nat /\ wired \in Nat /\ Taken \in Nat /\ WriteRetries \in Nat
      /\ MaxLeft \in Nat /\ attempt \in Attempts /\ attempt \in Nat /\ left \in Nat
  BY Parts DEF ScalarTypes, Attempts
<1>2. /\ readers \in [Attempts -> ReaderStates] /\ readers[attempt] = state
      /\ \A b \in Attempts : b # attempt => readers[b] = rpc[b]
  BY <1>1 DEF ScalarTypes
<1>3. /\ size' = size /\ body' = body /\ cut' = cut /\ hpc' = hpc /\ wpc' = wpc /\ wired' = wired
      /\ offer' = offer /\ ended' = ended /\ werr' = werr /\ acked' = acked /\ refused' = refused
      /\ held' = held /\ buf' = buf
  BY DEF writerVars
<1>4. ~acked /\ \A a \in Attempts : a > attempt => rpc[a] = "none"
  BY <1>1 DEF PostInv, Flags
<1>5. left' \in 0 .. MaxLeft /\ (left' = 0 => left = 0)
  BY <1>1
<1>6. WriterInv' /\ Taken' = Taken
  BY <1>1, <1>3 DEF WriterInv, Taken
<1>7. \A b \in Attempts : readers[b] \in {"read", "store"} => rpc[b] = readers[b]
  BY <1>2
<1>8. left' = 0 =>
        /\ \A b \in Attempts : readers[b] \in {"none", "gone", "eof"}
        /\ Run(buf, 1) /\ Run(sent, 1) /\ (Len(buf) < BufSize => Len(buf) = Taken)
        /\ readers[attempt] = "eof" => Len(sent) = Taken
  BY <1>1, <1>2, <1>5 DEF Replay
<1>9. \A b \in Attempts : readers[b] = "eof" => rpc[b] = "eof"
  BY <1>2
<1> HIDE DEF readers
<1>10. CASE Seekable /\ attempt < WriteRetries
  <2>1. /\ attempt' = attempt + 1 /\ readHead' = 0 /\ sent' = <<>> /\ ppc' = ppc /\ perr' = perr
        /\ rpc' = [readers EXCEPT ![attempt + 1] = "idle"]
    BY <1>10 DEF Again, readers
  <2>2. attempt + 1 \in Attempts /\ attempt + 1 # attempt
    BY <1>1, <1>10 DEF Attempts
  <2>3. /\ rpc' \in [Attempts -> ReaderStates] /\ rpc'[attempt + 1] = "idle"
        /\ \A b \in Attempts : b # attempt + 1 => rpc'[b] = readers[b]
    BY <1>2, <2>1, <2>2 DEF ReaderStates
  <2>4. ScalarTypes'
    BY <1>1, <1>3, <1>5, <2>1, <2>2, <2>3 DEF ScalarTypes
  <2>5. Flags'
    BY <1>1, <1>3, <2>1 DEF Flags
  <2>6. sent' \in Seq(1 .. wired) /\ Len(sent') = 0
    BY <2>1, EmptySeq
  <2>7. BufferTypes'
    BY <1>1, <1>3, <2>1, <2>6 DEF BufferTypes
  <2>8. PostInv'
    <3>1. \A a \in Attempts : a > attempt + 1 => rpc'[a] = "none"
      <4> SUFFICES ASSUME NEW a \in Attempts, a > attempt + 1 PROVE rpc'[a] = "none"
        OBVIOUS
      <4>1. a \in Nat /\ a > attempt /\ a # attempt /\ a # attempt + 1
        BY <1>1 DEF Attempts
      <4> QED BY <1>2, <1>4, <2>3, <4>1
    <3>2. \A a \in Attempts : rpc'[a] = "eof" => wpc = "done" /\ ~werr
      BY <1>1, <1>9, <2>3 DEF PostInv
    <3> QED BY <1>3, <1>4, <2>1, <3>1, <3>2 DEF PostInv
  <2>9. HeldTypes' /\ StoredOnce'
    <3>1. \A b \in Attempts : rpc'[b] \in {"read", "store"} => rpc[b] = rpc'[b]
      BY <1>7, <2>3
    <3> QED BY <1>1, <1>3, <1>6, <3>1 DEF HeldTypes, StoredOnce
  <2>10. Replay'
    <3> SUFFICES ASSUME left' = 0 PROVE Replay'
      BY DEF Replay
    <3>1. Len(buf) = Taken /\ Run(buf, 1) /\ \A b \in Attempts : readers[b] \in {"none", "gone", "eof"}
      BY <1>8, <1>10 DEF Seekable
    <3>2. Run(sent', 1)
      BY <2>6 DEF Run
    <3>3. Len(sent') + Len(buf') - readHead' = Taken' /\ Len(sent') = readHead'
      BY <1>1, <1>3, <1>6, <2>1, <2>6, <3>1
    <3>4. rpc'[attempt'] = "idle" /\ \A b \in Attempts : b # attempt' => rpc'[b] \in {"none", "gone", "eof"}
      BY <2>1, <2>3, <3>1
    <3> QED BY <1>3, <1>6, <3>1, <3>2, <3>3, <3>4 DEF Replay
  <2> QED BY <1>6, <2>4, <2>5, <2>7, <2>8, <2>9, <2>10, Whole
<1>11. CASE ~(Seekable /\ attempt < WriteRetries)
  <2>1. /\ attempt' = attempt /\ sent' = sent /\ ppc' = "returned" /\ perr' = err
        /\ rpc' = readers /\ readHead' \in {0, readHead}
    BY <1>11 DEF Again, readers
  <2>2. ScalarTypes'
    BY <1>1, <1>2, <1>3, <1>5, <2>1 DEF ScalarTypes
  <2>3. Flags'
    BY <1>1, <1>3, <2>1 DEF Flags
  <2>4. BufferTypes'
    BY <1>1, <1>3, <2>1 DEF BufferTypes
  <2>5. size + 2 < BufSize => attempt = WriteRetries
    BY <1>1, <1>11, ShortFits DEF Attempts
  <2>6. PostInv'
    <3>1. \A a \in Attempts : a > attempt => rpc'[a] = "none"
      <4> SUFFICES ASSUME NEW a \in Attempts, a > attempt PROVE rpc'[a] = "none"
        OBVIOUS
      <4>1. a # attempt
        BY <1>1 DEF Attempts
      <4> QED BY <1>2, <1>4, <2>1, <4>1
    <3>2. \A a \in Attempts : rpc'[a] = "eof" => wpc = "done" /\ ~werr
      BY <1>1, <1>9, <2>1 DEF PostInv
    <3> QED BY <1>3, <1>4, <2>1, <2>5, <3>1, <3>2 DEF PostInv
  <2>7. HeldTypes' /\ StoredOnce'
    BY <1>1, <1>3, <1>6, <1>7, <2>1 DEF HeldTypes, StoredOnce
  <2>8. Replay'
    BY <1>1, <1>3, <1>6, <1>8, <2>1 DEF Replay
  <2> QED BY <1>6, <2>2, <2>3, <2>4, <2>6, <2>7, <2>8, Whole
<1> QED BY <1>10, <1>11

LEMMA PostKept ==
  ASSUME IndInv, PostStep
  PROVE IndInv'
<1>1. /\ BufferTypes /\ HeldTypes /\ StoredOnce /\ Replay /\ ScalarTypes /\ Flags /\ WriterInv /\ PostInv
      /\ MaxLeft \in Nat /\ wired \in Nat /\ Taken \in Nat
      /\ attempt \in Attempts /\ left \in 0 .. MaxLeft /\ rpc[attempt] \in ReaderStates
  BY Parts DEF ScalarTypes
<1>2. CASE PostFail
  <2>1. /\ ppc = "calling" /\ rpc[attempt] \in {"idle", "eof"}
        /\ Again(TRUE, [rpc EXCEPT ![attempt] = "gone"])
        /\ UNCHANGED <<size, body, cut, hpc, writerVars, acked, refused, held, buf>> /\ left' = left
    BY <1>2 DEF PostFail
  <2>2. left' \in left .. MaxLeft /\ "gone" \in ReaderStates
    BY <1>1, <2>1 DEF ReaderStates
  <2> QED BY <2>1, <2>2, AgainKept
<1>3. CASE PostFailReading
  <2>1. [rpc EXCEPT ![attempt] = rpc[attempt]] = rpc
    BY <1>1 DEF ScalarTypes
  <2>2. Again(TRUE, [rpc EXCEPT ![attempt] = rpc[attempt]]) /\ ppc = "calling"
    BY <1>3, <2>1 DEF PostFailReading
  <2>3. left' \in left .. MaxLeft /\ left' # 0
    BY <1>1, <1>3 DEF PostFailReading, LeaveReader
  <2>4. UNCHANGED <<size, body, cut, hpc, writerVars, acked, refused, held, buf>>
    BY <1>3 DEF PostFailReading
  <2> QED BY <1>1, <2>2, <2>3, <2>4, AgainKept
<1>4. CASE PostRejected
  <2>1. [rpc EXCEPT ![attempt] = rpc[attempt]] = rpc
    BY <1>1 DEF ScalarTypes
  <2>2. Again(FALSE, [rpc EXCEPT ![attempt] = rpc[attempt]]) /\ ppc = "calling"
    BY <1>4, <2>1 DEF PostRejected
  <2>3. left' \in left .. MaxLeft /\ (left' = 0 => rpc[attempt] \in {"gone", "eof"})
    BY <1>1, <1>4 DEF PostRejected, LeaveReader
  <2>4. UNCHANGED <<size, body, cut, hpc, writerVars, acked, refused, held, buf>>
    BY <1>4 DEF PostRejected
  <2> QED BY <1>1, <2>2, <2>3, <2>4, AgainKept
<1>5. CASE PostRefused \/ PostOK \/ PostEnd
  <2>1. /\ UNCHANGED <<left, attempt, rpc, held, sent, buf, readHead>> /\ wired' = wired /\ Taken' = Taken
        /\ UNCHANGED <<size, body, cut, hpc, wpc, offer, ended, werr, perr>>
    BY <1>5 DEF PostRefused, PostOK, PostEnd, writerVars, bufVars, readVars, Taken
  <2>2. BufferTypes' /\ HeldTypes' /\ StoredOnce' /\ Replay'
    BY <1>1, <2>1, ReadUnchanged
  <2>3. ppc' \in {"returned", "done"} /\ (ppc' = "done" => ppc # "calling")
    BY <1>5 DEF PostRefused, PostOK, PostEnd
  <2>4. acked' \in BOOLEAN /\ refused' \in BOOLEAN
    BY <1>1, <1>5 DEF PostRefused, PostOK, PostEnd, Flags
  <2>5. ScalarTypes'
    BY <1>1, <2>1, <2>3 DEF ScalarTypes
  <2>6. Flags'
    BY <1>1, <2>1, <2>4 DEF Flags
  <2>7. WriterInv'
    BY <1>1, <2>1 DEF WriterInv
  <2>8. PostInv'
    BY <1>1, <1>5, <2>1 DEF PostInv, PostRefused, PostOK, PostEnd
  <2> QED BY <2>2, <2>5, <2>6, <2>7, <2>8, Whole
<1> QED BY <1>2, <1>3, <1>4, <1>5 DEF PostStep

-----------------------------------------------------------------------------
(* The theorems *)

LEMMA InitInv == Init => IndInv
<1> SUFFICES ASSUME Init PROVE IndInv
  OBVIOUS
<1>1. MaxBody \in Nat /\ MaxWrite \in Nat /\ BufSize \in Nat \ {0} /\ WriteRetries \in Nat /\ MaxLeft \in Nat
  BY SizesAssumption
<1>2. Flags
  BY DEF Init, Flags
<1>3. ScalarTypes
  <2>1. size \in 0 .. MaxBody /\ size \in Nat
    BY <1>1 DEF Init
  <2>2. rpc \in [Attempts -> ReaderStates] /\ DOMAIN held = Attempts /\ attempt \in Attempts
    BY <1>1 DEF Init, ReaderStates, Attempts
  <2> QED BY <1>1, <2>1, <2>2 DEF Init, ScalarTypes
<1>4. buf \in Seq(1 .. wired) /\ Len(buf) = 0 /\ sent \in Seq(1 .. wired) /\ Len(sent) = 0
  BY EmptySeq DEF Init
<1>5. BufferTypes
  BY <1>1, <1>4 DEF Init, BufferTypes
<1>6. WriterInv /\ Taken = 0
  BY DEF Init, WriterInv, Taken
<1>7. \A a \in Attempts : rpc[a] \in {"idle", "none"} /\ (a # 0 => rpc[a] = "none")
  BY DEF Init
<1>8. 0 \in Attempts /\ attempt = 0 /\ rpc[0] = "idle" /\ readHead = 0 /\ ppc = "calling" /\ ~acked
  BY <1>1 DEF Init, Attempts
<1>9. PostInv
  BY <1>7, <1>8 DEF PostInv, Attempts
<1>10. HeldTypes /\ StoredOnce
  BY <1>4, <1>7 DEF HeldTypes, StoredOnce, Distinct, UpTo
<1>11. Replay
  <2>1. Run(buf, 1) /\ Run(sent, 1)
    BY <1>4 DEF Run
  <2> QED BY <1>4, <1>6, <1>7, <1>8, <2>1 DEF Replay
<1> QED BY <1>2, <1>3, <1>5, <1>6, <1>9, <1>10, <1>11, TypeParts DEF IndInv

LEMMA NextInv == IndInv /\ [Next]_vars => IndInv'
<1> SUFFICES ASSUME IndInv, [Next]_vars PROVE IndInv'
  OBVIOUS
<1>1. CASE HandlerStep \/ WriterStep
  BY <1>1, HandlerKept
<1>2. ASSUME NEW a \in Attempts, ReaderStep(a) PROVE IndInv'
  BY <1>2, ReadBufferedKept, ReadSourceKept, StoreKept, ReaderEndKept DEF ReaderStep
<1>3. CASE PostStep
  BY <1>3, PostKept
<1>4. CASE UNCHANGED vars
  <2>1. /\ UNCHANGED <<size, body, cut, hpc, wpc, wired, offer, ended, werr>>
        /\ UNCHANGED <<ppc, attempt, perr, acked, refused, left>>
        /\ UNCHANGED <<rpc, held, sent, buf, readHead>>
    BY <1>4 DEF vars, writerVars, postVars, bufVars, readVars
  <2>2. ScalarTypes' /\ Flags' /\ WriterInv' /\ PostInv'
    BY <2>1, Parts DEF ScalarTypes, Flags, WriterInv, PostInv
  <2>3. wired \in Nat /\ Taken' = Taken
    BY <2>1, Parts DEF Taken
  <2>4. BufferTypes' /\ HeldTypes' /\ StoredOnce' /\ Replay'
    BY <2>1, <2>3, ReadUnchanged
  <2> QED BY <2>2, <2>4, Whole
<1> QED BY <1>1, <1>2, <1>3, <1>4 DEF Next

\* The type invariant: the replay buffer keeps to its size, and its heads to it.
THEOREM TypeCorrect == Spec => []TypeOK
<1>1. IndInv => TypeOK
  BY DEF IndInv
<1> QED BY <1>1, InitInv, NextInv, PTL DEF Spec

\* A POST that was read to its end and acknowledged held the whole response, for
\* every size of the buffer and every number of retries (bufferedReadSeeker and
\* postResponseWithRetries), unless an earlier attempt was over while its reader
\* was still at work.
THEOREM Intact == Spec => []AckedWhole
<1>1. IndInv => AckedWhole
  <2> SUFFICES ASSUME IndInv, acked, left = 0
               PROVE sent = Interval(1, wired) /\ ended /\ wired = body + 2 /\ (body = size \/ cut)
    BY DEF AckedWhole
  <2>1. rpc[attempt] = "eof" /\ wpc = "done" /\ ~werr /\ wired \in Nat /\ attempt \in Attempts
    BY Parts DEF PostInv, ScalarTypes
  <2>2. ended /\ offer = 0 /\ wired = body + 2 /\ (body = size \/ cut)
    BY <2>1, Parts DEF WriterInv
  <2>3. sent \in Seq(1 .. wired) /\ Run(sent, 1) /\ Len(sent) = wired
    BY <2>1, <2>2, Parts DEF Replay, BufferTypes, Taken
  <2> QED BY <2>1, <2>2, <2>3, RunIsInterval
<1> QED BY <1>1, InitInv, NextInv, PTL DEF Spec

\* A response that is shorter than the buffer is given up only when all retries
\* failed or the proxy refused it, even if several readers share the buffer.
THEOREM Retried == Spec => []ShortResponseRetried
<1>1. IndInv => ShortResponseRetried
  BY DEF IndInv, PostInv, ShortResponseRetried
<1> QED BY <1>1, InitInv, NextInv, PTL DEF Spec
=============================================================================
