------------------------- MODULE ResponseForwarder -------------------------
(***************************************************************************)
(* How the agent sends one response to the proxy: NewResponseForwarder,    *)
(* streamingResponseWriter, bufferedReadSeeker and postResponseWithRetries *)
(* (src/agent/utils/utils.go), used by forwardRequest                      *)
(* (src/agent/agent.go).                                                   *)
(*                                                                         *)
(* The goroutine of forwardRequest runs the backend's handler, which       *)
(* writes a header and body bytes.  The writer goroutine reads them from a *)
(* pipe and writes the wire format, a header, the body and an end mark, to *)
(* a second pipe.  The post goroutine makes up to 1 + WriteRetries POSTs   *)
(* whose body is read from that pipe through a replay buffer: what it      *)
(* stores can be sent again.  A POST is read by a goroutine of             *)
(* http.Transport, the reader of that attempt.                             *)
(*                                                                         *)
(* The bytes of the wire format are numbered from 1.  The context of a     *)
(* request that was parsed from the proxy's reply is never cancelled.      *)
(***************************************************************************)
EXTENDS Integers, Sequences

CONSTANTS
    MaxBody,      \* bound: bytes of the body
    MaxWrite,     \* bound: bytes of one write of the backend's handler
    BufSize,      \* readResponseBufSize
    WriteRetries, \* maxWriteResponseRetryCount
    MaxLeft       \* bound: attempts that are over while they still have a reader

ASSUME SizesAssumption ==
    /\ MaxBody \in Nat /\ MaxWrite \in Nat \ {0} /\ BufSize \in Nat \ {0}
    /\ WriteRetries \in Nat /\ MaxLeft \in Nat

Attempts == 0 .. WriteRetries

VARIABLES
    size,        \* bytes of the body that the backend means to send
    body,        \* bytes of it that the handler has written
    cut,         \* whether the backend failed in the middle
    hpc,         \* the goroutine of forwardRequest
    wpc,         \* the writer goroutine
    wired,       \* bytes the writer has written or is writing to the second pipe
    offer,       \* how many of them are not yet read
    ended,       \* whether the end mark is one of them
    werr,        \* whether writing failed, and the first pipe is closed with that error
    ppc,         \* the post goroutine
    attempt,     \* retryCount
    perr,        \* whether postResponseWithRetries returned an error
    acked,       \* whether a POST was answered after all of it was read
    refused,     \* whether the last one was answered, and not with a 5xx status, before that
    left,        \* attempts that were over, and retried, while they still had a reader
    rpc,         \* the reader of each attempt
    held,        \* bytes that are in the buffer its Read was called with
    buf,         \* the bytes stored in bufferedReadSeeker.buf; writeHead is their number
    readHead,    \* bufferedReadSeeker.readHead
    sent         \* what the last attempt has sent

writerVars == <<wpc, wired, offer, ended, werr>>
postVars   == <<ppc, attempt, perr, acked, refused, left>>
bufVars    == <<buf, readHead>>
readVars   == <<rpc, held, sent>>
vars       == <<size, body, cut, hpc, writerVars, postVars, bufVars, readVars>>

Interval(from, to) == [k \in 1 .. to - from + 1 |-> from + k - 1]

Init ==
    /\ size \in 0 .. MaxBody
    /\ body = 0
    /\ cut = FALSE
    /\ hpc = "header"
    /\ wpc = "resp"
    /\ wired = 0
    /\ offer = 0
    /\ ended = FALSE
    /\ werr = FALSE
    /\ ppc = "calling"
    /\ attempt = 0
    /\ perr = FALSE
    /\ acked = FALSE
    /\ refused = FALSE
    /\ left = 0
    /\ rpc = [a \in Attempts |-> IF a = 0 THEN "idle" ELSE "none"]
    /\ held = [a \in Attempts |-> <<>>]
    /\ buf = <<>>
    /\ readHead = 0
    /\ sent = <<>>

-----------------------------------------------------------------------------
(* Defects: what some definitions below would be with a plausible mistake.  *)
(* They show that the properties at the end can fail; nothing else uses     *)
(* them.                                                                   *)

\* Seek compares with > as if it were enough that no byte was dropped so far.
SeekableFull == Len(buf) <= BufSize

\* Seek wants room for one byte more.
SeekableSpare == Len(buf) < BufSize - 1

\* The post goroutine does not close its end of the pipe.
ProxyReaderLeftOpen == FALSE

\* The buffer grows instead of dropping what it has no room for.
StoreAll(a) ==
    /\ rpc[a] = "store"
    /\ buf' = buf \o held[a][2]
    /\ readHead' = readHead + Len(held[a][2])
    /\ sent' = IF a = attempt THEN sent \o held[a][1] \o held[a][2] ELSE sent
    /\ held' = [held EXCEPT ![a] = <<>>]
    /\ rpc' = [rpc EXCEPT ![a] = "idle"]
    /\ UNCHANGED <<size, body, cut, hpc, writerVars, postVars>>

-----------------------------------------------------------------------------
(* The backend's handler: httputil.ReverseProxy writing to a               *)
(* streamingResponseWriter, and responseForwarder.Close                    *)

\* WriteHeader, called by Write or Close if it was not called before, gives
\* the response to the writer goroutine.
WriteHeader ==
    /\ hpc = "header"
    /\ wpc = "resp"
    /\ hpc' = "body"
    /\ wpc' = "read"
    /\ UNCHANGED <<size, body, cut, wired, offer, ended, werr, postVars, bufVars, readVars>>

\* What the writer goroutine writes next: resp.Write looks for a first byte of
\* the body before it writes the header.
Wire(n) ==
    /\ offer' = IF wired = 0 THEN n + 1 ELSE n
    /\ wired' = wired + offer'
    /\ wpc' = "write"

\* A Write goes on when the writer goroutine has read all of it.
Write(n) ==
    /\ hpc = "body"
    /\ wpc = "read"
    /\ body + n <= size
    /\ body' = body + n
    /\ Wire(n)
    /\ UNCHANGED <<size, cut, hpc, ended, werr, postVars, bufVars, readVars>>

\* The handler is done, the backend fails in the middle, or a Write fails:
\* ReverseProxy returns, and in each case Close closes the first pipe.
Close ==
    /\ hpc = "body"
    /\ hpc' = "posting"
    /\ cut' = (body # size /\ ~werr)
    /\ UNCHANGED <<size, body, writerVars, postVars, bufVars, readVars>>

\* Close waits for the error of the post goroutine, ...
ClosePosted ==
    /\ hpc = "posting"
    /\ ppc # "calling"
    /\ hpc' = IF perr THEN "failed" ELSE "writing"
    /\ UNCHANGED <<size, body, cut, writerVars, postVars, bufVars, readVars>>

\* ... and if there is none for that of the writer goroutine.
CloseWritten ==
    /\ hpc = "writing"
    /\ wpc = "done"
    /\ hpc' = IF werr THEN "failed" ELSE "ok"
    /\ UNCHANGED <<size, body, cut, writerVars, postVars, bufVars, readVars>>

-----------------------------------------------------------------------------
(* The writer goroutine *)

\* The deferred proxyReader.Close, after postErrChan is closed.
ProxyReaderClosed == ppc = "done"

\* The end of the body: the end mark is written.
WriterEOF ==
    /\ wpc = "read"
    /\ hpc \notin {"header", "body"}
    /\ ended' = TRUE
    /\ Wire(1)
    /\ UNCHANGED <<size, body, cut, hpc, werr, postVars, bufVars, readVars>>

\* A write to the second pipe fails when its reader is closed.
WriterFail ==
    /\ wpc = "write"
    /\ ProxyReaderClosed
    /\ wpc' = "done"
    /\ werr' = TRUE
    /\ UNCHANGED <<size, body, cut, hpc, wired, offer, ended, postVars, bufVars, readVars>>

-----------------------------------------------------------------------------
(* The readers of the attempts: bufferedReadSeeker.Read *)

\* Read first takes what is buffered, without giving it to its caller yet.
ReadBuffered(a) ==
    /\ rpc[a] = "idle"
    /\ held' = [held EXCEPT ![a] = <<SubSeq(buf, readHead + 1, Len(buf))>>]
    /\ readHead' = Len(buf)
    /\ rpc' = [rpc EXCEPT ![a] = "read"]
    /\ UNCHANGED <<size, body, cut, hpc, writerVars, postVars, buf, sent>>

\* It then waits for some bytes of what the writer writes.  A write that is
\* read to its end returns; after the end mark the pipe is closed.
ReadSource(a, n) ==
    /\ rpc[a] = "read"
    /\ ~ProxyReaderClosed
    /\ wpc = "write"
    /\ n <= offer
    /\ held' = [held EXCEPT ![a] = <<@[1], Interval(wired - offer + 1, wired - offer + n)>>]
    /\ offer' = offer - n
    /\ wpc' = IF n < offer THEN "write" ELSE IF ended THEN "done" ELSE "read"
    /\ rpc' = [rpc EXCEPT ![a] = "store"]
    /\ UNCHANGED <<size, body, cut, hpc, wired, ended, werr, postVars, bufVars, sent>>

\* Read stores what there is room for, moves both heads, and returns all of
\* it, which the attempt sends if it still can.
Store(a) ==
    /\ rpc[a] = "store"
    /\ LET room == BufSize - Len(buf)
           src  == held[a][2]
           kept == SubSeq(src, 1, IF room < Len(src) THEN room ELSE Len(src))
       IN  /\ buf' = buf \o kept
           /\ readHead' = readHead + Len(kept)
           /\ sent' = IF a = attempt THEN sent \o held[a][1] \o src ELSE sent
    /\ held' = [held EXCEPT ![a] = <<>>]
    /\ rpc' = [rpc EXCEPT ![a] = "idle"]
    /\ UNCHANGED <<size, body, cut, hpc, writerVars, postVars>>

\* The end of the pipe: what was buffered is returned with it.
ReadEOF(a) ==
    /\ rpc[a] = "read"
    /\ wpc = "done" /\ ~werr
    /\ sent' = IF a = attempt THEN sent \o held[a][1] ELSE sent
    /\ held' = [held EXCEPT ![a] = <<>>]
    /\ rpc' = [rpc EXCEPT ![a] = "eof"]
    /\ UNCHANGED <<size, body, cut, hpc, writerVars, postVars, bufVars>>

\* Reading ends when the pipe is closed, and when the connection of an attempt
\* that is over is closed, but not while a Read waits.
ReaderGone(a) ==
    /\ \/ rpc[a] = "idle" /\ (a # attempt \/ ppc # "calling")
       \/ rpc[a] = "read" /\ ProxyReaderClosed
    /\ held' = [held EXCEPT ![a] = <<>>]
    /\ rpc' = [rpc EXCEPT ![a] = "gone"]
    /\ UNCHANGED <<size, body, cut, hpc, writerVars, postVars, bufVars, sent>>

-----------------------------------------------------------------------------
(* The post goroutine: postResponseWithRetries *)

\* Whether Seek(0, io.SeekStart) succeeds.
Seekable == Len(buf) < BufSize

\* The next turn of the loop, or its end with the error err.
Again(err, readers) ==
    IF Seekable /\ attempt < WriteRetries
    THEN /\ attempt' = attempt + 1
         /\ readHead' = 0
         /\ sent' = <<>>
         /\ rpc' = [readers EXCEPT ![attempt + 1] = "idle"]
         /\ UNCHANGED <<ppc, perr>>
    ELSE /\ ppc' = "returned"
         /\ perr' = err
         /\ readHead' = IF Seekable THEN 0 ELSE readHead
         /\ rpc' = readers
         /\ UNCHANGED <<attempt, sent>>

\* The attempt is over, and its reader goes on.
LeaveReader ==
    /\ rpc[attempt] # "eof"
    /\ left < MaxLeft
    /\ left' = left + 1

\* client.Do fails after its reader has ended: over HTTP/1.1 http.Transport waits
\* for it before it returns an error.
PostFail ==
    /\ ppc = "calling"
    /\ rpc[attempt] \in {"idle", "eof"}
    /\ Again(TRUE, [rpc EXCEPT ![attempt] = "gone"])
    /\ UNCHANGED <<size, body, cut, hpc, writerVars, acked, refused, left, held, buf>>

\* Over HTTP/2 it waits for Close of the body only, which does nothing for a
\* reader that is not a Closer: on a timeout Read may still be waiting.
PostFailReading ==
    /\ ppc = "calling"
    /\ LeaveReader
    /\ Again(TRUE, rpc)
    /\ UNCHANGED <<size, body, cut, hpc, writerVars, acked, refused, held, buf>>

\* A status in the 500s.  It may come before the body is read, and then the
\* reader of the attempt goes on.  err is nil, also if there is no next turn.
PostRejected ==
    /\ ppc = "calling"
    /\ Again(FALSE, rpc)
    /\ \/ rpc[attempt] = "eof" /\ UNCHANGED left
       \/ LeaveReader
    /\ UNCHANGED <<size, body, cut, hpc, writerVars, acked, refused, held, buf>>

\* Another status before the body is read, of a request the proxy does not
\* know for instance.
PostRefused ==
    /\ ppc = "calling"
    /\ rpc[attempt] # "eof"
    /\ ppc' = "returned"
    /\ refused' = TRUE
    /\ UNCHANGED <<size, body, cut, hpc, writerVars, attempt, perr, acked, left, bufVars, readVars>>

\* The answer to a POST that was read to its end.
PostOK ==
    /\ ppc = "calling"
    /\ rpc[attempt] = "eof"
    /\ ppc' = "returned"
    /\ acked' = TRUE
    /\ UNCHANGED <<size, body, cut, hpc, writerVars, attempt, perr, refused, left, bufVars, readVars>>

\* The deferred functions of the post goroutine.
PostEnd ==
    /\ ppc = "returned"
    /\ ppc' = "done"
    /\ UNCHANGED <<size, body, cut, hpc, writerVars, attempt, perr, acked, refused, left, bufVars,
                   readVars>>

-----------------------------------------------------------------------------
HandlerStep ==
    WriteHeader \/ (\E n \in 1 .. MaxWrite : Write(n)) \/ Close \/ ClosePosted \/ CloseWritten

WriterStep == WriterEOF \/ WriterFail

ReaderStep(a) ==
    \/ ReadBuffered(a) \/ Store(a) \/ ReadEOF(a) \/ ReaderGone(a)
    \/ \E n \in 1 .. MaxWrite + 1 : ReadSource(a, n)

PostStep == PostFail \/ PostFailReading \/ PostRejected \/ PostRefused \/ PostOK \/ PostEnd

Next == HandlerStep \/ WriterStep \/ (\E a \in Attempts : ReaderStep(a)) \/ PostStep

Spec == Init /\ [][Next]_vars

(***************************************************************************)
(* Fairness: goroutines that can go on do; the backend ends its response;  *)
(* the connection of an attempt that is over is closed (http.Transport     *)
(* closes it 50 ms after an early answer); and a POST that was read to its *)
(* end is answered or fails.  Nothing is assumed of earlier answers or     *)
(* failures.                                                               *)
(***************************************************************************)
FairSpec ==
    /\ Spec
    /\ WF_vars(HandlerStep)
    /\ WF_vars(WriterStep)
    /\ \A a \in Attempts :
         /\ WF_vars(ReaderStep(a))
         /\ SF_vars(ReaderGone(a))
    /\ WF_vars(PostOK \/ PostFail)
    /\ WF_vars(PostEnd)

-----------------------------------------------------------------------------
(* Properties *)

TypeOK ==
    /\ size \in 0 .. MaxBody
    /\ body \in 0 .. size
    /\ cut \in BOOLEAN
    /\ hpc \in {"header", "body", "posting", "writing", "ok", "failed"}
    /\ wpc \in {"resp", "read", "write", "done"}
    /\ wired \in 0 .. size + 2
    /\ offer \in 0 .. MaxWrite + 1
    /\ ended \in BOOLEAN /\ werr \in BOOLEAN
    /\ ppc \in {"calling", "returned", "done"}
    /\ attempt \in Attempts
    /\ perr \in BOOLEAN /\ acked \in BOOLEAN /\ refused \in BOOLEAN /\ left \in 0 .. MaxLeft
    /\ rpc \in [Attempts -> {"none", "idle", "read", "store", "eof", "gone"}]
    /\ DOMAIN held = Attempts
    /\ buf \in Seq(1 .. wired) /\ Len(buf) <= BufSize
    /\ readHead \in 0 .. Len(buf)
    /\ sent \in Seq(1 .. wired)

\* When the proxy answers a POST after reading it, that POST held the wire
\* format from its first byte to the end mark, each byte once and in order,
\* whatever was lost and replayed before, and it is cut only if the backend
\* failed.  The exception is an earlier attempt whose reader was still at work
\* when the next one began, after a 5xx status that came early (utils.go:397) or
\* a timeout over HTTP/2 (utils.go:368): both then take bytes from one buffer.
AckedWhole ==
    acked /\ left = 0 =>
      /\ sent = Interval(1, wired)
      /\ ended
      /\ wired = body + 2
      /\ body = size \/ cut

\* A response that is shorter than the buffer is given up only when all
\* retries failed or the proxy refused it (utils.go:350 and 367).
ShortResponseRetried ==
    ppc = "done" /\ size + 2 < BufSize => acked \/ refused \/ attempt = WriteRetries

\* When the backend is done, responseForwarder.Close returns and no goroutine
\* is left behind, whatever the proxy answers and when (utils.go:596-655).
AllReturn ==
    <>[](/\ hpc \in {"ok", "failed"}
         /\ wpc = "done"
         /\ ppc = "done"
         /\ \A a \in Attempts : rpc[a] \in {"none", "eof", "gone"})
=============================================================================
