------------------------------ MODULE Metrics ------------------------------
(***************************************************************************)
(* The agent's response counts: MetricHandler                              *)
(* (src/agent/metrics/metrics.go).                                         *)
(*                                                                         *)
(* Handlers count the status codes of their responses in the map codeCount *)
(* under a lock.  Once in a sample period the handler's own goroutine      *)
(* writes each count to Cloud Monitoring and replaces the map.  It takes   *)
(* the lock for the replacement only.                                      *)
(***************************************************************************)
EXTENDS Integers

CONSTANTS
    Codes,    \* status codes
    MaxTicks  \* bound: sample periods

ASSUME TicksAssumption == MaxTicks \in Nat

VARIABLES
    codeCount,  \* the map; a code that is not in it has count 0
    epc,        \* the goroutine: "sleep", "emit" or "reset"
    left,       \* codes its loop over the map has yet to visit
    ticks,      \* sample periods begun
    counted,    \* calls of WriteResponseCodeMetric
    late,       \* those of them made while the goroutine was not asleep
    emitted,    \* what was written to Cloud Monitoring, summed up
    failed,     \* what could not be written
    crashed     \* whether a data race has ended the agent

metricVars == <<codeCount, epc, left, ticks, counted, late, emitted, failed>>

NoCount == [c \in Codes |-> 0]

MetricsInit ==
    /\ codeCount = NoCount
    /\ epc = "sleep"
    /\ left = {}
    /\ ticks = 0
    /\ counted = NoCount
    /\ late = NoCount
    /\ emitted = NoCount
    /\ failed = NoCount
    /\ crashed = FALSE

-----------------------------------------------------------------------------
(* Defects: what some definitions below would be with a plausible mistake.  *)
(* They show that the properties at the end can fail; nothing else uses     *)
(* them.                                                                   *)

\* The counts are kept.
ResetNothing ==
    /\ epc = "reset"
    /\ epc' = "sleep"
    /\ UNCHANGED <<codeCount, left, ticks, counted, late, emitted, failed>>

-----------------------------------------------------------------------------
\* WriteResponseCodeMetric.  A loop over a map may or may not visit a code
\* that is added to the map while it runs.
WriteResponseCodeMetric(code) ==
    /\ codeCount' = [codeCount EXCEPT ![code] = @ + 1]
    /\ counted' = [counted EXCEPT ![code] = @ + 1]
    /\ late' = IF epc = "sleep" THEN late ELSE [late EXCEPT ![code] = @ + 1]
    /\ \/ UNCHANGED left
       \/ epc = "emit" /\ codeCount[code] = 0 /\ left' = left \cup {code}
    /\ UNCHANGED <<epc, ticks, emitted, failed>>

\* The ticker: emitResponseCodeMetric begins its loop.
Tick ==
    /\ epc = "sleep"
    /\ ticks < MaxTicks
    /\ ticks' = ticks + 1
    /\ epc' = "emit"
    /\ left' = {c \in Codes : codeCount[c] > 0}
    /\ UNCHANGED <<codeCount, counted, late, emitted, failed>>

\* CreateTimeSeries writes the count of a code, or fails, which is logged.
Emit(code) ==
    /\ epc = "emit"
    /\ code \in left
    /\ left' = left \ {code}
    /\ \/ /\ emitted' = [emitted EXCEPT ![code] = @ + codeCount[code]]
          /\ UNCHANGED failed
       \/ /\ failed' = [failed EXCEPT ![code] = @ + codeCount[code]]
          /\ UNCHANGED emitted
    /\ UNCHANGED <<codeCount, epc, ticks, counted, late>>

EmitDone ==
    /\ epc = "emit"
    /\ left = {}
    /\ epc' = "reset"
    /\ UNCHANGED <<codeCount, left, ticks, counted, late, emitted, failed>>

Reset ==
    /\ epc = "reset"
    /\ codeCount' = NoCount
    /\ epc' = "sleep"
    /\ UNCHANGED <<left, ticks, counted, late, emitted, failed>>

MetricsStep == Tick \/ (\E c \in Codes : Emit(c)) \/ EmitDone \/ Reset

-----------------------------------------------------------------------------
(* Properties *)

MetricsTypeOK ==
    /\ {codeCount, counted, late, emitted, failed} \subseteq [Codes -> Nat]
    /\ epc \in {"sleep", "emit", "reset"}
    /\ left \subseteq Codes
    /\ ticks \in 0 .. MaxTicks
    /\ crashed \in BOOLEAN

\* No response is reported twice, and one that is neither reported nor waiting
\* for the next report was counted while a report was being made, or its
\* report failed (metrics.go:92-95 and 206-226).
ReportedOnce ==
    epc = "sleep" =>
      \A c \in Codes :
        LET missing == counted[c] - emitted[c] - codeCount[c]
        IN  missing >= 0 /\ missing <= late[c] + failed[c]
=============================================================================
