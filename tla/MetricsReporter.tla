--------------------------- MODULE MetricsReporter ---------------------------
(***************************************************************************)
(* metrics_reporter.go: a goroutine that at every tick logs, for each      *)
(* counter of the registry, by how much it has risen since the last time.  *)
(* It visits the counters one after the other, in the order of a map,      *)
(* while the rest of the process goes on counting.                         *)
(*                                                                         *)
(* Only counts are modelled, not the gauges, percentiles and rates of the  *)
(* same line.  A metric that is not registered yet counts 0.               *)
(***************************************************************************)
EXTENDS Naturals

CONSTANTS
  Metrics,   \* the names in the registry
  MaxTicks   \* bound: the number of ticks

VARIABLES
  count,       \* the counters, somebody else's
  rpc,         \* "new", "wait", "report", "returned"
  todo,        \* the metrics Each has still to visit in this report
  ctx,         \* the line under construction
  lastCounts,  \* the map lastCounts
  doneCh,      \* doneCh has been closed
  ticks,       \* the number of ticks so far
  reported     \* ghost: the sum of what was logged

reporterVars == <<rpc, todo, ctx, lastCounts, doneCh, ticks, reported>>

Nothing == [m \in Metrics |-> 0]

ReporterInit ==
  /\ rpc = "new"
  /\ todo = {}
  /\ ctx = Nothing
  /\ lastCounts = Nothing
  /\ doneCh = FALSE
  /\ ticks = 0
  /\ reported = Nothing

\* Emit begins, and returns at once when the interval is 0.
Begin ==
  /\ rpc = "new"
  /\ rpc' \in {"wait", "returned"}
  /\ UNCHANGED <<todo, ctx, lastCounts, doneCh, ticks, reported>>

\* The ticker ticks: emit takes a snapshot of the registry's names.
Tick ==
  /\ rpc = "wait"
  /\ ticks < MaxTicks
  /\ ticks' = ticks + 1
  /\ todo' = Metrics
  /\ rpc' = "report"
  /\ UNCHANGED <<ctx, lastCounts, doneCh, reported>>

\* Mutant of Remember: the count is not kept for the next report.
RememberNothing(m) == UNCHANGED lastCounts

Remember(m) == lastCounts' = [lastCounts EXCEPT ![m] = count[m]]

\* countDifference.
CountDifference(m) ==
  /\ rpc = "report"
  /\ m \in todo
  /\ ctx' = [ctx EXCEPT ![m] = count[m] - lastCounts[m]]
  /\ Remember(m)
  /\ todo' = todo \ {m}
  /\ UNCHANGED <<rpc, doneCh, ticks, reported>>

\* The line is logged.
Log ==
  /\ rpc = "report"
  /\ todo = {}
  /\ reported' = [m \in Metrics |-> reported[m] + ctx[m]]
  /\ ctx' = Nothing
  /\ rpc' = "wait"
  /\ UNCHANGED <<todo, lastCounts, doneCh, ticks>>

\* Stop.
Stop ==
  /\ doneCh' = TRUE
  /\ UNCHANGED <<rpc, todo, ctx, lastCounts, ticks, reported>>

\* The select finds doneCh closed: Emit returns, without a last report.
Done ==
  /\ rpc = "wait"
  /\ doneCh
  /\ rpc' = "returned"
  /\ UNCHANGED <<todo, ctx, lastCounts, doneCh, ticks, reported>>

ReporterStep ==
  \/ Begin
  \/ Tick
  \/ \E m \in Metrics : CountDifference(m)
  \/ Log
  \/ Done

-----------------------------------------------------------------------------
\* Every count is reported once: the differences logged so far, and those of
\* the report being made, add up to the count last seen, which is never ahead
\* of the counter, though the counters move while they are visited.
ReportsAdd ==
  \A m \in Metrics :
    /\ reported[m] + ctx[m] = lastCounts[m]
    /\ lastCounts[m] <= count[m]
=============================================================================
