------------------------------- MODULE Command -------------------------------
(***************************************************************************)
(* main of cmd/log-shuttle/main.go: a shuttle whose one reader is stdin,   *)
(* launched with a MetricsReporter beside it, landed when stdin has ended, *)
(* and then the end of the process, which takes every goroutine with it.   *)
(*                                                                         *)
(* Shuttle's CloseInput is here the far end of stdin: from then on reads   *)
(* end in an error.                                                        *)
(***************************************************************************)
EXTENDS Shuttle, FiniteSetsExt

CONSTANT MaxTicks  \* bound: the ticks of -stats-interval

\* os.Stdin is the one reader, and it comes through LoadReader.
ASSUME CommandAssumption ==
  /\ \E stdin \in Readers : Readers = {stdin}
  /\ Tracked = Readers
  /\ MaxTicks \in Nat

VARIABLES
  mpc,  \* main: "load", "launch", "wait", "land", "stop", "return", "exited"
  rpc, todo, ctx, lastCounts, doneCh, ticks, reported  \* of MetricsReporter

reporterVars == <<rpc, todo, ctx, lastCounts, doneCh, ticks, reported>>
commandVars  == <<vars, mpc, reporterVars>>

Metrics == {"lines.read", "lines.batched", "lines.dropped"}

\* The counters of the registry, that the readers share.
Counted(m) ==
  LET of == CASE m = "lines.read" -> read
              [] m = "lines.batched" -> linesBatched
              [] m = "lines.dropped" -> linesDropped
  IN  MapThenSumSet(LAMBDA r : of[r], Readers)

Reporter == INSTANCE MetricsReporter WITH count <- [m \in Metrics |-> Counted(m)]

-----------------------------------------------------------------------------
CommandInit ==
  /\ Init
  /\ Reporter!ReporterInit
  /\ mpc = "load"

MainGoes(from, to) == ~panicked /\ mpc = from /\ mpc' = to

\* s.LoadReader(os.Stdin).
MainLoads ==
  /\ MainGoes("load", "launch")
  /\ \E r \in Readers : LoadReader(r)
  /\ UNCHANGED reporterVars

\* s.Launch(), and the goroutine of Emit.
MainLaunches ==
  /\ MainGoes("launch", "wait")
  /\ Launch
  /\ UNCHANGED reporterVars

\* s.WaitForReadersToFinish() returns, and s.Land() is called.
MainWaits ==
  /\ MainGoes("wait", "land")
  /\ \A r \in started : pc[r]["reader"] = "done"
  /\ CallLand
  /\ UNCHANGED reporterVars

\* Mutant of LandReturned: main does not wait for Land.
LandCalled == lander # "running"

LandReturned == lander = "landed"

\* s.Land() returns.
MainLands ==
  /\ MainGoes("land", "stop")
  /\ LandReturned
  /\ UNCHANGED <<vars, reporterVars>>

\* metricsReporter.Stop().
MainStops ==
  /\ MainGoes("stop", "return")
  /\ Reporter!Stop
  /\ UNCHANGED vars

\* main returns, and does not wait for the other goroutines.
MainReturns ==
  /\ MainGoes("return", "exited")
  /\ UNCHANGED <<vars, reporterVars>>

MainStep ==
  \/ MainLoads
  \/ MainLaunches
  \/ MainWaits
  \/ MainLands
  \/ MainStops
  \/ MainReturns

\* The goroutines of the shuttle, and Land.
Shuttling(step) ==
  /\ mpc # "exited"
  /\ step
  /\ UNCHANGED <<mpc, reporterVars>>

\* The goroutine of Emit, once it has been started.
Reporting ==
  /\ mpc \notin {"load", "launch", "exited"}
  /\ ~panicked
  /\ Reporter!ReporterStep
  /\ UNCHANGED <<vars, mpc>>

Exited ==
  /\ mpc = "exited" \/ panicked
  /\ UNCHANGED commandVars

CommandNext ==
  \/ MainStep
  \/ Shuttling(Live)
  \/ Reporting
  \/ Exited

\* The fairness of Shuttle, and main is scheduled.
CommandFairness ==
  /\ \A r \in Readers :
       /\ WF_commandVars(Shuttling(ByReader(r, Reader!ReaderRuns(r))))
       /\ WF_commandVars(Shuttling(ByReader(r, Reader!ExpirerRuns(r))))
       /\ WF_commandVars(Shuttling(ByReader(r, Reader!Fire(r))))
  /\ \A o \in Outlets : WF_commandVars(Shuttling(OutletStep(o)))
  /\ WF_commandVars(Shuttling(LandStep))
  /\ WF_commandVars(MainStep)

CommandSafety == CommandInit /\ [][CommandNext]_commandVars
CommandSpec == CommandSafety /\ CommandFairness

-----------------------------------------------------------------------------
(***************************************************************************)
(* Properties                                                              *)
(***************************************************************************)
\* Every count is reported once, see MetricsReporter; and as the counts of a
\* report are taken at different moments, in any order, no line is reported as
\* batched or dropped that has not been read.
ReportsAdd ==
  /\ Reporter!ReportsAdd
  /\ reported["lines.batched"] + reported["lines.dropped"] <= Counted("lines.read")

\* The comment of Land, "ensuring that anything read is batched and delivered",
\* for the command: it does not panic, and when it exits every line that came
\* from stdin was dropped, or an outlet has tried it to the end, no goroutine
\* is cut off with a batch in its hands, and all counters have their last value.
ExitsSettled ==
  /\ ~panicked
  /\ mpc = "exited" =>
       /\ \A r \in Readers : \A n \in 1..read[r] : <<r, n>> \in Settled
       /\ \A r \in Readers : b[r] = <<>>
       /\ \A o \in Outlets : cur[o] = <<>>
       /\ Counted("lines.read") = Counted("lines.batched") + Counted("lines.dropped")

\* The process ends once stdin has, whatever the endpoint and the reporter do.
ProcessEnds == \A r \in Readers : inputClosed[r] ~> mpc = "exited"

-----------------------------------------------------------------------------
(***************************************************************************)
(* The inductive invariant                                                 *)
(***************************************************************************)
\* How far main is tells how far the shuttle is.
MainInStep ==
  /\ mpc \in {"load", "launch", "wait", "land", "stop", "return", "exited"}
  /\ mpc = "load" => loaded = {}
  /\ mpc = "launch" => loaded = Readers
  /\ mpc \in {"load", "launch"} => lander = "loading"
  /\ mpc \notin {"load", "launch"} => started = Readers
  /\ mpc = "wait" => lander = "running"
  /\ mpc = "land" => lander \in {"docking", "draining", "landed"}
  /\ mpc \in {"stop", "return", "exited"} => lander = "landed"

\* A metric that the report has still to visit is not in its line yet, and
\* between reports there is no line.
LineUnderConstruction ==
  /\ rpc # "report" => ctx = Reporter!Nothing
  /\ \A m \in todo : ctx[m] = 0

\* Inductive together with IInv of Shuttle.
CommandInv ==
  /\ ctx \in [Metrics -> Nat] /\ lastCounts \in [Metrics -> Nat]
  /\ reported \in [Metrics -> Nat] /\ todo \subseteq Metrics
  /\ MainInStep
  /\ LineUnderConstruction
  /\ Reporter!ReportsAdd
=============================================================================
