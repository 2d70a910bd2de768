---------------------------- MODULE CommandProofs ----------------------------
(***************************************************************************)
(* Proofs about Command, for any batch size, channel, number of outlets    *)
(* and attempts, and any input.  The command is a shuttle, so what is      *)
(* proved of Shuttle holds of it; what main adds is that Land is called    *)
(* once stdin has ended and that main waits for it.  The reporter only     *)
(* reads: its lines add up because the counters never fall.                *)
(***************************************************************************)
EXTENDS Command, ShuttleProofs

-----------------------------------------------------------------------------
(***************************************************************************)
(* The shuttle in the command                                              *)
(***************************************************************************)
\* A step of the command is a step of the shuttle, or the shuttle stands still.
LEMMA CommandIsShuttle == [CommandNext]_commandVars => [Next]_vars
<1> SUFFICES ASSUME [CommandNext]_commandVars PROVE [Next]_vars
  OBVIOUS
<1>1. CASE MainStep
  BY <1>1 DEF MainStep, MainLoads, MainLaunches, MainWaits, MainLands, MainStops, MainReturns, Next
<1>2. CASE Shuttling(Live)
  BY <1>2 DEF Shuttling, Next
<1>3. CASE Reporting \/ Exited \/ UNCHANGED commandVars
  BY <1>3 DEF Reporting, Exited, commandVars
<1> QED
  BY <1>1, <1>2, <1>3 DEF CommandNext

\* What holds of the shuttle holds of the shuttle in the command.
LEMMA CommandSafe == CommandSafety => Safety
<1>1. CommandInit => Init
  BY DEF CommandInit
<1> QED
  BY <1>1, CommandIsShuttle, PTL DEF CommandSafety, Safety

-----------------------------------------------------------------------------
(***************************************************************************)
(* The counters                                                            *)
(***************************************************************************)
\* A sum over one reader is what this reader adds to it.
LEMMA SumOne ==
  ASSUME NEW F, NEW x, F[x] \in Nat
  PROVE  MapThenSumSet(LAMBDA r : F[r], {x}) = F[x]
<1> DEFINE Is(it) ==
             it = [s \in SUBSET {x} |->
                     IF s = {} THEN 0
                     ELSE F[CHOOSE y \in s : TRUE] + it[s \ {CHOOSE y \in s : TRUE}]]
           g == [s \in SUBSET {x} |-> IF s = {} THEN 0 ELSE F[x]]
           it == CHOOSE i : Is(i)
<1>1. ASSUME NEW s \in SUBSET {x}
      PROVE  g[s] = IF s = {} THEN 0
                    ELSE F[CHOOSE y \in s : TRUE] + g[s \ {CHOOSE y \in s : TRUE}]
  <2>1. CASE s = {}
    BY <2>1
  <2>2. CASE s # {}
    <3>1. (CHOOSE y \in s : TRUE) = x /\ s \ {x} = {}
      BY <2>2
    <3>2. g[{}] = 0 /\ g[s] = F[x]
      BY <2>2
    <3>3. F[x] + 0 = F[x]
      OBVIOUS
    <3> HIDE DEF g
    <3> QED
      BY <2>2, <3>1, <3>2, <3>3
  <2> QED
    BY <2>1, <2>2
<1>2. Is(g)
  <2> HIDE DEF g
  <2>1. g = [s \in SUBSET {x} |-> g[s]]
    BY DEF g
  <2> QED
    BY <1>1, <2>1
<1>3. Is(it)
  <2> HIDE DEF g, Is
  <2> QED
    BY <1>2
<1>4. it[{x}] = F[x]
  <2> HIDE DEF it
  <2>1. (CHOOSE y \in {x} : TRUE) = x /\ {x} \ {x} = {} /\ {x} # {}
    OBVIOUS
  <2>2. it[{}] = 0
    BY <1>3
  <2>3. it[{x}] = F[x] + it[{}]
    BY <1>3, <2>1
  <2> QED
    BY <2>2, <2>3
<1>5. MapThenSumSet(LAMBDA r : F[r], {x}) = it[{x}]
  BY DEF MapThenSumSet, MapThenFoldSet
<1> QED
  BY <1>4, <1>5

\* The counters of the registry are those of stdin's reader.
LEMMA CountedIs ==
  ASSUME NEW stdin, Readers = {stdin}, read[stdin] \in Nat, linesBatched[stdin] \in Nat,
         linesDropped[stdin] \in Nat
  PROVE  /\ Counted("lines.read") = read[stdin]
         /\ Counted("lines.batched") = linesBatched[stdin]
         /\ Counted("lines.dropped") = linesDropped[stdin]
<1>1. Counted("lines.read") = MapThenSumSet(LAMBDA r : read[r], {stdin})
  BY DEF Counted, MapThenSumSet, MapThenFoldSet
<1>2. Counted("lines.batched") = MapThenSumSet(LAMBDA r : linesBatched[r], {stdin})
  BY DEF Counted, MapThenSumSet, MapThenFoldSet
<1>3. Counted("lines.dropped") = MapThenSumSet(LAMBDA r : linesDropped[r], {stdin})
  BY DEF Counted, MapThenSumSet, MapThenFoldSet
<1> QED
  BY <1>1, <1>2, <1>3, SumOne

\* The same after a step.
LEMMA CountedIsNext ==
  ASSUME NEW stdin, Readers = {stdin}, read'[stdin] \in Nat, linesBatched'[stdin] \in Nat,
         linesDropped'[stdin] \in Nat
  PROVE  /\ Counted("lines.read")' = read'[stdin]
         /\ Counted("lines.batched")' = linesBatched'[stdin]
         /\ Counted("lines.dropped")' = linesDropped'[stdin]
<1>1. Counted("lines.read")' = MapThenSumSet(LAMBDA r : read'[r], {stdin})
  BY DEF Counted, MapThenSumSet, MapThenFoldSet
<1>2. Counted("lines.batched")' = MapThenSumSet(LAMBDA r : linesBatched'[r], {stdin})
  BY DEF Counted, MapThenSumSet, MapThenFoldSet
<1>3. Counted("lines.dropped")' = MapThenSumSet(LAMBDA r : linesDropped'[r], {stdin})
  BY DEF Counted, MapThenSumSet, MapThenFoldSet
<1> QED
  BY <1>1, <1>2, <1>3, SumOne

\* A reader's counters are numbers.
LEMMA CountsType ==
  ASSUME IInv, NEW r \in Readers
  PROVE  read[r] \in Nat /\ linesBatched[r] \in Nat /\ linesDropped[r] \in Nat
<1>1. /\ read \in [Readers -> 0..MaxLines] /\ linesBatched \in [Readers -> Nat]
      /\ linesDropped \in [Readers -> Nat]
  BY DEF IInv, Reader!IInv, Reader!CoreInv, Reader!TypeOK
<1> QED
  BY <1>1, ShuttleAssumption

\* No counter of a reader ever falls.
LEMMA CountsRise ==
  ASSUME IInv, NEW r \in Readers, [Next]_vars
  PROVE  /\ read'[r] >= read[r]
         /\ linesBatched'[r] >= linesBatched[r]
         /\ linesDropped'[r] >= linesDropped[r]
<1>1. /\ read \in [Readers -> 0..MaxLines] /\ linesBatched \in [Readers -> Nat]
      /\ linesDropped \in [Readers -> Nat] /\ b \in [Readers -> Seq(Reader!Line)]
      /\ MaxLines \in Nat
  BY ShuttleAssumption DEF IInv, Reader!IInv, Reader!CoreInv, Reader!TypeOK
<1>2. CASE UNCHANGED <<read, linesBatched, linesDropped>>
  BY <1>1, <1>2
<1>3. ASSUME NEW q \in Readers, Reader!ReadBytes(q)
      PROVE  /\ read'[r] >= read[r]
             /\ linesBatched'[r] >= linesBatched[r]
             /\ linesDropped'[r] >= linesDropped[r]
  BY <1>1, <1>3 DEF Reader!ReadBytes, Reader!statVars
<1>4. ASSUME NEW q \in Readers, NEW w, Reader!Settle(q, w)
      PROVE  /\ read'[r] >= read[r]
             /\ linesBatched'[r] >= linesBatched[r]
             /\ linesDropped'[r] >= linesDropped[r]
  <2>1. Len(b[q]) \in Nat
    BY <1>1
  <2>2. read' = read
    BY <1>4 DEF Reader!Settle
  <2>3. \/ linesBatched' = [linesBatched EXCEPT ![q] = @ + Len(b[q])] /\ linesDropped' = linesDropped
        \/ linesDropped' = [linesDropped EXCEPT ![q] = @ + Len(b[q])] /\ linesBatched' = linesBatched
    BY <1>4 DEF Reader!Settle, Reader!CountDropped
  <2>4. /\ linesBatched'[r] \in {linesBatched[r], linesBatched[r] + Len(b[q])}
        /\ linesDropped'[r] \in {linesDropped[r], linesDropped[r] + Len(b[q])}
    BY <1>1, <2>3
  <2>5. read[r] \in Nat /\ linesBatched[r] \in Nat /\ linesDropped[r] \in Nat
    BY <1>1
  <2> QED
    BY <2>1, <2>2, <2>4, <2>5
<1>5. ASSUME NEW q \in Readers, Reader!ReaderStep(q)
      PROVE  \/ Reader!ReadBytes(q)
             \/ \E w \in Reader!Who : Reader!Settle(q, w)
             \/ UNCHANGED <<read, linesBatched, linesDropped>>
  BY <1>5 DEF Reader!ReaderStep, Reader!ExpirerRuns, Reader!Deliver, Reader!ReadErr, Reader!AddLine,
     Reader!Flush, Reader!CloseStop, Reader!Enqueue, Reader!DropBatch, Reader!Tick, Reader!Expire,
     Reader!Exit, Reader!Fire, Reader!CloseInput, Reader!readerVars, Reader!statVars, Reader!Who
<1>6. ASSUME NEW q \in Readers, ReaderStep(q)
      PROVE  /\ read'[r] >= read[r]
             /\ linesBatched'[r] >= linesBatched[r]
             /\ linesDropped'[r] >= linesDropped[r]
  BY <1>2, <1>3, <1>4, <1>5, <1>6 DEF ReaderStep, ByReader
<1>7. \/ \E q \in Readers : ReaderStep(q)
      \/ UNCHANGED <<read, linesBatched, linesDropped>>
  BY DEF Next, Live, Panic, OutletStep, LandStep, CloseReader, CloseBatches, Landed, LoadReader,
     Launch, CallLand, Terminated, vars, readerVars, Reader!CloseInput, Reader!statVars
<1> QED
  BY <1>2, <1>6, <1>7
-----------------------------------------------------------------------------
(***************************************************************************)
(* The reports                                                             *)
(***************************************************************************)
\* The counters that the reporter visits, before and after any step.
LEMMA CountedRises ==
  ASSUME IInv, IInv', [Next]_vars
  PROVE  \A m \in Metrics : Counted(m) \in Nat /\ Counted(m)' \in Nat /\ Counted(m)' >= Counted(m)
<1>1. PICK stdin \in Readers : Readers = {stdin}
  BY CommandAssumption
<1>2. /\ read[stdin] \in Nat /\ linesBatched[stdin] \in Nat /\ linesDropped[stdin] \in Nat
      /\ read'[stdin] \in Nat /\ linesBatched'[stdin] \in Nat /\ linesDropped'[stdin] \in Nat
  <2>1. /\ read' \in [Readers -> 0..MaxLines] /\ linesBatched' \in [Readers -> Nat]
        /\ linesDropped' \in [Readers -> Nat]
    BY DEF IInv, Reader!IInv, Reader!CoreInv, Reader!TypeOK
  <2> QED
    BY <2>1, CountsType, ShuttleAssumption
<1>3. /\ read'[stdin] >= read[stdin] /\ linesBatched'[stdin] >= linesBatched[stdin]
      /\ linesDropped'[stdin] >= linesDropped[stdin]
  BY CountsRise
<1>4. /\ Counted("lines.read") = read[stdin] /\ Counted("lines.read")' = read'[stdin]
      /\ Counted("lines.batched") = linesBatched[stdin]
      /\ Counted("lines.batched")' = linesBatched'[stdin]
      /\ Counted("lines.dropped") = linesDropped[stdin]
      /\ Counted("lines.dropped")' = linesDropped'[stdin]
  BY <1>1, <1>2, CountedIs, CountedIsNext
<1> QED
  BY <1>2, <1>3, <1>4 DEF Metrics

\* The reporter stands still while the counters rise.
LEMMA SilentStep ==
  ASSUME IInv, IInv', CommandInv, [Next]_vars, UNCHANGED <<rpc, todo, ctx, lastCounts, reported>>
  PROVE  Reporter!ReportsAdd' /\ LineUnderConstruction'
<1>1. \A m \in Metrics : reported[m] + ctx[m] = lastCounts[m] /\ lastCounts[m] <= Counted(m)
  BY DEF CommandInv, Reporter!ReportsAdd
<1>2. \A m \in Metrics : lastCounts[m] <= Counted(m)'
  <2>1. \A m \in Metrics : lastCounts[m] \in Nat
    BY DEF CommandInv
  <2> QED
    BY <1>1, <2>1, CountedRises
<1>3. Reporter!ReportsAdd'
  BY <1>1, <1>2 DEF Reporter!ReportsAdd
<1>4. LineUnderConstruction'
  BY DEF CommandInv, LineUnderConstruction
<1> QED
  BY <1>3, <1>4

\* A step of the reporter, while the counters stand still.
LEMMA ReportingStep ==
  ASSUME IInv, IInv', CommandInv, Reporter!ReporterStep, UNCHANGED vars
  PROVE  /\ ctx' \in [Metrics -> Nat] /\ lastCounts' \in [Metrics -> Nat]
         /\ reported' \in [Metrics -> Nat] /\ todo' \subseteq Metrics
         /\ LineUnderConstruction'
         /\ Reporter!ReportsAdd'
<1>1. /\ ctx \in [Metrics -> Nat] /\ lastCounts \in [Metrics -> Nat]
      /\ reported \in [Metrics -> Nat] /\ todo \subseteq Metrics
      /\ rpc # "report" => ctx = Reporter!Nothing
      /\ \A m \in todo : ctx[m] = 0
      /\ \A m \in Metrics : reported[m] + ctx[m] = lastCounts[m] /\ lastCounts[m] <= Counted(m)
  BY DEF CommandInv, LineUnderConstruction, Reporter!ReportsAdd
<1>2. \A m \in Metrics : Counted(m) \in Nat /\ Counted(m)' = Counted(m)
  <2>1. \A m \in Metrics : Counted(m)' = Counted(m)
    BY DEF Counted, MapThenSumSet, MapThenFoldSet, vars, readerVars
  <2> QED
    BY <2>1, CountedRises
<1>3. CASE Reporter!Begin \/ Reporter!Done
  <2>1. UNCHANGED <<todo, ctx, lastCounts, reported>> /\ rpc # "report" /\ rpc' # "report"
    BY <1>3 DEF Reporter!Begin, Reporter!Done
  <2> QED
    BY <1>1, <1>2, <2>1 DEF LineUnderConstruction, Reporter!ReportsAdd
<1>4. CASE Reporter!Tick
  <2>1. UNCHANGED <<ctx, lastCounts, reported>> /\ todo' = Metrics /\ rpc' = "report"
        /\ ctx = Reporter!Nothing
    BY <1>1, <1>4 DEF Reporter!Tick
  <2> QED
    BY <1>1, <1>2, <2>1 DEF LineUnderConstruction, Reporter!ReportsAdd, Reporter!Nothing
<1>5. ASSUME NEW m \in Metrics, Reporter!CountDifference(m)
      PROVE  /\ ctx' \in [Metrics -> Nat] /\ lastCounts' \in [Metrics -> Nat]
             /\ reported' \in [Metrics -> Nat] /\ todo' \subseteq Metrics
             /\ LineUnderConstruction'
             /\ Reporter!ReportsAdd'
  <2> DEFINE c == Counted(m)
  <2>1. /\ rpc = "report" /\ rpc' = rpc /\ m \in todo /\ todo' = todo \ {m}
        /\ ctx' = [ctx EXCEPT ![m] = c - lastCounts[m]]
        /\ lastCounts' = [lastCounts EXCEPT ![m] = c] /\ reported' = reported
    BY <1>5 DEF Reporter!CountDifference, Reporter!Remember
  <2>2. ctx[m] = 0 /\ reported[m] = lastCounts[m] /\ c \in Nat /\ lastCounts[m] <= c
    BY <1>1, <1>2, <2>1
  <2>3. c - lastCounts[m] \in Nat /\ reported[m] + (c - lastCounts[m]) = c
    <3>1. lastCounts[m] \in Nat
      BY <1>1
    <3> HIDE DEF c
    <3> QED
      BY <2>2, <3>1
  <2>4. Counted(m)' = c
    BY <1>2
  <2> HIDE DEF c
  <2>5. /\ ctx'[m] = c - lastCounts[m] /\ lastCounts'[m] = c
        /\ \A n \in Metrics : n # m => ctx'[n] = ctx[n] /\ lastCounts'[n] = lastCounts[n]
    BY <1>1, <2>1
  <2>6. ctx' \in [Metrics -> Nat] /\ lastCounts' \in [Metrics -> Nat]
    BY <1>1, <2>1, <2>2, <2>3
  <2>7. LineUnderConstruction'
    BY <1>1, <2>1, <2>5 DEF LineUnderConstruction
  <2>8. \A n \in Metrics : reported'[n] + ctx'[n] = lastCounts'[n] /\ lastCounts'[n] <= Counted(n)'
    <3>1. \A n \in Metrics : n # m =>
            reported'[n] + ctx'[n] = lastCounts'[n] /\ lastCounts'[n] <= Counted(n)'
      BY <1>1, <1>2, <2>1, <2>5
    <3>2. reported'[m] + ctx'[m] = lastCounts'[m] /\ lastCounts'[m] <= Counted(m)'
      BY <2>1, <2>2, <2>3, <2>4, <2>5
    <3> QED
      BY <3>1, <3>2
  <2>9. Reporter!ReportsAdd'
    BY <2>8 DEF Reporter!ReportsAdd
  <2> QED
    BY <1>1, <2>1, <2>6, <2>7, <2>9
<1>6. CASE Reporter!Log
  <2>1. /\ reported' = [m \in Metrics |-> reported[m] + ctx[m]]
        /\ ctx' = Reporter!Nothing /\ UNCHANGED <<todo, lastCounts>>
    BY <1>6 DEF Reporter!Log
  <2>2. \A m \in Metrics : ctx'[m] = 0 /\ reported'[m] + 0 = lastCounts'[m] /\ reported'[m] \in Nat
    BY <1>1, <2>1 DEF Reporter!Nothing
  <2>3. ctx' \in [Metrics -> Nat] /\ reported' \in [Metrics -> Nat]
    BY <2>1, <2>2 DEF Reporter!Nothing
  <2> QED
    BY <1>1, <1>2, <2>1, <2>2, <2>3 DEF LineUnderConstruction, Reporter!ReportsAdd
<1> QED
  BY <1>3, <1>4, <1>5, <1>6 DEF Reporter!ReporterStep

-----------------------------------------------------------------------------
(***************************************************************************)
(* main                                                                    *)
(***************************************************************************)
\* What the goroutines of the shuttle leave alone of its life.
LEMMA LiveFrame ==
  ASSUME Live
  PROVE  /\ UNCHANGED <<loaded, started>>
         /\ \/ lander' = lander
            \/ lander \in {"docking", "draining"} /\ lander' \in {"draining", "landed"}
BY DEF Live, ReaderStep, ByReader, Panic, OutletStep, LandStep, CloseReader, CloseBatches, Landed,
   lifeVars

\* main and the shuttle stay in step.
LEMMA MainStays ==
  ASSUME CommandInv, [CommandNext]_commandVars
  PROVE  MainInStep'
<1> USE DEF CommandInv, MainInStep
<1>1. CASE MainLoads
  <2>1. PICK r \in Readers : LoadReader(r)
    BY <1>1 DEF MainLoads
  <2>2. loaded' = Readers
    <3>1. loaded = {} /\ loaded' = loaded \cup {r}
      BY <1>1, <2>1 DEF MainLoads, MainGoes, LoadReader
    <3> QED
      BY <3>1, CommandAssumption
  <2> QED
    BY <1>1, <2>1, <2>2 DEF MainLoads, MainGoes, LoadReader
<1>2. CASE MainLaunches
  BY <1>2 DEF MainLaunches, MainGoes, Launch
<1>3. CASE MainWaits
  BY <1>3 DEF MainWaits, MainGoes, CallLand
<1>4. CASE MainLands
  BY <1>4 DEF MainLands, MainGoes, LandReturned, vars, lifeVars
<1>5. CASE MainStops \/ MainReturns
  BY <1>5 DEF MainStops, MainReturns, MainGoes, vars, lifeVars
<1>6. CASE Shuttling(Live)
  BY <1>6, LiveFrame DEF Shuttling
<1>7. CASE Reporting \/ Exited \/ UNCHANGED commandVars
  BY <1>7 DEF Reporting, Exited, commandVars, vars, lifeVars
<1> QED
  BY <1>1, <1>2, <1>3, <1>4, <1>5, <1>6, <1>7 DEF CommandNext, MainStep

\* Only a step of the reporter, and its Stop, change the reporter.
LEMMA CommandSteps ==
  ASSUME [CommandNext]_commandVars
  PROVE  \/ Reporter!ReporterStep /\ UNCHANGED vars
         \/ UNCHANGED <<rpc, todo, ctx, lastCounts, reported>>
BY DEF CommandNext, MainStep, MainLoads, MainLaunches, MainWaits, MainLands, MainStops, MainReturns,
   Shuttling, Reporting, Exited, commandVars, reporterVars, Reporter!Stop

\* The invariant of the command holds at the start.
LEMMA InitCommandInv == CommandInit => CommandInv
<1> SUFFICES ASSUME CommandInit PROVE CommandInv
  OBVIOUS
<1>1. /\ mpc = "load" /\ loaded = {} /\ lander = "loading" /\ Init
      /\ rpc = "new" /\ todo = {} /\ ctx = Reporter!Nothing /\ lastCounts = Reporter!Nothing
      /\ reported = Reporter!Nothing
  BY DEF CommandInit, Init, Reporter!ReporterInit
<1>2. \A m \in Metrics : Counted(m) \in Nat
  <2>1. PICK stdin \in Readers : Readers = {stdin}
    BY CommandAssumption
  <2>2. read[stdin] \in Nat /\ linesBatched[stdin] \in Nat /\ linesDropped[stdin] \in Nat
    BY <1>1, InitInv, SameIInv, CountsType
  <2> QED
    BY <2>1, <2>2, CountedIs DEF Metrics
<1>3. Reporter!ReportsAdd
  BY <1>1, <1>2 DEF Reporter!ReportsAdd, Reporter!Nothing
<1> QED
  BY <1>1, <1>3 DEF CommandInv, MainInStep, LineUnderConstruction, Reporter!Nothing

\* The invariant of the command holds after every step.
LEMMA NextCommandInv == IInv /\ IInv' /\ CommandInv /\ [CommandNext]_commandVars => CommandInv'
<1> SUFFICES ASSUME IInv, IInv', CommandInv, [CommandNext]_commandVars PROVE CommandInv'
  OBVIOUS
<1>1. MainInStep'
  BY MainStays
<1>2. CASE Reporter!ReporterStep /\ UNCHANGED vars
  BY <1>1, <1>2, ReportingStep DEF CommandInv
<1>3. CASE UNCHANGED <<rpc, todo, ctx, lastCounts, reported>>
  BY <1>1, <1>3, CommandIsShuttle, SilentStep DEF CommandInv
<1> QED
  BY <1>2, <1>3, CommandSteps

\* The invariants of the shuttle and of the command hold in every behaviour of
\* the command.
THEOREM CommandInvariance == CommandSafety => [](IInv /\ CommandInv)
<1>1. CommandSafety => []IInv
  BY CommandSafe, Invariance, PTL
<1> QED
  BY <1>1, InitCommandInv, NextCommandInv, PTL DEF CommandSafety

\* Whatever the reader does while the registry is visited, every count is
\* reported once, and no line is reported as batched or dropped that has not
\* been read.
THEOREM ReportsAddUp == CommandSafety => []ReportsAdd
<1>1. IInv /\ CommandInv => ReportsAdd
  <2> SUFFICES ASSUME IInv, CommandInv PROVE ReportsAdd
    OBVIOUS
  <2>1. PICK stdin \in Readers : Readers = {stdin}
    BY CommandAssumption
  <2>2. read[stdin] \in Nat /\ linesBatched[stdin] \in Nat /\ linesDropped[stdin] \in Nat
    BY CountsType
  <2>3. /\ Counted("lines.read") = read[stdin]
        /\ Counted("lines.batched") = linesBatched[stdin]
        /\ Counted("lines.dropped") = linesDropped[stdin]
    BY <2>1, <2>2, CountedIs
  <2>4. linesBatched[stdin] + linesDropped[stdin] <= read[stdin]
    <3>1. /\ read[stdin] = linesBatched[stdin] + linesDropped[stdin] + Len(b[stdin])
                             + Reader!Pending(stdin)
          /\ b \in [Readers -> Seq(Reader!Line)]
      BY DEF IInv, Reader!IInv, Reader!CoreInv, Reader!LinesAccounted, Reader!TypeOK
    <3>2. Len(b[stdin]) \in Nat /\ Reader!Pending(stdin) \in Nat
      BY <3>1 DEF Reader!Pending
    <3> QED
      BY <2>2, <3>1, <3>2
  <2>5. \A m \in Metrics : /\ reported[m] \in Nat /\ ctx[m] \in Nat /\ lastCounts[m] \in Nat
                           /\ reported[m] + ctx[m] = lastCounts[m]
                           /\ lastCounts[m] <= Counted(m)
    BY DEF CommandInv, Reporter!ReportsAdd
  <2>6. /\ reported["lines.batched"] \in Nat /\ reported["lines.dropped"] \in Nat
        /\ reported["lines.batched"] <= linesBatched[stdin]
        /\ reported["lines.dropped"] <= linesDropped[stdin]
    BY <2>2, <2>3, <2>5 DEF Metrics
  <2> QED
    BY <2>2, <2>3, <2>4, <2>6 DEF ReportsAdd, CommandInv
<1> QED
  BY <1>1, CommandInvariance, PTL

\* Whenever the process exits, each line that came from stdin was dropped, or an
\* outlet has tried it to the end, no goroutine holds a batch and the counters
\* have their last value; and it never panics.
THEOREM ExitIsClean == ASSUME Outlets # {} PROVE CommandSafety => []ExitsSettled
<1>1. IInv /\ CommandInv /\ LandedSettled => ExitsSettled
  <2> SUFFICES ASSUME IInv, CommandInv, LandedSettled PROVE ExitsSettled
    OBVIOUS
  <2>1. ~panicked
    BY CommandAssumption DEF IInv, Stages, PanicsOnlyUntracked
  <2> SUFFICES ASSUME mpc = "exited"
               PROVE  /\ \A r \in Readers : \A n \in 1..read[r] : <<r, n>> \in Settled
                      /\ \A r \in Readers : b[r] = <<>>
                      /\ \A o \in Outlets : cur[o] = <<>>
                      /\ Counted("lines.read") = Counted("lines.batched") + Counted("lines.dropped")
    BY <2>1 DEF ExitsSettled
  <2>2. lander = "landed" /\ started = Readers
    BY DEF CommandInv, MainInStep
  <2>3. \A r \in Readers : \A n \in 1..read[r] : <<r, n>> \in Settled
    BY <2>2, CommandAssumption DEF LandedSettled
  <2>4. \A r \in Readers : pc[r]["reader"] = "done"
    BY <2>2 DEF IInv, Stages
  <2>5. \A r \in Readers : b[r] = <<>>
    BY <2>4 DEF IInv, Reader!IInv, Reader!CoreInv, Reader!Emptied
  <2>6. \A o \in Outlets : cur[o] = <<>>
    BY <2>2 DEF IInv, Stages, Outlet!IInv, Outlet!HandsEmpty
  <2>7. Counted("lines.read") = Counted("lines.batched") + Counted("lines.dropped")
    <3>1. PICK stdin \in Readers : Readers = {stdin}
      BY CommandAssumption
    <3>2. read[stdin] \in Nat /\ linesBatched[stdin] \in Nat /\ linesDropped[stdin] \in Nat
      BY CountsType
    <3>3. read[stdin] = linesBatched[stdin] + linesDropped[stdin] + Len(b[stdin])
                          + Reader!Pending(stdin)
      BY DEF IInv, Reader!IInv, Reader!CoreInv, Reader!LinesAccounted
    <3>4. Len(b[stdin]) = 0 /\ Reader!Pending(stdin) = 0
      BY <2>4, <2>5 DEF Reader!Pending
    <3> QED
      BY <3>1, <3>2, <3>3, <3>4, CountedIs
  <2> QED
    BY <2>3, <2>5, <2>6, <2>7
<1>2. CommandSafety => []LandedSettled
  BY CommandSafe, LandsSettled, PTL
<1> QED
  BY <1>1, <1>2, CommandInvariance, PTL
=============================================================================
