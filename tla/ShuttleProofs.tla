---------------------------- MODULE ShuttleProofs ----------------------------
(***************************************************************************)
(* Proofs about the composition.  The components' own proofs are taken as  *)
(* they are, through INSTANCE: a reader's step keeps the readers'          *)
(* invariant, an outlet's step the outlets'.  What is left to prove is     *)
(* where the two meet: a batch that arrives is new to the outlets because  *)
(* the readers send each line once; an outlet that takes a batch or resets *)
(* Drops is something the readers' invariant survives; and Land closes the *)
(* channel when no tracked reader can send any more.                       *)
(*                                                                         *)
(* Shuttle instantiates LogLineReader and HTTPOutlet themselves (Reader,   *)
(* Outlet), the proofs the modules that extend them (ReaderP, OutletP):    *)
(* the lemmas Same... say that the definitions are the same.               *)
(***************************************************************************)
EXTENDS Shuttle, TLAPS

ReaderP == INSTANCE LogLineReaderProofs
OutletP == INSTANCE HTTPOutletProofs WITH Feed <- <<>>, fed <- 0

\* The readers' invariant, by either name.
LEMMA SameReaderIInv == Reader!IInv <=> ReaderP!IInv
<1>1. Reader!QueuedSent <=> ReaderP!QueuedSent
  BY DEF Reader!QueuedSent, Reader!Lines, ReaderP!QueuedSent, ReaderP!Lines
<1>2. Reader!QueueInOrder <=> ReaderP!QueueInOrder
  BY Zenon DEF Reader!QueueInOrder, Reader!Lines, Reader!Sent, Reader!Before, Reader!Who,
     ReaderP!QueueInOrder, ReaderP!Lines, ReaderP!Sent, ReaderP!Before, ReaderP!Who
<1>3. Reader!UncountedDropped <=> ReaderP!UncountedDropped
  BY Zenon DEF Reader!UncountedDropped, Reader!Uncounted, Reader!Lines, Reader!Who,
     Reader!IsFiniteSet, ReaderP!UncountedDropped, ReaderP!Uncounted, ReaderP!Lines,
     ReaderP!Who, ReaderP!IsFiniteSet
<1>4. Reader!DropsReported <=> ReaderP!DropsReported
  BY DEF Reader!DropsReported, Reader!Uncounted, Reader!Lines, Reader!Who,
     Reader!Cardinality, ReaderP!DropsReported, ReaderP!Uncounted, ReaderP!Lines,
     ReaderP!Who, ReaderP!Cardinality
<1>5. Reader!TypeOK <=> ReaderP!TypeOK
  BY DEF Reader!TypeOK, Reader!Who, Reader!ReaderLoc, Reader!ExpirerLoc,
     Reader!Delivering, Reader!Line, Reader!CounterType, ReaderP!TypeOK, ReaderP!Who,
     ReaderP!ReaderLoc, ReaderP!ExpirerLoc, ReaderP!Delivering, ReaderP!Line,
     ReaderP!CounterType
<1>6. Reader!MuHeldOnce <=> ReaderP!MuHeldOnce
  BY DEF Reader!MuHeldOnce, Reader!Delivering, Reader!MuFree, Reader!Who,
     ReaderP!MuHeldOnce, ReaderP!Delivering, ReaderP!MuFree, ReaderP!Who
<1>7. Reader!Contiguous <=> ReaderP!Contiguous
  BY DEF Reader!Contiguous, Reader!LastAdded, Reader!Pending, ReaderP!Contiguous,
     ReaderP!LastAdded, ReaderP!Pending
<1>8. Reader!NotFull <=> ReaderP!NotFull
  BY DEF Reader!NotFull, Reader!MuFree, Reader!Who, Reader!Delivering, ReaderP!NotFull,
     ReaderP!MuFree, ReaderP!Who, ReaderP!Delivering
<1>9. Reader!Emptied <=> ReaderP!Emptied
  BY DEF Reader!Emptied, ReaderP!Emptied
<1>10. Reader!NoStrandedBatch <=> ReaderP!NoStrandedBatch
  BY DEF Reader!NoStrandedBatch, Reader!MuFree, Reader!Who, Reader!Delivering,
     ReaderP!NoStrandedBatch, ReaderP!MuFree, ReaderP!Who, ReaderP!Delivering
<1>11. Reader!LinesAccounted <=> ReaderP!LinesAccounted
  BY DEF Reader!LinesAccounted, Reader!Pending, ReaderP!LinesAccounted, ReaderP!Pending
<1>12. Reader!SettledOnce <=> ReaderP!SettledOnce
  BY DEF Reader!SettledOnce, Reader!LinesOf, Reader!LastSettled, Reader!LastAdded,
     Reader!Pending, Reader!Sent, Reader!Who, ReaderP!SettledOnce, ReaderP!LinesOf,
     ReaderP!LastSettled, ReaderP!LastAdded, ReaderP!Pending, ReaderP!Sent, ReaderP!Who
<1> QED
  BY <1>1, <1>2, <1>3, <1>4, <1>5, <1>6, <1>7, <1>8, <1>9, <1>10, <1>11, <1>12
     DEF Reader!IInv, ReaderP!IInv, Reader!CoreInv, ReaderP!CoreInv

\* A step of a reader, by either name.
LEMMA SameReaderStep ==
  ASSUME NEW r
  PROVE  /\ Reader!ReaderStep(r) <=> ReaderP!ReaderStep(r)
         /\ Reader!CloseInput(r) <=> ReaderP!CloseInput(r)
BY DEF Reader!ReaderStep, Reader!ReadBytes, Reader!ReadErr, Reader!AddLine,
   Reader!Flush, Reader!CloseStop, Reader!Deliver, Reader!ExpirerRuns, Reader!Fire,
   Reader!CloseInput, Reader!Enqueue, Reader!DropBatch, Reader!Settle, Reader!Tick,
   Reader!Expire, Reader!Exit, Reader!Closed, Reader!FlushTo, Reader!CountDropped,
   Reader!Add, Reader!IsFull, Reader!NeedsTimer, Reader!MuFree, Reader!Goto,
   Reader!StopTimer, Reader!ResetTimer, Reader!Lines, Reader!Delivering,
   Reader!readerVars, Reader!statVars, Reader!chanVars, Reader!Who, ReaderP!ReaderStep,
   ReaderP!ReadBytes, ReaderP!ReadErr, ReaderP!AddLine, ReaderP!Flush,
   ReaderP!CloseStop, ReaderP!Deliver, ReaderP!ExpirerRuns, ReaderP!Fire,
   ReaderP!CloseInput, ReaderP!Enqueue, ReaderP!DropBatch, ReaderP!Settle, ReaderP!Tick,
   ReaderP!Expire, ReaderP!Exit, ReaderP!Closed, ReaderP!FlushTo, ReaderP!CountDropped,
   ReaderP!Add, ReaderP!IsFull, ReaderP!NeedsTimer, ReaderP!MuFree, ReaderP!Goto,
   ReaderP!StopTimer, ReaderP!ResetTimer, ReaderP!Lines, ReaderP!Delivering,
   ReaderP!readerVars, ReaderP!statVars, ReaderP!chanVars, ReaderP!Who

\* The initial states.
LEMMA SameReaderInit == Reader!Init <=> ReaderP!Init
BY DEF Reader!Init, Reader!Who, Reader!NewCounter, ReaderP!Init, ReaderP!Who,
   ReaderP!NewCounter

\* The outlets' invariant.
LEMMA SameOutletIInv == Outlet!IInv <=> OutletP!IInv
<1>1. Outlet!TypeOK <=> OutletP!TypeOK
  BY DEF Outlet!TypeOK, Outlet!Counts, Outlet!CounterType, OutletP!TypeOK, OutletP!Counts,
     OutletP!CounterType
<1>2. Outlet!OneOutcome <=> OutletP!OneOutcome
  BY DEF Outlet!OneOutcome, Outlet!Queued, Outlet!Holding, Outlet!Lines,
     OutletP!OneOutcome, OutletP!Queued, OutletP!Holding, OutletP!Lines
<1>3. Outlet!HandsEmpty <=> OutletP!HandsEmpty
  BY DEF Outlet!HandsEmpty, OutletP!HandsEmpty
<1>4. Outlet!Apart <=> OutletP!Apart
  BY DEF Outlet!Apart, Outlet!Lines, OutletP!Apart, OutletP!Lines
<1>5. Outlet!StoredWhenPosted <=> OutletP!StoredWhenPosted
  BY DEF Outlet!StoredWhenPosted, Outlet!Lines, Outlet!Tried, Outlet!Holding,
     Outlet!Ended, OutletP!StoredWhenPosted, OutletP!Lines, OutletP!Tried,
     OutletP!Holding, OutletP!Ended
<1>6. Outlet!FeedNew <=> OutletP!FeedNew
  BY DEF Outlet!FeedNew, Outlet!Lines, Outlet!Seen, Outlet!Queued, Outlet!Holding,
     Outlet!Ended, OutletP!FeedNew, OutletP!Lines, OutletP!Seen, OutletP!Queued,
     OutletP!Holding, OutletP!Ended
<1> QED
  BY <1>1, <1>2, <1>3, <1>4, <1>5, <1>6
     DEF Outlet!IInv, OutletP!IInv

\* A step of an outlet.
LEMMA SameOutletStep ==
  ASSUME NEW o
  PROVE  Outlet!OutletStep(o) <=> OutletP!OutletStep(o)
BY DEF Outlet!OutletStep, Outlet!Receive, Outlet!Finish, Outlet!ReadDrops,
   Outlet!ReadLost, Outlet!PostAccepted, Outlet!PostRefused, Outlet!PostFailed,
   Outlet!Lose, Outlet!Drained, Outlet!Return, Outlet!Stored, Outlet!Plus, Outlet!Read,
   Outlet!Reset, Outlet!Add, Outlet!AttemptsLeft, Outlet!Crowded, Outlet!LostMark,
   Outlet!Retry, Outlet!Lines, Outlet!Goto, Outlet!None, Outlet!localVars,
   Outlet!chanVars, Outlet!ghostVars, OutletP!OutletStep, OutletP!Receive,
   OutletP!Finish, OutletP!ReadDrops, OutletP!ReadLost, OutletP!PostAccepted,
   OutletP!PostRefused, OutletP!PostFailed, OutletP!Lose, OutletP!Drained,
   OutletP!Return, OutletP!Stored, OutletP!Plus, OutletP!Read, OutletP!Reset,
   OutletP!Add, OutletP!AttemptsLeft, OutletP!Crowded, OutletP!LostMark, OutletP!Retry,
   OutletP!Lines, OutletP!Goto, OutletP!None, OutletP!localVars, OutletP!chanVars,
   OutletP!ghostVars

\* The initial states.
LEMMA SameOutletInit == Outlet!Init <=> OutletP!Init
BY DEF Outlet!Init, Outlet!None, Outlet!NewCounter, OutletP!Init, OutletP!None,
   OutletP!NewCounter

\* The lines the outlets have seen.
LEMMA SameSeen ==
  /\ Outlet!Seen = OutletP!Seen
  /\ \A s : Outlet!Lines(s) = OutletP!Lines(s) /\ ReaderP!Lines(s) = OutletP!Lines(s)
BY DEF Outlet!Seen, Outlet!Queued, Outlet!Holding, Outlet!Ended, Outlet!Lines,
   OutletP!Seen, OutletP!Queued, OutletP!Holding, OutletP!Ended, OutletP!Lines, ReaderP!Lines

-----------------------------------------------------------------------------
(***************************************************************************)
(* What the components' proofs say of them in a shuttle                    *)
(***************************************************************************)
\* The assumptions of LogLineReader.
LEMMA ReaderAssumed ==
  /\ BatchSize \in Nat \ {0}
  /\ BackBuff \in Nat \ {0}
  /\ Drop \in BOOLEAN
  /\ MaxLines \in Nat
BY ShuttleAssumption

\* The assumptions of HTTPOutlet; its Feed is empty here.
LEMMA OutletAssumed ==
  /\ BackBuff \in Nat \ {0}
  /\ MaxAttempts \in Nat \ {0}
  /\ <<>> \in Seq(Seq(Line) \ {<<>>})
  /\ \A k, m \in DOMAIN <<>> : k # m => OutletP!Lines(<<>>[k]) \cap OutletP!Lines(<<>>[m]) = {}
  /\ \A k \in DOMAIN <<>> : \A i, j \in DOMAIN <<>>[k] : <<>>[k][i] = <<>>[k][j] => i = j
BY ShuttleAssumption

\* A step of a reader keeps the readers' invariant.
LEMMA ReaderKeeps ==
  ASSUME ReaderP!IInv, NEW r \in Readers, ReaderP!ReaderStep(r)
  PROVE  ReaderP!IInv'
BY ReaderAssumed, ReaderP!NextIInv DEF ReaderP!Next

\* So does the outlet that takes a batch from the channel.
LEMMA ConsumeKeeps ==
  ASSUME ReaderP!IInv, ReaderP!Consume
  PROVE  ReaderP!IInv'
BY ReaderAssumed, ReaderP!NextIInv DEF ReaderP!Next

\* So does what resets the counter or closes the channel.
LEMMA OutsideKeeps ==
  ASSUME ReaderP!IInv, UNCHANGED readerVars, UNCHANGED batches,
         drops' \in ReaderP!CounterType, drops'.allTime = drops.allTime,
         batchesClosed' \in BOOLEAN
  PROVE  ReaderP!IInv'
BY ReaderAssumed, ReaderP!OutsideStep DEF readerVars, ReaderP!readerVars

\* What a step of a reader leaves alone.
LEMMA ReaderFrame ==
  ASSUME ReaderP!IInv, NEW r \in Readers, ReaderP!ReaderStep(r)
  PROVE  /\ batchesClosed' = batchesClosed
         /\ \A q \in Readers \ {r} : read'[q] = read[q]
         /\ \A q \in Readers : pc[q]["reader"] = "done" => pc'[q]["reader"] = "done"
         /\ \/ \E w \in ReaderP!Who : ReaderP!Enqueue(r, w)
            \/ UNCHANGED <<batches, enqueued>>
BY ReaderAssumed, ReaderP!StepFrame, ReaderP!DoneStays

\* A step of an outlet keeps the outlets' invariant and what they have seen.
LEMMA OutletKeeps ==
  ASSUME OutletP!IInv, NEW o \in Outlets, OutletP!OutletStep(o)
  PROVE  OutletP!IInv' /\ OutletP!Seen' = OutletP!Seen
BY OutletAssumed, OutletP!OutletStepIInv

\* So do the readers' steps beside the channel, and the end of the channel.
LEMMA BesideKeeps ==
  ASSUME OutletP!IInv, UNCHANGED outletVars, UNCHANGED batches,
         drops' \in OutletP!CounterType, batchesClosed' \in BOOLEAN
  PROVE  OutletP!IInv' /\ OutletP!Seen' = OutletP!Seen
BY OutletAssumed, OutletP!StillStep DEF outletVars, OutletP!localVars, OutletP!ghostVars

\* A batch of new lines that arrives in the channel.
LEMMA ArrivalKeeps ==
  ASSUME OutletP!IInv, NEW s \in Seq(Line), OutletP!Lines(s) \cap OutletP!Seen = {},
         Len(batches) < BackBuff, batches' = Append(batches, s),
         UNCHANGED outletVars, UNCHANGED <<batchesClosed, drops>>
  PROVE  OutletP!IInv' /\ OutletP!Seen' = OutletP!Seen \cup OutletP!Lines(s)
<1>1. /\ OutletP!TypeOK' /\ OutletP!OneOutcome' /\ OutletP!HandsEmpty'
      /\ OutletP!Apart' /\ OutletP!StoredWhenPosted'
      /\ OutletP!Seen' = OutletP!Seen \cup OutletP!Lines(s)
  BY OutletAssumed, OutletP!Arrival DEF outletVars, OutletP!localVars, OutletP!ghostVars
<1> QED
  BY <1>1 DEF OutletP!IInv, OutletP!FeedNew

-----------------------------------------------------------------------------
(***************************************************************************)
(* The invariant of the composition                                        *)
(***************************************************************************)
\* IInv with the names of the components' proofs.
Inv ==
  /\ ReaderP!IInv
  /\ OutletP!IInv
  /\ OutletP!Seen = enqueued
  /\ BatchesAreRuns
  /\ Stages
  /\ PanicsOnlyUntracked

\* Both say the same.
LEMMA SameIInv == IInv <=> Inv
BY SameReaderIInv, SameOutletIInv, SameSeen DEF IInv, Inv, Linked

\* A batch that a reader sends is a run of lines that the outlets have not seen.
LEMMA SendIsNew ==
  ASSUME Inv, NEW r \in Readers, NEW w \in ReaderP!Who, ReaderP!Enqueue(r, w)
  PROVE  /\ b[r] \in Seq(Line)
         /\ OutletP!Lines(b[r]) \cap OutletP!Seen = {}
         /\ IsRun(b[r])
<1>1. pc[r][w] = "send"
  BY DEF ReaderP!Enqueue
<1>2. b[r] # <<>>
  BY <1>1 DEF Inv, ReaderP!IInv, ReaderP!CoreInv, ReaderP!MuHeldOnce, ReaderP!MuFree,
     ReaderP!Delivering
<1>3. PICK i \in 1..MaxLines, j \in 1..MaxLines :
        i <= j /\ OutletP!Lines(b[r]) = {r} \X (i..j)
  BY <1>2, ReaderAssumed, ReaderP!BatchIsRun, SameSeen DEF Inv
<1>4. b[r] \in Seq(Line)
  <2>1. OutletP!Lines(b[r]) \subseteq Line
    BY <1>3, ShuttleAssumption DEF Line
  <2>2. b[r] \in Seq(ReaderP!Line)
    BY DEF Inv, ReaderP!IInv, ReaderP!CoreInv, ReaderP!TypeOK
  <2>3. \A k \in DOMAIN b[r] : b[r][k] \in Line
    BY <2>1 DEF OutletP!Lines
  <2> QED
    BY <2>2, <2>3
<1>5. ReaderP!Lines(b[r]) \cap (enqueued \cup dropped) = {}
  BY <1>1, ReaderAssumed, ReaderP!SettleBatch DEF Inv, ReaderP!IInv
<1> QED
  BY <1>3, <1>4, <1>5, SameSeen DEF Inv, IsRun

\* A reader's step keeps the invariant.
LEMMA ReaderStepInv ==
  ASSUME Inv, NEW r \in Readers, ~panicked, Runs(r), ReaderP!ReaderStep(r),
         UNCHANGED <<outletVars, lifeVars>>
  PROVE  Inv'
<1>1. ReaderP!IInv'
  BY ReaderKeeps DEF Inv
<1>2. /\ batchesClosed' = batchesClosed
      /\ \A q \in Readers \ {r} : read'[q] = read[q]
      /\ \A q \in Readers : pc[q]["reader"] = "done" => pc'[q]["reader"] = "done"
  BY ReaderFrame DEF Inv
<1>3. CASE UNCHANGED <<batches, enqueued>>
  <2>1. drops' \in OutletP!CounterType /\ batchesClosed' \in BOOLEAN
    BY <1>1 DEF ReaderP!IInv, ReaderP!CoreInv, ReaderP!TypeOK, ReaderP!CounterType,
       OutletP!CounterType
  <2>2. OutletP!IInv' /\ OutletP!Seen' = OutletP!Seen
    BY <1>3, <2>1, BesideKeeps DEF Inv
  <2>3. BatchesAreRuns'
    BY <1>3 DEF Inv, BatchesAreRuns, outletVars
  <2>4. Stages' /\ PanicsOnlyUntracked'
    BY <1>2, <1>3, ShuttleAssumption DEF Inv, Stages, PanicsOnlyUntracked, Runs, lifeVars, outletVars
  <2> QED
    BY <1>1, <1>3, <2>2, <2>3, <2>4 DEF Inv
<1>4. ASSUME NEW w \in ReaderP!Who, ReaderP!Enqueue(r, w) PROVE Inv'
  <2>1. /\ ~batchesClosed
        /\ Len(batches) < BackBuff
        /\ batches' = Append(batches, b[r])
        /\ enqueued' = enqueued \cup OutletP!Lines(b[r])
        /\ UNCHANGED <<batchesClosed, drops>>
    BY <1>4, SameSeen DEF ReaderP!Enqueue, ReaderP!statVars
  <2>2. /\ b[r] \in Seq(Line)
        /\ OutletP!Lines(b[r]) \cap OutletP!Seen = {}
        /\ IsRun(b[r])
    BY <1>4, SendIsNew
  <2>3. OutletP!IInv' /\ OutletP!Seen' = OutletP!Seen \cup OutletP!Lines(b[r])
    BY <2>1, <2>2, ArrivalKeeps DEF Inv
  <2>4. BatchesAreRuns'
    <3>1. batches \in Seq(Seq(Line))
      BY DEF Inv, OutletP!IInv, OutletP!TypeOK
    <3>2. \A k \in DOMAIN batches' :
            \/ k \in DOMAIN batches /\ batches'[k] = batches[k]
            \/ batches'[k] = b[r]
      BY <2>1, <2>2, <3>1
    <3>3. \A k \in DOMAIN batches' : IsRun(batches'[k])
      BY <2>2, <3>2 DEF Inv, BatchesAreRuns
    <3>4. \A o \in Outlets : cur'[o] # <<>> => IsRun(cur'[o])
      BY DEF Inv, BatchesAreRuns, outletVars
    <3> QED
      BY <3>3, <3>4 DEF BatchesAreRuns, IsRun
  <2>5. Stages' /\ PanicsOnlyUntracked'
    BY <1>2, <2>1, ShuttleAssumption DEF Inv, Stages, PanicsOnlyUntracked, Runs, lifeVars, outletVars
  <2> QED
    BY <1>1, <2>1, <2>3, <2>4, <2>5 DEF Inv
<1> QED
  BY <1>3, <1>4, ReaderFrame DEF Inv

\* What a step of an outlet does to the channel, the hands and the locations.
LEMMA OutletFrame ==
  ASSUME OutletP!IInv, NEW o \in Outlets, OutletP!OutletStep(o)
  PROVE  /\ batchesClosed' = batchesClosed
         /\ drops'.allTime = drops.allTime
         /\ \/ OutletP!Receive(o)
            \/ /\ batches' = batches
               /\ \A p \in Outlets : cur'[p] \in {cur[p], <<>>}
         /\ \A p \in Outlets : opc[p] = "done" => opc'[p] = "done"
         /\ \A p \in Outlets : opc'[p] = "done" => opc[p] = "done" \/ (batchesClosed /\ batches = <<>>)
<1> USE DEF OutletP!Goto, OutletP!ghostVars, OutletP!chanVars, OutletP!localVars
<1>1. /\ opc \in [Outlets -> {"recv", "drops", "lost", "post", "lose", "done"}]
      /\ cur \in [Outlets -> Seq(Line)]
      /\ drops \in [value : Nat, allTime : Nat]
  BY DEF OutletP!IInv, OutletP!TypeOK, OutletP!CounterType
<1>2. batchesClosed' = batchesClosed
  BY DEF OutletP!OutletStep, OutletP!Receive, OutletP!Finish, OutletP!ReadDrops,
     OutletP!ReadLost, OutletP!PostFailed, OutletP!PostAccepted, OutletP!PostRefused,
     OutletP!Lose
<1>3. drops'.allTime = drops.allTime
  <2>1. drops' = drops \/ drops' = OutletP!Reset(drops)
    BY DEF OutletP!OutletStep, OutletP!Receive, OutletP!Finish, OutletP!ReadDrops,
       OutletP!ReadLost, OutletP!PostFailed, OutletP!PostAccepted, OutletP!PostRefused,
       OutletP!Lose
  <2> QED
    BY <1>1, <2>1 DEF OutletP!Reset
<1>4. \/ OutletP!Receive(o)
      \/ batches' = batches /\ (cur' = cur \/ cur' = [cur EXCEPT ![o] = <<>>])
  BY DEF OutletP!OutletStep, OutletP!Finish, OutletP!ReadDrops, OutletP!ReadLost,
     OutletP!PostFailed, OutletP!Retry, OutletP!PostAccepted, OutletP!PostRefused,
     OutletP!Lose, OutletP!Return
<1>5. /\ opc[o] # "done"
      /\ \/ opc' = opc
         \/ \E loc \in {"recv", "drops", "lost", "post", "lose"} : opc' = [opc EXCEPT ![o] = loc]
         \/ opc' = [opc EXCEPT ![o] = "done"] /\ batchesClosed /\ batches = <<>>
  <2>1. CASE OutletP!Receive(o)
    BY <2>1 DEF OutletP!Receive
  <2>2. CASE OutletP!Finish(o)
    BY <2>2 DEF OutletP!Finish, OutletP!Drained
  <2>3. CASE OutletP!ReadDrops(o) \/ OutletP!ReadLost(o)
    BY <2>3 DEF OutletP!ReadDrops, OutletP!ReadLost
  <2>4. CASE OutletP!PostFailed(o)
    BY <2>4 DEF OutletP!PostFailed, OutletP!Retry
  <2>5. CASE OutletP!PostAccepted(o) \/ OutletP!PostRefused(o) \/ OutletP!Lose(o)
    BY <2>5 DEF OutletP!PostAccepted, OutletP!PostRefused, OutletP!Lose, OutletP!Return
  <2> QED
    BY <2>1, <2>2, <2>3, <2>4, <2>5 DEF OutletP!OutletStep
<1>6. \A p \in Outlets : opc[p] = "done" => opc'[p] = "done"
  BY <1>1, <1>5
<1>7. \A p \in Outlets : opc'[p] = "done" => opc[p] = "done" \/ (batchesClosed /\ batches = <<>>)
  <2>1. ASSUME NEW loc \in {"recv", "drops", "lost", "post", "lose"},
               opc' = [opc EXCEPT ![o] = loc],
               NEW p \in Outlets, opc'[p] = "done"
        PROVE  opc[p] = "done"
    BY <1>1, <2>1
  <2> QED
    BY <1>1, <1>5, <2>1
<1> QED
  BY <1>1, <1>2, <1>3, <1>4, <1>6, <1>7

\* A step of an outlet keeps the readers' invariant.
LEMMA OutletKeepsReaders ==
  ASSUME Inv, NEW o \in Outlets, OutletP!OutletStep(o), UNCHANGED readerVars
  PROVE  ReaderP!IInv'
<1>1. CASE OutletP!Receive(o)
  <2>1. ReaderP!Consume
    BY <1>1 DEF OutletP!Receive, ReaderP!Consume, ReaderP!readerVars, ReaderP!statVars, readerVars
  <2> QED
    BY <2>1, ConsumeKeeps DEF Inv
<1>2. CASE ~OutletP!Receive(o)
  <2>1. OutletP!IInv' /\ batches' = batches /\ drops'.allTime = drops.allTime
    BY <1>2, OutletKeeps, OutletFrame DEF Inv
  <2>2. drops' \in ReaderP!CounterType /\ batchesClosed' \in BOOLEAN
    BY <2>1 DEF OutletP!IInv, OutletP!TypeOK, OutletP!CounterType, ReaderP!CounterType
  <2> QED
    BY <2>1, <2>2, OutsideKeeps DEF Inv
<1> QED
  BY <1>1, <1>2

\* A step of an outlet keeps the batches whole.
LEMMA OutletKeepsRuns ==
  ASSUME Inv, NEW o \in Outlets, OutletP!OutletStep(o)
  PROVE  BatchesAreRuns'
<1>1. CASE OutletP!Receive(o)
  <2>1. /\ batches \in Seq(Seq(Line)) /\ batches # <<>>
        /\ cur \in [Outlets -> Seq(Line)]
        /\ cur' = [cur EXCEPT ![o] = Head(batches)]
        /\ batches' = Tail(batches)
    BY <1>1 DEF OutletP!Receive, Inv, OutletP!IInv, OutletP!TypeOK
  <2>2. /\ 1 \in DOMAIN batches /\ Head(batches) = batches[1]
        /\ \A k \in DOMAIN batches' : k + 1 \in DOMAIN batches /\ batches'[k] = batches[k + 1]
    BY <2>1, OutletAssumed, OutletP!HeadTail
  <2>3. IsRun(Head(batches)) /\ \A k \in DOMAIN batches' : IsRun(batches'[k])
    BY <2>2 DEF Inv, BatchesAreRuns
  <2>4. \A p \in Outlets : cur'[p] # <<>> => IsRun(cur'[p])
    BY <2>1, <2>3 DEF Inv, BatchesAreRuns
  <2> QED
    BY <2>3, <2>4 DEF BatchesAreRuns, IsRun
<1>2. CASE ~OutletP!Receive(o)
  <2>1. batches' = batches /\ \A p \in Outlets : cur'[p] \in {cur[p], <<>>}
    BY <1>2, OutletFrame DEF Inv
  <2>2. \A k \in DOMAIN batches' : IsRun(batches'[k])
    BY <2>1 DEF Inv, BatchesAreRuns
  <2>3. \A p \in Outlets : cur'[p] # <<>> => IsRun(cur'[p])
    BY <2>1 DEF Inv, BatchesAreRuns
  <2> QED
    BY <2>2, <2>3 DEF BatchesAreRuns, IsRun
<1> QED
  BY <1>1, <1>2

\* A step of an outlet keeps the invariant.
LEMMA OutletStepInv ==
  ASSUME Inv, NEW o \in Outlets, OutletP!OutletStep(o), UNCHANGED <<readerVars, lifeVars>>
  PROVE  Inv'
<1>1. ReaderP!IInv' /\ OutletP!IInv' /\ OutletP!Seen' = OutletP!Seen
  BY OutletKeepsReaders, OutletKeeps DEF Inv
<1>2. BatchesAreRuns'
  BY OutletKeepsRuns
<1>3. /\ batchesClosed' = batchesClosed
      /\ \A p \in Outlets : opc[p] = "done" => opc'[p] = "done"
      /\ \A p \in Outlets : opc'[p] = "done" => opc[p] = "done" \/ (batchesClosed /\ batches = <<>>)
      /\ batches = <<>> => batches' = <<>>
  BY OutletFrame DEF Inv, OutletP!Receive
<1>4. Stages' /\ PanicsOnlyUntracked'
  BY <1>3 DEF Inv, Stages, PanicsOnlyUntracked, Reader!Who, readerVars, lifeVars
<1> QED
  BY <1>1, <1>2, <1>4 DEF Inv, readerVars

-----------------------------------------------------------------------------
(***************************************************************************)
(* The life of the shuttle                                                 *)
(***************************************************************************)
\* A step of Launch or Land that touches neither readers, outlets nor channel.
LEMMA LifeKeeps ==
  ASSUME Inv, UNCHANGED <<readerVars, outletVars, sharedVars>>
  PROVE  ReaderP!IInv' /\ OutletP!IInv' /\ OutletP!Seen' = enqueued' /\ BatchesAreRuns'
<1>1. /\ drops' \in ReaderP!CounterType /\ drops' \in OutletP!CounterType
      /\ batchesClosed' \in BOOLEAN
  BY DEF Inv, OutletP!IInv, OutletP!TypeOK, OutletP!CounterType, ReaderP!CounterType, sharedVars
<1>2. ReaderP!IInv'
  BY <1>1, OutsideKeeps DEF Inv, sharedVars
<1>3. OutletP!IInv' /\ OutletP!Seen' = OutletP!Seen
  BY <1>1, BesideKeeps DEF Inv, sharedVars
<1>4. BatchesAreRuns'
  BY DEF Inv, BatchesAreRuns, outletVars, sharedVars
<1> QED
  BY <1>2, <1>3, <1>4 DEF Inv, readerVars

\* LoadReader registers a reader that has read nothing.
LEMMA LoadReaderStep ==
  ASSUME Inv, NEW r \in Readers, LoadReader(r)
  PROVE  Inv'
<1>1. Stages' /\ PanicsOnlyUntracked'
  BY ShuttleAssumption DEF LoadReader, Inv, Stages, PanicsOnlyUntracked, readerVars, outletVars, sharedVars
<1> QED
  BY <1>1, LifeKeeps DEF LoadReader, Inv

\* Launch starts the readers loaded so far.
LEMMA LaunchStep ==
  ASSUME Inv, Launch
  PROVE  Inv'
<1>1. Stages' /\ PanicsOnlyUntracked'
  BY DEF Launch, Inv, Stages, PanicsOnlyUntracked, readerVars, outletVars, sharedVars
<1> QED
  BY <1>1, LifeKeeps DEF Launch, Inv

\* Land is called.
LEMMA CallLandStep ==
  ASSUME Inv, CallLand
  PROVE  Inv'
<1>1. Stages' /\ PanicsOnlyUntracked'
  BY DEF CallLand, Inv, Stages, PanicsOnlyUntracked, readerVars, outletVars, sharedVars
<1> QED
  BY <1>1, LifeKeeps DEF CallLand, Inv

\* Land returns: every outlet is done.
LEMMA LandedStep ==
  ASSUME Inv, Landed
  PROVE  Inv'
<1>1. Stages' /\ PanicsOnlyUntracked'
  BY DEF Landed, Drained, Inv, Stages, PanicsOnlyUntracked, readerVars, outletVars, sharedVars
<1> QED
  BY <1>1, LifeKeeps DEF Landed, Inv

\* A reader whose ReadLines has returned has no goroutine that sends.
LEMMA DoneSendsNothing ==
  ASSUME ReaderP!IInv, NEW r \in Readers, pc[r]["reader"] = "done" \/ read[r] = 0
  PROVE  b[r] = <<>> /\ \A w \in ReaderP!Who : pc[r][w] # "send"
<1>1. b[r] = <<>>
  <2>1. CASE pc[r]["reader"] = "done"
    BY <2>1 DEF ReaderP!IInv, ReaderP!CoreInv, ReaderP!Emptied
  <2>2. CASE read[r] = 0
    BY <2>2, ReaderAssumed, ReaderP!BatchIsRun
       DEF ReaderP!LastAdded, ReaderP!Pending
  <2> QED
    BY <2>1, <2>2
<1>2. ReaderP!MuFree(r)
  BY <1>1 DEF ReaderP!IInv, ReaderP!CoreInv, ReaderP!MuHeldOnce
<1> QED
  BY <1>1, <1>2 DEF ReaderP!MuFree, ReaderP!Delivering

\* Close ends the input of a reader, and nothing else.
LEMMA CloseReaderStep ==
  ASSUME Inv, NEW r \in Readers, CloseReader(r)
  PROVE  Inv'
<1>1. ReaderP!CloseInput(r)
  BY SameReaderStep DEF CloseReader
<1>2. /\ UNCHANGED <<pc, after, read, b, armed, tick, linesBatched, linesDropped, drops>>
      /\ UNCHANGED <<batches, batchesClosed, enqueued, dropped>>
      /\ UNCHANGED <<outletVars, lifeVars>>
  BY <1>1 DEF ReaderP!CloseInput, ReaderP!statVars, ReaderP!chanVars, CloseReader
<1>3. ReaderP!IInv'
  BY <1>1, ReaderKeeps DEF ReaderP!ReaderStep, Inv
<1>4. drops' \in OutletP!CounterType /\ batchesClosed' \in BOOLEAN
  BY <1>2 DEF Inv, OutletP!IInv, OutletP!TypeOK, OutletP!CounterType
<1>5. OutletP!IInv' /\ OutletP!Seen' = OutletP!Seen
  BY <1>2, <1>4, BesideKeeps DEF Inv
<1>6. BatchesAreRuns'
  BY <1>2 DEF Inv, BatchesAreRuns, outletVars
<1>7. Stages' /\ PanicsOnlyUntracked'
  BY <1>2 DEF Inv, Stages, PanicsOnlyUntracked, lifeVars, outletVars
<1> QED
  BY <1>2, <1>3, <1>5, <1>6, <1>7 DEF Inv

\* close(Batches): every reader that Launch has started is done.
LEMMA CloseBatchesStep ==
  ASSUME Inv, CloseBatches
  PROVE  Inv'
<1>1. /\ batchesClosed' = TRUE
      /\ UNCHANGED <<readerVars, outletVars, batches, drops, loaded, started, panicked>>
      /\ lander = "docking" /\ lander' = "draining"
      /\ \A r \in started : pc[r]["reader"] = "done"
  BY DEF CloseBatches, Docked
<1>2. /\ drops' \in ReaderP!CounterType /\ drops' \in OutletP!CounterType
      /\ batchesClosed' \in BOOLEAN
  BY <1>1 DEF Inv, OutletP!IInv, OutletP!TypeOK, OutletP!CounterType, ReaderP!CounterType
<1>3. ReaderP!IInv'
  BY <1>1, <1>2, OutsideKeeps DEF Inv
<1>4. OutletP!IInv' /\ OutletP!Seen' = OutletP!Seen
  BY <1>1, <1>2, BesideKeeps DEF Inv
<1>5. BatchesAreRuns'
  BY <1>1 DEF Inv, BatchesAreRuns, outletVars
<1>6. Stages' /\ PanicsOnlyUntracked'
  BY <1>1 DEF Inv, Stages, PanicsOnlyUntracked, readerVars, outletVars
<1> QED
  BY <1>1, <1>3, <1>4, <1>5, <1>6 DEF Inv, readerVars

\* A send on the closed channel comes from a reader that Land knows nothing of.
LEMMA PanicStep ==
  ASSUME Inv, NEW r \in Readers, NEW w \in Reader!Who, Panic(r, w)
  PROVE  Inv'
<1>1. /\ pc[r][w] = "send" /\ batchesClosed /\ panicked' = TRUE
      /\ UNCHANGED <<readerVars, outletVars, sharedVars, lander, loaded, started>>
  BY DEF Panic
<1>2. r \notin Tracked
  <2>1. ~(pc[r]["reader"] = "done" \/ read[r] = 0)
    BY <1>1, DoneSendsNothing DEF Inv, Reader!Who, ReaderP!Who
  <2> QED
    BY <1>1, <2>1 DEF Inv, Stages
<1>3. Stages'
  BY <1>1 DEF Inv, Stages, readerVars, outletVars, sharedVars
<1>4. PanicsOnlyUntracked'
  BY <1>1, <1>2 DEF Inv, Stages, PanicsOnlyUntracked, readerVars
<1> QED
  BY <1>1, <1>3, <1>4, LifeKeeps DEF Inv

\* The initial states satisfy the invariant.
LEMMA InitInv == Init => Inv
<1> SUFFICES ASSUME Init PROVE Inv
  OBVIOUS
<1>1. ReaderP!IInv
  BY SameReaderInit, ReaderAssumed, ReaderP!InitIInv DEF Init
<1>2. OutletP!IInv
  BY SameOutletInit, OutletAssumed, OutletP!InitIInv DEF Init
<1>3. /\ batches = <<>> /\ batchesClosed = FALSE /\ enqueued = {}
      /\ \A r \in Readers : read[r] = 0
  BY DEF Init, Reader!Init
<1>4. /\ cur = [o \in Outlets |-> <<>>] /\ opc = [o \in Outlets |-> "recv"]
      /\ acked = {} /\ refused = {} /\ lostLines = {}
  BY DEF Init, Outlet!Init
<1>5. OutletP!Seen = enqueued
  BY <1>3, <1>4 DEF OutletP!Seen, OutletP!Queued, OutletP!Holding, OutletP!Ended, OutletP!Lines
<1>6. BatchesAreRuns
  BY <1>3, <1>4 DEF BatchesAreRuns
<1>7. Stages /\ PanicsOnlyUntracked
  BY <1>3, <1>4, ShuttleAssumption DEF Init, Stages, PanicsOnlyUntracked
<1> QED
  BY <1>1, <1>2, <1>5, <1>6, <1>7 DEF Inv

\* Every step keeps the invariant.
LEMMA NextInv == Inv /\ [Next]_vars => Inv'
<1> SUFFICES ASSUME Inv, [Next]_vars PROVE Inv'
  OBVIOUS
<1>1. ASSUME NEW r \in Readers, ReaderStep(r) PROVE Inv'
  BY <1>1, SameReaderStep, ReaderStepInv DEF ReaderStep, ByReader
<1>2. ASSUME NEW r \in Readers, NEW w \in Reader!Who, Panic(r, w) PROVE Inv'
  BY <1>2, PanicStep
<1>3. ASSUME NEW o \in Outlets, OutletStep(o) PROVE Inv'
  BY <1>3, SameOutletStep, OutletStepInv DEF OutletStep
<1>4. CASE LandStep
  BY <1>4, CloseReaderStep, CloseBatchesStep, LandedStep DEF LandStep
<1>5. CASE UNCHANGED vars
  <2>1. Stages' /\ PanicsOnlyUntracked'
    BY <1>5 DEF Inv, Stages, PanicsOnlyUntracked, vars, readerVars, outletVars, sharedVars, lifeVars
  <2> QED
    BY <1>5, <2>1, LifeKeeps DEF Inv, vars
<1> QED
  BY <1>1, <1>2, <1>3, <1>4, <1>5, LoadReaderStep, LaunchStep, CallLandStep
     DEF Next, Live, Terminated

\* The invariant of the composition holds in every state of every behaviour.
THEOREM Invariance == Safety => []IInv
<1>1. Safety => []Inv
  BY InitInv, NextInv, PTL DEF Safety
<1> QED
  BY <1>1, SameIInv, PTL

\* Both components keep their types in a shuttle: no batch outgrows BatchSize,
\* the channel never holds more than BackBuff, no line is stored more than
\* MaxAttempts times, whatever readers, timers, outlets and Land do.
THEOREM TypeCorrect == Safety => []TypeOK
<1>1. IInv => TypeOK
  BY DEF IInv, TypeOK, Stages, Reader!IInv, Reader!CoreInv, Outlet!IInv
<1> QED
  BY <1>1, Invariance, PTL

\* Only a reader made beside LoadReader can send on the closed channel: neither
\* the ReadLines nor the expirer of a tracked reader ever does, though Land does
\* not wait for the expirers.
THEOREM PanicsFromOutside == Safety => []PanicsOnlyUntracked
<1>1. IInv => PanicsOnlyUntracked
  BY DEF IInv
<1> QED
  BY <1>1, Invariance, PTL

\* Once Land has returned every line that a tracked reader has read has been
\* dropped, or tried to the end by an outlet.  There must be an outlet: with
\* NumOutlets = 0, which getConfig accepts, Land returns as soon as the readers
\* are done and leaves the batches in the channel.
THEOREM LandsSettled ==
  ASSUME Outlets # {}
  PROVE  Safety => []LandedSettled
<1>1. Inv => LandedSettled
  <2> SUFFICES ASSUME Inv, lander = "landed", NEW r \in Tracked, NEW n \in 1..read[r]
               PROVE  <<r, n>> \in Settled
    BY DEF LandedSettled
  <2>1. /\ \A o \in Outlets : opc[o] = "done" /\ cur[o] = <<>>
        /\ batches = <<>>
    BY DEF Inv, Stages, OutletP!IInv, OutletP!HandsEmpty
  <2>2. enqueued = acked \cup refused \cup lostLines
    <3>1. OutletP!Queued = {} /\ OutletP!Holding = {}
      BY <2>1 DEF OutletP!Queued, OutletP!Holding, OutletP!Lines
    <3> QED
      BY <3>1 DEF Inv, OutletP!Seen, OutletP!Ended
  <2>3. /\ r \in Readers /\ read[r] \in 0..MaxLines
        /\ n \in Nat
    BY ShuttleAssumption DEF Inv, ReaderP!IInv, ReaderP!CoreInv, ReaderP!TypeOK
  <2>4. pc[r]["reader"] = "done"
    BY <2>3 DEF Inv, Stages
  <2>5. <<r, n>> \in enqueued \cup dropped
    <3>1. ReaderP!LinesOf(r, read[r]) \subseteq enqueued \cup dropped
      BY <2>3, <2>4, ReaderAssumed, ReaderP!NothingLeft
         DEF Inv, ReaderP!IInv, ReaderP!NothingLeftBehind
    <3> QED
      BY <3>1 DEF ReaderP!LinesOf
  <2> QED
    BY <2>2, <2>5 DEF Settled
<1>2. IInv => LandedSettled
  BY <1>1, SameIInv
<1> QED
  BY <1>2, Invariance, PTL

-----------------------------------------------------------------------------
(***************************************************************************)
(* One outlet                                                              *)
(***************************************************************************)
\* With one outlet the lines of a reader are ended, in hand and queued in the
\* order they were read.
InTurn ==
  /\ \A l \in OutletP!Ended, m \in OutletP!Holding \cup OutletP!Queued : ReaderP!Before(l, m)
  /\ \A l \in OutletP!Holding, m \in OutletP!Queued : ReaderP!Before(l, m)

\* A reader's new batch goes behind all the lines of it that the outlets know.
LEMMA SendInTurn ==
  ASSUME Inv, InTurn, NEW r \in Readers, NEW w \in ReaderP!Who, ReaderP!Enqueue(r, w),
         UNCHANGED outletVars
  PROVE  InTurn'
<1>1. /\ pc[r][w] = "send"
      /\ batches' = Append(batches, b[r])
      /\ UNCHANGED <<cur, acked, refused, lostLines>>
      /\ batches \in Seq(Seq(Line)) /\ b[r] \in Seq(Line)
  BY SendIsNew DEF ReaderP!Enqueue, outletVars, Inv, OutletP!IInv, OutletP!TypeOK
<1>2. ASSUME NEW l \in enqueued, NEW m \in OutletP!Lines(b[r])
      PROVE  ReaderP!Before(l, m)
  <2>1. /\ l \in Readers \X Nat
        /\ l[1] = r => l[2] <= ReaderP!LastSettled(r)
        /\ read[r] \in Nat /\ Len(b[r]) \in Nat
    <3>1. PICK q \in Readers : l \in ReaderP!LinesOf(q, ReaderP!LastSettled(q))
      BY <1>2 DEF Inv, ReaderP!IInv, ReaderP!CoreInv, ReaderP!SettledOnce
    <3>2. read[r] \in Nat /\ Len(b[r]) \in Nat
      BY ShuttleAssumption DEF Inv, ReaderP!IInv, ReaderP!CoreInv, ReaderP!TypeOK
    <3> QED
      BY <3>1, <3>2 DEF ReaderP!LinesOf
  <2>2. ~ReaderP!Sent(r)
    BY <1>1, ReaderAssumed, ReaderP!SettleBatch DEF Inv, ReaderP!IInv
  <2>3. /\ ReaderP!LastSettled(r) = ReaderP!LastAdded(r) - Len(b[r])
        /\ m \in {r} \X ((ReaderP!LastAdded(r) - Len(b[r]) + 1)..ReaderP!LastAdded(r))
    BY <1>2, <2>2, ReaderAssumed, ReaderP!BatchLines, SameSeen
       DEF ReaderP!LastSettled, Inv, ReaderP!IInv
  <2>4. ReaderP!LastAdded(r) \in Nat
    BY <2>1 DEF Inv, ReaderP!IInv, ReaderP!CoreInv, ReaderP!Contiguous, ReaderP!LastAdded,
       ReaderP!Pending
  <2> QED
    BY <2>1, <2>3, <2>4 DEF ReaderP!Before
<1>3. OutletP!Ended' = OutletP!Ended /\ OutletP!Holding' = OutletP!Holding
  BY <1>1 DEF OutletP!Ended, OutletP!Holding
<1>4. OutletP!Queued' \subseteq OutletP!Queued \cup OutletP!Lines(b[r])
  <2>1. \A k \in DOMAIN batches' :
          \/ k \in DOMAIN batches /\ batches'[k] = batches[k]
          \/ batches'[k] = b[r]
    BY <1>1
  <2> QED
    BY <2>1, OutletAssumed, OutletP!QueuedIs, OutletP!QueuedIsNext
<1>5. OutletP!Ended \cup OutletP!Holding \subseteq enqueued
  BY DEF Inv, OutletP!Seen
<1> QED
  BY <1>2, <1>3, <1>4, <1>5 DEF InTurn, ReaderP!Before

\* The only outlet takes the batch that goes before all that are queued.
LEMMA ReceiveInTurn ==
  ASSUME Inv, InTurn, NEW o \in Outlets, \A p \in Outlets : p = o, OutletP!Receive(o)
  PROVE  InTurn'
<1> DEFINE first == OutletP!Lines(Head(batches))
<1>1. /\ OutletP!Queued = OutletP!Queued' \cup first
      /\ OutletP!Holding' = OutletP!Holding \cup first
  BY OutletAssumed, OutletP!ReceiveMoves DEF Inv
<1>2. OutletP!Holding = {} /\ OutletP!Ended' = OutletP!Ended
  BY DEF OutletP!Receive, OutletP!ghostVars, OutletP!Ended, OutletP!Holding, OutletP!Lines,
     Inv, OutletP!IInv, OutletP!HandsEmpty
<1>3. ASSUME NEW l \in first, NEW m \in OutletP!Queued' PROVE ReaderP!Before(l, m)
  <2>1. /\ batches \in Seq(Seq(Line)) /\ batches # <<>> /\ batches' = Tail(batches)
    BY DEF OutletP!Receive, Inv, OutletP!IInv, OutletP!TypeOK
  <2>2. PICK k \in DOMAIN batches' : m \in OutletP!Lines(batches'[k])
    BY <1>3, OutletAssumed, OutletP!QueuedIsNext
  <2>3. /\ 1 \in DOMAIN batches /\ Head(batches) = batches[1]
        /\ k + 1 \in DOMAIN batches /\ batches'[k] = batches[k + 1] /\ 1 < k + 1
    BY <2>1, OutletAssumed, OutletP!HeadTail
  <2>4. l \in ReaderP!Lines(batches[1]) /\ m \in ReaderP!Lines(batches[k + 1])
    BY <1>3, <2>2, <2>3, SameSeen
  <2> QED
    BY <2>3, <2>4 DEF Inv, ReaderP!IInv, ReaderP!QueueInOrder
<1> QED
  BY <1>1, <1>2, <1>3 DEF InTurn

\* What the only outlet has ended goes before what it ends next.
LEMMA OutletInTurn ==
  ASSUME Inv, InTurn, NEW o \in Outlets, \A p \in Outlets : p = o, OutletP!OutletStep(o)
  PROVE  /\ InTurn'
         /\ \A l \in acked' \ acked, m \in acked : ReaderP!Before(m, l)
<1> USE DEF OutletP!ghostVars, OutletP!chanVars, OutletP!localVars, OutletP!Goto
<1>1. CASE OutletP!Receive(o)
  BY <1>1, ReceiveInTurn DEF OutletP!Receive
<1>2. ASSUME UNCHANGED batches, OutletP!Return(o),
             \/ acked' = acked \cup OutletP!Lines(cur[o]) /\ UNCHANGED <<refused, lostLines>>
             \/ refused' = refused \cup OutletP!Lines(cur[o]) /\ UNCHANGED <<acked, lostLines>>
             \/ lostLines' = lostLines \cup OutletP!Lines(cur[o]) /\ UNCHANGED <<acked, refused>>
      PROVE  /\ InTurn'
             /\ \A l \in acked' \ acked, m \in acked : ReaderP!Before(m, l)
  <2>1. OutletP!Holding = OutletP!Lines(cur[o])
    BY DEF OutletP!Holding
  <2>2. /\ OutletP!Holding' = {}
        /\ OutletP!Queued' = OutletP!Queued
    BY <1>2 DEF OutletP!Return, OutletP!Holding, OutletP!Queued, OutletP!Lines, Inv,
       OutletP!IInv, OutletP!TypeOK
  <2>3. OutletP!Ended' = OutletP!Ended \cup OutletP!Holding
    BY <1>2, <2>1 DEF OutletP!Ended
  <2>4. InTurn'
    BY <2>2, <2>3 DEF InTurn
  <2>5. \A l \in acked' \ acked, m \in acked : ReaderP!Before(m, l)
    BY <1>2, <2>1 DEF InTurn, OutletP!Ended
  <2> QED
    BY <2>4, <2>5
<1>3. CASE OutletP!PostAccepted(o) \/ OutletP!PostRefused(o) \/ OutletP!Lose(o)
  BY <1>2, <1>3 DEF OutletP!PostAccepted, OutletP!PostRefused, OutletP!Lose
<1>4. CASE \/ OutletP!Finish(o) \/ OutletP!ReadDrops(o) \/ OutletP!ReadLost(o)
           \/ OutletP!PostFailed(o)
  <2>1. UNCHANGED <<batches, cur, acked, refused, lostLines>>
    BY <1>4 DEF OutletP!Finish, OutletP!ReadDrops, OutletP!ReadLost, OutletP!PostFailed,
       OutletP!Retry
  <2> QED
    BY <2>1 DEF InTurn, OutletP!Ended, OutletP!Holding, OutletP!Queued
<1> QED
  BY <1>1, <1>3, <1>4 DEF OutletP!OutletStep

\* With one outlet every step of the shuttle keeps InTurn, and what it accepts
\* comes after what was accepted before.
LEMMA NextInTurn ==
  ASSUME Inv, InTurn, [Next]_vars, \A o, p \in Outlets : o = p
  PROVE  /\ InTurn'
         /\ \A l \in acked' \ acked, m \in acked : ReaderP!Before(m, l)
<1>1. ASSUME UNCHANGED <<outletVars, batches>>
      PROVE  /\ InTurn'
             /\ \A l \in acked' \ acked, m \in acked : ReaderP!Before(m, l)
  BY <1>1 DEF InTurn, OutletP!Ended, OutletP!Holding, OutletP!Queued, outletVars
<1>2. ASSUME NEW r \in Readers, ReaderP!ReaderStep(r), UNCHANGED outletVars
      PROVE  /\ InTurn'
             /\ \A l \in acked' \ acked, m \in acked : ReaderP!Before(m, l)
  <2>1. CASE UNCHANGED batches
    BY <1>1, <1>2, <2>1
  <2>2. ASSUME NEW w \in ReaderP!Who, ReaderP!Enqueue(r, w)
        PROVE  InTurn' /\ acked' = acked
    BY <1>2, <2>2, SendInTurn DEF outletVars
  <2> QED
    BY <1>2, <2>1, <2>2, ReaderFrame DEF Inv
<1>3. ASSUME NEW r \in Readers, ReaderStep(r) \/ CloseReader(r)
      PROVE  /\ InTurn'
             /\ \A l \in acked' \ acked, m \in acked : ReaderP!Before(m, l)
  BY <1>2, <1>3, SameReaderStep DEF ReaderStep, ByReader, CloseReader, ReaderP!ReaderStep
<1>4. ASSUME NEW o \in Outlets, OutletStep(o)
      PROVE  /\ InTurn'
             /\ \A l \in acked' \ acked, m \in acked : ReaderP!Before(m, l)
  BY <1>4, SameOutletStep, OutletInTurn DEF OutletStep
<1>5. CASE \/ CloseBatches \/ Landed \/ Launch \/ CallLand \/ UNCHANGED vars
           \/ \E r \in Readers : LoadReader(r) \/ \E w \in Reader!Who : Panic(r, w)
  <2>1. UNCHANGED <<outletVars, batches>>
    BY <1>5 DEF CloseBatches, Landed, Launch, CallLand, LoadReader, Panic, vars, sharedVars
  <2> QED
    BY <1>1, <2>1
<1> QED
  BY <1>3, <1>4, <1>5 DEF Next, Live, LandStep, Terminated

\* With one outlet the endpoint accepts the lines of a reader in the order they
\* were read, however often batches are retried, refused or lost in between.
THEOREM AcceptsInOrder ==
  ASSUME \A o, p \in Outlets : o = p
  PROVE  Safety => AcceptedInOrder
<1>1. Safety => []Inv
  BY InitInv, NextInv, PTL DEF Safety
<1>2. Init => InTurn
  BY DEF Init, Outlet!Init, InTurn, OutletP!Ended, OutletP!Holding, OutletP!Queued, OutletP!Lines
<1>3. Inv /\ InTurn /\ [Next]_vars =>
        /\ InTurn'
        /\ [\A l \in acked' \ acked, m \in acked : l[1] = m[1] => m[2] < l[2]]_vars
  BY NextInTurn DEF ReaderP!Before
<1> QED
  BY <1>1, <1>2, <1>3, PTL DEF Safety, AcceptedInOrder
=============================================================================
