------------------------------- MODULE Shuttle -------------------------------
(***************************************************************************)
(* shuttle.go: the life of a shuttle.  LoadReader registers readers,       *)
(* Launch starts the outlets and the readers loaded so far, LogLineReader  *)
(* and HTTPOutlet run side by side on the channel Batches and the counters *)
(* Drops and Lost, and Land brings them down: CloseReaders,                *)
(* WaitForReadersToFinish, close(Batches), oWaiter.Wait.                   *)
(*                                                                         *)
(* Tracked are the readers that come through LoadReader, before Launch or  *)
(* after.  The others are made with NewLogLineReader on this shuttle,      *)
(* their ReadLines is run by the owner, and Land knows nothing of them.    *)
(***************************************************************************)
EXTENDS Naturals, Sequences, FiniteSets

CONSTANTS
  Readers,      \* all readers that send to the shuttle
  Tracked,      \* those that come through LoadReader
  Outlets,      \* config.NumOutlets goroutines
  BatchSize, BackBuff, MaxAttempts, Drop,  \* config
  MaxLines      \* bound: the number of lines that each input provides

ASSUME ShuttleAssumption ==
  /\ Tracked \subseteq Readers
  /\ BatchSize \in Nat \ {0}
  /\ BackBuff \in Nat \ {0}
  /\ MaxAttempts \in Nat \ {0}
  /\ Drop \in BOOLEAN
  /\ MaxLines \in Nat

VARIABLES
  \* of LogLineReader
  pc, after, inputClosed, read, b, armed, tick, linesBatched, linesDropped,
  enqueued, dropped,
  \* of HTTPOutlet
  opc, cur, attempts, edata, lost, acked, refused, lostLines,
  copies, told, forgotten,
  \* of both
  batches, batchesClosed, drops,
  \* of Launch and Land: "loading" before Launch, "running" after it, "docking"
  \* in Land until the readers are done, "draining" until the outlets are,
  \* "landed" when Land has returned
  lander,
  loaded,    \* s.readers
  started,   \* the readers that Launch has started, counted in rWaiter
  panicked  \* a send on the closed channel has brought the process down

Line == Readers \X (1..MaxLines)

readerVars == <<pc, after, inputClosed, read, b, armed, tick, linesBatched,
                linesDropped, enqueued, dropped>>
outletVars == <<opc, cur, attempts, edata, lost, acked, refused, lostLines,
                copies, told, forgotten>>
sharedVars == <<batches, batchesClosed, drops>>
lifeVars == <<lander, loaded, started, panicked>>
vars == <<readerVars, outletVars, sharedVars, lifeVars>>

Reader == INSTANCE LogLineReader
Outlet == INSTANCE HTTPOutlet WITH Feed <- <<>>, fed <- 0

-----------------------------------------------------------------------------
Init ==
  /\ Reader!Init
  /\ Outlet!Init
  /\ lander = "loading"
  /\ loaded = {}
  /\ started = {}
  /\ panicked = FALSE

\* LoadReader: the reader is made, with its expirer, and registered; also while
\* the shuttle runs.
LoadReader(r) ==
  /\ ~panicked
  /\ lander \in {"loading", "running"}
  /\ r \in Tracked \ loaded
  /\ loaded' = loaded \cup {r}
  /\ UNCHANGED <<readerVars, outletVars, sharedVars, lander, started, panicked>>

\* Launch: the outlets, and a goroutine for each reader loaded so far.
Launch ==
  /\ ~panicked
  /\ lander = "loading"
  /\ lander' = "running"
  /\ started' = loaded
  /\ UNCHANGED <<readerVars, outletVars, sharedVars, loaded, panicked>>

\* Launch has started ReadLines, or the owner of the reader has.  A reader
\* loaded after Launch is never run, and its expirer never has anything to do.
Runs(r) == r \in started \/ r \notin Tracked

ByReader(r, step) ==
  /\ ~panicked
  /\ Runs(r)
  /\ step
  /\ UNCHANGED <<outletVars, lifeVars>>

ReaderStep(r) == ByReader(r, Reader!ReaderStep(r))

\* deliverOrDropCurrent sends on the channel that Land has closed.
Panic(r, w) ==
  /\ ~panicked
  /\ pc[r][w] = "send"
  /\ batchesClosed
  /\ panicked' = TRUE
  /\ UNCHANGED <<readerVars, outletVars, sharedVars, lander, loaded, started>>

OutletStep(o) ==
  /\ ~panicked
  /\ lander # "loading"
  /\ Outlet!OutletStep(o)
  /\ UNCHANGED <<readerVars, lifeVars>>

\* Land is called.
CallLand ==
  /\ ~panicked
  /\ lander = "running"
  /\ lander' = "docking"
  /\ UNCHANGED <<readerVars, outletVars, sharedVars, loaded, started, panicked>>

\* CloseReaders closes one reader after the other.
CloseReader(r) ==
  /\ ~panicked
  /\ lander = "docking"
  /\ r \in loaded
  /\ Reader!CloseInput(r)
  /\ UNCHANGED <<outletVars, lifeVars>>

\* CloseReaders has returned.
ReadersClosed == \A r \in loaded : inputClosed[r]

\* Mutant of Docked: Land goes on when the readers are closed, not done.
DockedEarly == ReadersClosed

\* Mutant of Docked: rWaiter counts every reader that was loaded.
DockedAll == ReadersClosed /\ \A r \in loaded : pc[r]["reader"] = "done"

\* And WaitForReadersToFinish, for the readers that Launch has started.
Docked == ReadersClosed /\ \A r \in started : pc[r]["reader"] = "done"

CloseBatches ==
  /\ ~panicked
  /\ lander = "docking"
  /\ Docked
  /\ batchesClosed' = TRUE
  /\ lander' = "draining"
  /\ UNCHANGED <<readerVars, outletVars, batches, drops, loaded, started, panicked>>

\* Mutant of Drained: Land returns when the channel is empty.
DrainedEarly == batches = <<>>

\* oWaiter.Wait has returned.
Drained == \A o \in Outlets : opc[o] = "done"

Landed ==
  /\ ~panicked
  /\ lander = "draining"
  /\ Drained
  /\ lander' = "landed"
  /\ UNCHANGED <<readerVars, outletVars, sharedVars, loaded, started, panicked>>

LandStep ==
  \/ \E r \in Readers : CloseReader(r)
  \/ CloseBatches
  \/ Landed

\* The process is down, or Land has returned and every reader that ever ran
\* has finished.
Terminated ==
  /\ \/ panicked
     \/ lander = "landed" /\ \A r \in Readers : Runs(r) => Reader!Finished(r)
  /\ UNCHANGED vars

\* What runs by itself.
Live ==
  \/ \E r \in Readers : ReaderStep(r) \/ \E w \in Reader!Who : Panic(r, w)
  \/ \E o \in Outlets : OutletStep(o)
  \/ LandStep

Next ==
  \/ Live
  \/ \E r \in Readers : LoadReader(r)
  \/ Launch
  \/ CallLand
  \/ Terminated

\* Goroutines are scheduled, timers fire, posts end; neither Launch nor Land
\* need be called, an input need not provide anything before it is closed.
Fairness ==
  /\ \A r \in Readers :
       /\ WF_vars(ByReader(r, Reader!ReaderRuns(r)))
       /\ WF_vars(ByReader(r, Reader!ExpirerRuns(r)))
       /\ WF_vars(ByReader(r, Reader!Fire(r)))
  /\ \A o \in Outlets : WF_vars(OutletStep(o))
  /\ WF_vars(LandStep)

Safety == Init /\ [][Next]_vars
Spec == Safety /\ Fairness

-----------------------------------------------------------------------------
(***************************************************************************)
(* Properties                                                              *)
(***************************************************************************)
\* Both components keep their types in the composition.
TypeOK ==
  /\ Reader!TypeOK
  /\ Outlet!TypeOK
  /\ lander \in {"loading", "running", "docking", "draining", "landed"}
  /\ started \subseteq loaded /\ loaded \subseteq Tracked
  /\ panicked \in BOOLEAN

Settled == acked \cup refused \cup lostLines \cup dropped

fate == [l \in Line |->
  CASE read[l[1]] < l[2] -> "unread"
    [] l \in dropped -> "dropped"
    [] l \in acked -> "acked"
    [] l \in refused -> "refused"
    [] l \in lostLines -> "lost"
    [] \E o \in Outlets : l \in Outlet!Lines(cur[o]) -> "posting"
    [] \E i \in DOMAIN batches : l \in Outlet!Lines(batches[i]) -> "queued"
    [] OTHER -> "held"]

Fate == INSTANCE LineFate

\* The shuttle implements LineFate: whatever the readers' goroutines, the
\* timers, the outlets and Land do, every line passes through its fates in the
\* order LineFate allows and ends once.
ImplementsLineFate == Fate!Spec

\* The comment of Land, "ensuring that anything read is batched and delivered",
\* as the code keeps it: when Land returns every line a tracked reader has read
\* was dropped, or an outlet has tried it to the end.
LandedSettled ==
  lander = "landed" =>
    \A r \in Tracked : \A n \in 1..read[r] : <<r, n>> \in Settled

\* The comment of Land, "A panic is likely to happen if Land() is called before
\* any readers [...] aren't closed": a send on the closed channel can come from
\* an untracked reader only, never from the expirer of a tracked one.
PanicsOnlyUntracked ==
  panicked => \E r \in Readers \ Tracked : \E w \in Reader!Who :
                pc[r][w] = "send" /\ lander \in {"draining", "landed"}

\* With one outlet the endpoint accepts the lines of a reader in the order they
\* were read, however often a batch is retried.
AcceptedInOrder ==
  [][\A l \in acked' \ acked, m \in acked : l[1] = m[1] => m[2] < l[2]]_vars

\* Once the shuttle is launched a line that was read is settled in the end,
\* whether Land is called or not.
EverySettled ==
  \A r \in Readers, n \in 1..MaxLines :
    (lander # "loading" /\ read[r] >= n) ~> <<r, n>> \in Settled

\* Land returns: closing the inputs ends the readers, closing the channel ends
\* the outlets, in drop mode and when readers are blocked on a full channel, and
\* though a reader loaded after Launch never ends.
LandReturns == lander = "docking" ~> lander = "landed"

-----------------------------------------------------------------------------
(***************************************************************************)
(* The inductive invariant                                                 *)
(***************************************************************************)
\* The outlets have seen what the readers have sent, no more and no less.
Linked == Outlet!Seen = enqueued

\* A batch on its way is a run of consecutive lines of one reader.
IsRun(s) ==
  \E r \in Readers, i, j \in 1..MaxLines : i <= j /\ Outlet!Lines(s) = {r} \X (i..j)

BatchesAreRuns ==
  /\ \A k \in DOMAIN batches : IsRun(batches[k])
  /\ \A o \in Outlets : cur[o] # <<>> => IsRun(cur[o])

\* The life of the shuttle: what each stage of it can rely on.
Stages ==
  /\ lander \in {"loading", "running", "docking", "draining", "landed"}
  /\ started \subseteq loaded /\ loaded \subseteq Tracked
  /\ panicked \in BOOLEAN
  /\ lander = "loading" => started = {}
  /\ \A r \in Tracked \ started : read[r] = 0
  /\ batchesClosed <=> lander \in {"draining", "landed"}
  /\ batchesClosed => \A r \in started : pc[r]["reader"] = "done"
  /\ \A o \in Outlets : opc[o] = "done" => batchesClosed /\ batches = <<>>
  /\ lander = "landed" => \A o \in Outlets : opc[o] = "done"

\* Together with the invariants of the two components these are inductive.
IInv ==
  /\ Reader!IInv
  /\ Outlet!IInv
  /\ Linked
  /\ BatchesAreRuns
  /\ Stages
  /\ PanicsOnlyUntracked
=============================================================================
