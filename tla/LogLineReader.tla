---------------------------- MODULE LogLineReader ----------------------------
(***************************************************************************)
(* reader.go and batch.go: the LogLineReaders of a shuttle.  A reader is   *)
(* two goroutines that share the batch under construction b, the mutex mu  *)
(* and a timer:                                                            *)
(*   "reader"   ReadLines: reads a line, adds it to b, delivers a full b;  *)
(*              on the input's error delivers what is left and returns;    *)
(*   "expirer"  expireBatches: delivers b when the timer has ticked.       *)
(* Both deliver through deliverOrDropCurrent, that sends b into the        *)
(* shuttle's channel of batches or, when it is full, drops b (-drop) or    *)
(* blocks with mu held.                                                    *)
(*                                                                         *)
(* A line is <<r, n>>: the n-th line that reader r reads.  mu is held      *)
(* exactly while one of the two goroutines is inside deliverOrDropCurrent  *)
(* with a batch that is not empty (Delivering): the other critical         *)
(* sections touch nothing but state that mu protects and the timer, so     *)
(* each is a single step.                                                  *)
(*                                                                         *)
(* The timer's channel has one slot and Stop and Reset do not empty it     *)
(* (go.mod says go 1.13, which selects asynctimerchan=1 in every           *)
(* toolchain): a tick can outlive the batch it was meant for.              *)
(***************************************************************************)
EXTENDS Naturals, Sequences, FiniteSets, Counter

CONSTANTS
  Readers,     \* the readers loaded into the shuttle
  BatchSize,   \* config.BatchSize, lines per batch
  BackBuff,    \* config.BackBuff, batches the channel holds
  Drop,        \* config.Drop, drop or block when the channel is full
  MaxLines     \* bound: the number of lines that each input provides

ASSUME ReaderAssumption ==
  /\ BatchSize \in Nat \ {0}
  /\ BackBuff \in Nat \ {0}
  /\ Drop \in BOOLEAN
  /\ MaxLines \in Nat

VARIABLES
  pc,            \* where each of the two goroutines of a reader is
  after,         \* where the "reader" goroutine goes once it has released mu
  inputClosed,   \* Close has been called on the reader's input
  read,          \* lines read so far (the reader's share of lines.read)
  b,             \* the batch under construction
  armed,         \* the timer is running
  tick,          \* a tick is in the timer's channel
  linesBatched,  \* the reader's share of the metric lines.batched
  linesDropped,  \* the reader's share of the metric lines.dropped
  batches,       \* the channel Shuttle.Batches, shared with the outlets
  batchesClosed, \* that channel has been closed
  drops,         \* the counter Shuttle.Drops, shared with the outlets
  enqueued,      \* ghost: the lines sent into the channel so far
  dropped        \* ghost: the lines dropped so far

readerVars == <<after, inputClosed, read, b, armed, tick>>
statVars   == <<linesBatched, linesDropped, drops>>
chanVars   == <<batches, batchesClosed, enqueued, dropped>>
vars       == <<pc, readerVars, statVars, chanVars>>

Who  == {"reader", "expirer"}
Line == Readers \X (Nat \ {0})
Lines(s) == {s[i] : i \in DOMAIN s}

Delivering == {"send", "sent", "full"}
ReaderLoc  == {"read", "add", "flush", "close", "done"} \cup Delivering
ExpirerLoc == {"wait", "expire", "exit"} \cup Delivering

\* Mutant of MuFree: deliverOrDropCurrent is called without the mutex.
MuIgnored(r) == TRUE

MuFree(r) == \A w \in Who : pc[r][w] \notin Delivering

Goto(r, w, loc) == pc' = [pc EXCEPT ![r][w] = loc]

StopTimer(r)  == armed' = [armed EXCEPT ![r] = FALSE]
ResetTimer(r) == armed' = [armed EXCEPT ![r] = TRUE]

-----------------------------------------------------------------------------
(***************************************************************************)
(* The batch under construction                                            *)
(***************************************************************************)
\* Mutant of IsFull: off by one, the batch grows beyond its capacity.
IsFullLate(lines) == Len(lines) > BatchSize

\* What Batch.Add returns.
IsFull(lines) == Len(lines) = BatchSize

\* Mutant of NeedsTimer: the timer is started by the second line.
NeedsTimerLate(lines) == Len(lines) = 2

\* The line just added is the first of its batch: the timer must run.
NeedsTimer(lines) == Len(lines) = 1

-----------------------------------------------------------------------------
Init ==
  /\ pc = [r \in Readers |-> [w \in Who |-> IF w = "reader" THEN "read" ELSE "wait"]]
  /\ after = [r \in Readers |-> "read"]
  /\ inputClosed = [r \in Readers |-> FALSE]
  /\ read = [r \in Readers |-> 0]
  /\ b = [r \in Readers |-> <<>>]
  /\ armed = [r \in Readers |-> FALSE]
  /\ tick = [r \in Readers |-> FALSE]
  /\ linesBatched = [r \in Readers |-> 0]
  /\ linesDropped = [r \in Readers |-> 0]
  /\ batches = <<>>
  /\ batchesClosed = FALSE
  /\ drops = NewCounter(0)
  /\ enqueued = {}
  /\ dropped = {}

(***************************************************************************)
(* deliverOrDropCurrent, entered with mu held and the timer stopped: the   *)
(* channel operation, then the bookkeeping and the new batch.  A send on   *)
(* the closed channel panics, in the select too: see Panic of Shuttle.     *)
(***************************************************************************)
Enqueue(r, w) ==
  /\ pc[r][w] = "send"
  /\ ~batchesClosed
  /\ Len(batches) < BackBuff
  /\ batches' = Append(batches, b[r])
  /\ enqueued' = enqueued \cup Lines(b[r])
  /\ Goto(r, w, "sent")
  /\ UNCHANGED <<readerVars, statVars, batchesClosed, dropped>>

DropBatch(r, w) ==
  /\ pc[r][w] = "send"
  /\ ~batchesClosed
  /\ Drop
  /\ Len(batches) = BackBuff
  /\ dropped' = dropped \cup Lines(b[r])
  /\ Goto(r, w, "full")
  /\ UNCHANGED <<readerVars, statVars, batches, batchesClosed, enqueued>>

\* Mutant of CountDropped: dropped lines are not reported to the outlets.
DropUnreported(r, n) ==
  /\ linesDropped' = [linesDropped EXCEPT ![r] = @ + n]
  /\ UNCHANGED drops

\* Mutant of CountDropped: dropped lines are missing in the metric.
DropUnmetered(r, n) ==
  /\ drops' = Add(drops, n)
  /\ UNCHANGED linesDropped

CountDropped(r, n) ==
  /\ linesDropped' = [linesDropped EXCEPT ![r] = @ + n]
  /\ drops' = Add(drops, n)

\* The counters, the new batch, and the Unlock of the caller.
Settle(r, w) ==
  /\ \/ /\ pc[r][w] = "sent"
        /\ linesBatched' = [linesBatched EXCEPT ![r] = @ + Len(b[r])]
        /\ UNCHANGED <<linesDropped, drops>>
     \/ /\ pc[r][w] = "full"
        /\ CountDropped(r, Len(b[r]))
        /\ UNCHANGED linesBatched
  /\ b' = [b EXCEPT ![r] = <<>>]
  /\ Goto(r, w, IF w = "reader" THEN after[r] ELSE "wait")
  /\ UNCHANGED <<after, inputClosed, read, armed, tick, chanVars>>

Deliver(r, w) ==
  \/ Enqueue(r, w)
  \/ DropBatch(r, w)
  \/ Settle(r, w)

-----------------------------------------------------------------------------
(***************************************************************************)
(* ReadLines, the "reader" goroutine                                       *)
(***************************************************************************)
\* ReadBytes returns a line.  An error may come with it (an input that does
\* not end in a newline): the line is added first, the error handled next.
ReadBytes(r) ==
  /\ pc[r]["reader"] = "read"
  /\ read[r] < MaxLines
  /\ read' = [read EXCEPT ![r] = @ + 1]
  /\ \E loc \in {"read", "flush"} : after' = [after EXCEPT ![r] = loc]
  /\ Goto(r, "reader", "add")
  /\ UNCHANGED <<inputClosed, b, armed, tick, statVars, chanVars>>

\* ReadBytes returns an error (the end of the input, or its Close) and no line.
ReadErr(r) ==
  /\ pc[r]["reader"] = "read"
  /\ Goto(r, "reader", "flush")
  /\ UNCHANGED <<readerVars, statVars, chanVars>>

AddLine(r) ==
  /\ pc[r]["reader"] = "add"
  /\ MuFree(r)
  /\ LET lines == Append(b[r], <<r, read[r]>>) IN
     /\ b' = [b EXCEPT ![r] = lines]
     /\ \/ /\ IsFull(lines)
           /\ StopTimer(r)
           /\ Goto(r, "reader", "send")
        \/ /\ ~IsFull(lines)
           /\ IF NeedsTimer(lines) THEN ResetTimer(r) ELSE UNCHANGED armed
           /\ Goto(r, "reader", after[r])
  /\ UNCHANGED <<after, inputClosed, read, tick, statVars, chanVars>>

\* Mutant of FlushTo: what is left in the batch is forgotten.
FlushNothing(r) == "close"

FlushTo(r) == IF b[r] = <<>> THEN "close" ELSE "send"

\* After an error: deliver what is left.
Flush(r) ==
  /\ pc[r]["reader"] = "flush"
  /\ MuFree(r)
  /\ StopTimer(r)
  /\ after' = [after EXCEPT ![r] = "close"]
  /\ Goto(r, "reader", FlushTo(r))
  /\ UNCHANGED <<inputClosed, read, b, tick, statVars, chanVars>>

\* close(rdr.close), and the rWaiter.Done of the goroutine of Launch.
CloseStop(r) ==
  /\ pc[r]["reader"] = "close"
  /\ Goto(r, "reader", "done")
  /\ UNCHANGED <<readerVars, statVars, chanVars>>

-----------------------------------------------------------------------------
(***************************************************************************)
(* The timer, and expireBatches, the "expirer" goroutine                   *)
(***************************************************************************)
Fire(r) ==
  /\ armed[r]
  /\ armed' = [armed EXCEPT ![r] = FALSE]
  /\ tick' = [tick EXCEPT ![r] = TRUE]
  /\ UNCHANGED <<pc, after, inputClosed, read, b, statVars, chanVars>>

\* The select takes a tick.
Tick(r) ==
  /\ pc[r]["expirer"] = "wait"
  /\ tick[r]
  /\ tick' = [tick EXCEPT ![r] = FALSE]
  /\ Goto(r, "expirer", "expire")
  /\ UNCHANGED <<after, inputClosed, read, b, armed, statVars, chanVars>>

\* Deliver the batch, or nothing when it has been delivered meanwhile.
Expire(r) ==
  /\ pc[r]["expirer"] = "expire"
  /\ MuFree(r)
  /\ StopTimer(r)
  /\ Goto(r, "expirer", IF b[r] = <<>> THEN "wait" ELSE "send")
  /\ UNCHANGED <<after, inputClosed, read, b, tick, statVars, chanVars>>

\* Mutant of Closed: ReadLines returns without closing rdr.close.
NeverClosed(r) == FALSE

\* ReadLines has closed rdr.close.
Closed(r) == pc[r]["reader"] = "done"

\* The select finds rdr.close closed.
Exit(r) ==
  /\ pc[r]["expirer"] = "wait"
  /\ Closed(r)
  /\ Goto(r, "expirer", "exit")
  /\ UNCHANGED <<readerVars, statVars, chanVars>>

-----------------------------------------------------------------------------
\* Close, called by the shuttle or by the owner of the reader.
CloseInput(r) ==
  /\ ~inputClosed[r]
  /\ inputClosed' = [inputClosed EXCEPT ![r] = TRUE]
  /\ UNCHANGED <<pc, after, read, b, armed, tick, statVars, chanVars>>

\* The other end of the channel, an outlet.
Consume ==
  /\ batches # <<>>
  /\ batches' = Tail(batches)
  /\ UNCHANGED <<pc, readerVars, statVars, batchesClosed, enqueued, dropped>>

\* The steps a scheduler owes to the goroutine, once it can take them.
ReaderRuns(r) ==
  \/ inputClosed[r] /\ ReadErr(r)
  \/ AddLine(r)
  \/ Flush(r)
  \/ CloseStop(r)
  \/ Deliver(r, "reader")

ExpirerRuns(r) ==
  \/ Tick(r)
  \/ Expire(r)
  \/ Exit(r)
  \/ Deliver(r, "expirer")

ReaderStep(r) ==
  \/ ReadBytes(r)
  \/ ReadErr(r)
  \/ AddLine(r)
  \/ Flush(r)
  \/ CloseStop(r)
  \/ Deliver(r, "reader")
  \/ ExpirerRuns(r)
  \/ Fire(r)
  \/ CloseInput(r)

Finished(r) == pc[r]["reader"] = "done" /\ pc[r]["expirer"] = "exit"

\* Both goroutines of every reader have returned: the only way to stop.
Terminated ==
  /\ \A r \in Readers : Finished(r) /\ inputClosed[r]
  /\ batches = <<>>
  /\ UNCHANGED vars

Next ==
  \/ \E r \in Readers : ReaderStep(r)
  \/ Consume
  \/ Terminated

\* The goroutines are scheduled, a running timer fires, the channel is drained.
\* The input owes neither a line nor its end.
Fairness ==
  /\ \A r \in Readers :
       /\ WF_vars(ReaderRuns(r))
       /\ WF_vars(ExpirerRuns(r))
       /\ WF_vars(Fire(r))
  /\ WF_vars(Consume)

Safety == Init /\ [][Next]_vars
Spec == Safety /\ Fairness

-----------------------------------------------------------------------------
(***************************************************************************)
(* Properties                                                              *)
(***************************************************************************)
\* What the variables may hold; among it, that a batch never outgrows
\* BatchSize (NewBatch's capacity) nor the channel BackBuff.
TypeOK ==
  /\ pc \in [Readers -> [Who -> ReaderLoc \cup ExpirerLoc]]
  /\ \A r \in Readers : /\ pc[r]["reader"] \in ReaderLoc
                         /\ pc[r]["expirer"] \in ExpirerLoc
  /\ after \in [Readers -> {"read", "flush", "close"}]
  /\ inputClosed \in [Readers -> BOOLEAN]
  /\ read \in [Readers -> 0..MaxLines]
  /\ b \in [Readers -> Seq(Line)]
  /\ \A r \in Readers : Len(b[r]) <= BatchSize
  /\ armed \in [Readers -> BOOLEAN]
  /\ tick \in [Readers -> BOOLEAN]
  /\ linesBatched \in [Readers -> Nat]
  /\ linesDropped \in [Readers -> Nat]
  /\ batches \in Seq(Seq(Line))
  /\ Len(batches) <= BackBuff
  /\ batchesClosed \in BOOLEAN
  /\ drops \in CounterType
  /\ enqueued \subseteq Line
  /\ dropped \subseteq Line

\* A line that has been read and not added yet.
Pending(r) == IF pc[r]["reader"] = "add" THEN 1 ELSE 0

\* The batch under construction is in the channel, or dropped, already.
Sent(r) == \E w \in Who : pc[r][w] \in {"sent", "full"}

\* The number of the last line that is no longer in b.
LastAdded(r) == read[r] - Pending(r)
LastSettled(r) == LastAdded(r) - IF Sent(r) THEN 0 ELSE Len(b[r])

LinesOf(r, n) == {r} \X (1..n)

\* The metrics of ReadLines and deliverOrDropCurrent agree between any two
\* steps of the two goroutines: a line read is batched, dropped, in b, or
\* about to be added.
LinesAccounted ==
  \A r \in Readers :
    read[r] = linesBatched[r] + linesDropped[r] + Len(b[r]) + Pending(r)

\* The lines dropped that drops.Add has not counted yet.
Uncounted == UNION {Lines(b[r]) : r \in {q \in Readers : \E w \in Who : pc[q][w] = "full"}}

\* The counter the outlets report from counts exactly the lines that were
\* dropped, whichever goroutines of whichever readers dropped them.
DropsReported == drops.allTime + Cardinality(Uncounted) = Cardinality(dropped)

\* deliverOrDropCurrent disposes of each line once: the lines of a reader
\* that were sent or dropped are the first ones read, with no gap, and none is
\* both.  Two goroutines handling the same batch, or a batch replaced before
\* it was sent, would break it.
SettledOnce ==
  /\ enqueued \cap dropped = {}
  /\ enqueued \cup dropped = UNION {LinesOf(r, LastSettled(r)) : r \in Readers}
  /\ ~Drop => dropped = {}

\* The comment of NewLogLineReader, "we only need a timer running when we
\* actually have log lines in the batch", from the side that matters: a batch
\* that holds lines while nobody holds mu has a timer running, a tick on its
\* way or an expirer about to deliver it, and an expirer that still listens.
NoStrandedBatch ==
  \A r \in Readers :
    b[r] # <<>> /\ MuFree(r)
      => /\ armed[r] \/ tick[r] \/ pc[r]["expirer"] = "expire"
         /\ pc[r]["expirer"] # "exit"

\* When ReadLines is about to return nothing is left behind, and the expirer
\* can send nothing any more: what makes it safe for Land to close the channel
\* after WaitForReadersToFinish, which does not wait for the expirers.
NothingLeftBehind ==
  \A r \in Readers :
    pc[r]["reader"] \in {"close", "done"}
      => /\ LinesOf(r, read[r]) \subseteq enqueued \cup dropped
         /\ b[r] = <<>>
         /\ pc[r]["expirer"] \notin Delivering

Before(l, m) == l[1] = m[1] => l[2] < m[2]

\* What waits in the channel is in the order of reading, within a batch and
\* between the batches of a reader, with every line still in b behind it.
QueueInOrder ==
  /\ \A i \in DOMAIN batches :
       /\ batches[i] # <<>>
       /\ \A j, k \in DOMAIN batches[i] :
            j < k => batches[i][j][1] = batches[i][k][1] /\ Before(batches[i][j], batches[i][k])
       /\ \A j \in DOMAIN batches : i < j =>
            \A l \in Lines(batches[i]), m \in Lines(batches[j]) : Before(l, m)
       /\ \A r \in Readers : ~Sent(r) =>
            \A l \in Lines(batches[i]), m \in Lines(b[r]) : Before(l, m)

\* A line that was read is sent or dropped in the end, even when the input
\* then stays silent: the timer sees to it.
EveryLineSettled ==
  \A r \in Readers, n \in 1..MaxLines :
    read[r] >= n ~> <<r, n>> \in enqueued \cup dropped

\* Once its input is closed a reader's two goroutines return, so the rWaiter of
\* the shuttle is released and the expirer does not leak.
ReadersFinish ==
  \A r \in Readers : inputClosed[r] ~> Finished(r)

-----------------------------------------------------------------------------
(***************************************************************************)
(* The inductive invariant                                                 *)
(***************************************************************************)
\* mu: at most one of the two goroutines delivers, and what it delivers is a
\* batch with lines in it.
MuHeldOnce ==
  \A r \in Readers :
    /\ ~(pc[r]["reader"] \in Delivering /\ pc[r]["expirer"] \in Delivering)
    /\ ~MuFree(r) => b[r] # <<>>

\* b holds the last lines added, in order.
Contiguous ==
  \A r \in Readers :
    /\ Len(b[r]) <= LastAdded(r)
    /\ \A i \in 1..Len(b[r]) : b[r][i] = <<r, LastAdded(r) - Len(b[r]) + i>>

\* A batch that is full is being delivered.
NotFull == \A r \in Readers : MuFree(r) => Len(b[r]) < BatchSize

\* The way out: a reader past its last delivery has an empty batch, and gets
\* there from a delivery only.
Emptied ==
  \A r \in Readers :
    /\ pc[r]["reader"] = "add" => after[r] # "close"
    /\ pc[r]["reader"] \in {"close", "done"} => b[r] = <<>>
    /\ pc[r]["expirer"] = "exit" => pc[r]["reader"] = "done"

\* Together these are inductive; no one of them is.
CoreInv ==
  /\ TypeOK
  /\ MuHeldOnce
  /\ Contiguous
  /\ NotFull
  /\ Emptied
  /\ NoStrandedBatch
  /\ LinesAccounted
  /\ SettledOnce

\* What waits in the channel was sent into it.
QueuedSent == \A i \in DOMAIN batches : Lines(batches[i]) \subseteq enqueued

\* What a goroutine is about to count was dropped, and can be counted.
UncountedDropped == Uncounted \subseteq dropped /\ IsFiniteSet(dropped)

\* The order of the channel and the count of the drops rest on CoreInv.
IInv ==
  /\ CoreInv
  /\ QueuedSent
  /\ QueueInOrder
  /\ UncountedDropped
  /\ DropsReported
=============================================================================
