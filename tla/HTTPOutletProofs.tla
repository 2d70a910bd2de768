--------------------------- MODULE HTTPOutletProofs ---------------------------
(***************************************************************************)
(* Proofs about HTTPOutlet, for any number of outlets, attempts and lines, *)
(* and any size of the channel.  A step of an outlet only moves lines from *)
(* the channel into a hand and from there to the end they meet (Seen       *)
(* stays what it is); no line is in two places.  For the counters, sums    *)
(* over the outlets' hands are shown to move with the hand that changes.   *)
(***************************************************************************)
EXTENDS HTTPOutlet, FiniteSetTheorems, WellFoundedInduction, TLAPS

-----------------------------------------------------------------------------
(***************************************************************************)
(* Where a line is                                                         *)
(***************************************************************************)
\* The lines of a sequence of lines are lines.
LEMMA LinesType ==
  ASSUME NEW s \in Seq(Line)
  PROVE  Lines(s) \subseteq Line
BY DEF Lines

\* A batch that is empty has no lines.
LEMMA NoLines == Lines(<<>>) = {}
BY DEF Lines

\* The lines in the channel are those of its batches.
LEMMA QueuedIs == \A l : l \in Queued <=> \E i \in DOMAIN batches : l \in Lines(batches[i])
BY DEF Queued

\* The lines in the outlets' hands are those of the batches in hand.
LEMMA HoldingIs == \A l : l \in Holding <=> \E o \in Outlets : l \in Lines(cur[o])
BY DEF Holding

\* The same after a step.
LEMMA QueuedIsNext ==
  \A l : l \in Queued' <=> \E i \in DOMAIN batches' : l \in Lines(batches'[i])
BY DEF Queued

LEMMA HoldingIsNext == \A l : l \in Holding' <=> \E o \in Outlets : l \in Lines(cur'[o])
BY DEF Holding

\* What is behind the first element of a sequence.
LEMMA HeadTail ==
  ASSUME NEW S, NEW q \in Seq(S), q # <<>>
  PROVE  /\ 1 \in DOMAIN q /\ Head(q) = q[1] /\ Head(q) \in S
         /\ Tail(q) \in Seq(S) /\ Len(Tail(q)) = Len(q) - 1
         /\ \A i \in DOMAIN Tail(q) :
              i \in Nat /\ i # 0 /\ i + 1 \in DOMAIN q /\ Tail(q)[i] = q[i + 1]
         /\ \A i \in DOMAIN q : i # 1 => i - 1 \in DOMAIN Tail(q) /\ q[i] = Tail(q)[i - 1]
<1>1. Len(q) \in Nat /\ Len(q) # 0 /\ DOMAIN q = 1..Len(q)
  OBVIOUS
<1>2. Tail(q) \in Seq(S) /\ Len(Tail(q)) = Len(q) - 1 /\ DOMAIN Tail(q) = 1..(Len(q) - 1)
  BY <1>1
<1>3. \A i \in 1..(Len(q) - 1) : Tail(q)[i] = q[i + 1]
  BY <1>1
<1>4. \A i \in DOMAIN q : i # 1 => i - 1 \in 1..(Len(q) - 1) /\ (i - 1) + 1 = i
  BY <1>1
<1> QED
  BY <1>1, <1>2, <1>3, <1>4

\* Receive moves the lines of the first batch from the channel to a hand.
LEMMA ReceiveMoves ==
  ASSUME IInv, NEW o \in Outlets, Receive(o)
  PROVE  /\ Queued = Queued' \cup Lines(Head(batches))
         /\ Queued' \cap Lines(Head(batches)) = {}
         /\ Holding' = Holding \cup Lines(Head(batches))
<1> DEFINE first == Lines(Head(batches))
<1>1. /\ batches # <<>> /\ batches' = Tail(batches)
      /\ cur' = [cur EXCEPT ![o] = Head(batches)]
      /\ cur[o] = <<>>
  BY DEF IInv, HandsEmpty, Receive
<1>2. /\ 1 \in DOMAIN batches
      /\ first = Lines(batches[1])
      /\ \A i \in DOMAIN batches' : i + 1 \in DOMAIN batches /\ batches'[i] = batches[i + 1] /\ i + 1 # 1
      /\ \A i \in DOMAIN batches : i # 1 => i - 1 \in DOMAIN batches' /\ batches[i] = batches'[i - 1]
  BY <1>1, HeadTail DEF IInv, TypeOK
<1>3. first \subseteq Queued /\ Queued' \subseteq Queued
  BY <1>2, QueuedIs, QueuedIsNext
<1>4. Queued \subseteq Queued' \cup first
  BY <1>2, QueuedIs, QueuedIsNext
<1>5. Queued' \cap first = {}
  BY <1>2, QueuedIsNext DEF IInv, Apart
<1>6. Holding' = Holding \cup first
  <2>1. cur'[o] = Head(batches) /\ \A p \in Outlets \ {o} : cur'[p] = cur[p]
    BY <1>1 DEF IInv, TypeOK
  <2> HIDE DEF first
  <2>2. Lines(cur[o]) = {} /\ Lines(cur'[o]) = first
    BY <1>1, <2>1, NoLines DEF first
  <2> QED
    BY <2>1, <2>2, HoldingIs, HoldingIsNext
<1> QED
  BY <1>3, <1>4, <1>5, <1>6

\* Return empties a hand.
LEMMA ReturnMoves ==
  ASSUME IInv, NEW o \in Outlets, cur' = [cur EXCEPT ![o] = <<>>]
  PROVE  /\ Holding = Holding' \cup Lines(cur[o])
         /\ Holding' \cap Lines(cur[o]) = {}
         /\ \A p, q \in Outlets : p # q => Lines(cur'[p]) \cap Lines(cur'[q]) = {}
<1>1. cur'[o] = <<>> /\ \A p \in Outlets \ {o} : cur'[p] = cur[p]
  BY DEF IInv, TypeOK
<1>2. Lines(cur'[o]) = {}
  BY <1>1, NoLines
<1>3. \A p \in Outlets \ {o} : Lines(cur'[p]) \cap Lines(cur[o]) = {}
  BY <1>1 DEF IInv, Apart
<1>4. \A p, q \in Outlets : p # q => Lines(cur'[p]) \cap Lines(cur'[q]) = {}
  BY <1>1, <1>2 DEF IInv, Apart
<1> QED
  BY <1>1, <1>2, <1>3, <1>4, HoldingIs, HoldingIsNext

\* A post that is stored counts once more for the lines in hand, which have
\* not been stored more often than they were posted.
LEMMA StoredOnceMore ==
  ASSUME IInv, NEW o \in Outlets, opc[o] = "post", Stored(o)
  PROVE  /\ copies' \in [Line -> 0..MaxAttempts]
         /\ \A l \in Lines(cur[o]) : copies'[l] = copies[l] + 1 /\ copies'[l] <= attempts[o]
         /\ \A l \in Line \ Lines(cur[o]) : copies'[l] = copies[l]
         /\ \A l \in Line : copies[l] <= copies'[l]
<1>1. /\ copies \in [Line -> 0..MaxAttempts]
      /\ copies' = [l \in Line |-> copies[l] + IF l \in Lines(cur[o]) THEN 1 ELSE 0]
      /\ attempts[o] \in 1..MaxAttempts
      /\ Lines(cur[o]) \subseteq Line
      /\ MaxAttempts \in Nat
  BY LinesType, OutletAssumption DEF IInv, TypeOK, Stored, HandsEmpty
<1>2. \A l \in Lines(cur[o]) : copies[l] <= attempts[o] - 1
  BY DEF IInv, StoredWhenPosted, Tried
<1>3. \A l \in Lines(cur[o]) : copies'[l] = copies[l] + 1 /\ copies'[l] <= attempts[o]
  BY <1>1, <1>2
<1>4. \A l \in Line \ Lines(cur[o]) : copies'[l] = copies[l]
  BY <1>1
<1>5. \A l \in Line : copies'[l] \in 0..MaxAttempts /\ copies[l] <= copies'[l]
  BY <1>1, <1>3, <1>4
<1> QED
  BY <1>1, <1>3, <1>4, <1>5

\* Plus adds counts to counts.
LEMMA PlusType ==
  ASSUME NEW c \in Counts, NEW d \in Counts
  PROVE  Plus(c, d) \in Counts
BY DEF Counts, Plus

-----------------------------------------------------------------------------
(***************************************************************************)
(* The steps of an outlet.  Each keeps IInv, and Seen as it is.            *)
(***************************************************************************)
\* The steps that leave the lines where they are and store nothing: Finish,
\* ReadDrops, ReadLost, and what the readers do beside the channel.
LEMMA LinesStay ==
  ASSUME IInv, TypeOK', HandsEmpty',
         UNCHANGED <<cur, batches, acked, refused, lostLines, copies>>,
         \A o \in Outlets : Lines(cur[o]) # {} => Tried(o)' >= Tried(o),
         fed' >= fed
  PROVE  IInv' /\ Seen' = Seen
<1>1. Queued' = Queued /\ Holding' = Holding /\ Ended' = Ended /\ Seen' = Seen
  BY DEF Queued, Holding, Ended, Seen
<1>2. OneOutcome' /\ Apart'
  BY <1>1 DEF IInv, OneOutcome, Apart
<1>3. StoredWhenPosted'
  <2>1. \A o \in Outlets : Tried(o) \in Int /\ Tried(o)' \in Int
    BY DEF IInv, TypeOK, Tried
  <2>2. \A o \in Outlets : \A l \in Lines(cur[o]) : l \in Line
    BY LinesType DEF IInv, TypeOK
  <2>3. \A l \in Line : copies[l] \in Int
    BY OutletAssumption DEF IInv, TypeOK
  <2>4. \A o \in Outlets : \A l \in Lines(cur[o]) : copies[l] <= Tried(o)'
    BY <2>1, <2>2, <2>3 DEF IInv, StoredWhenPosted
  <2> QED
    BY <1>1, <2>4 DEF IInv, StoredWhenPosted
<1>4. FeedNew'
  <2>1. \A k \in DOMAIN Feed : k \in Nat
    BY OutletAssumption
  <2>2. \A k \in DOMAIN Feed : k > fed' => k > fed
    BY <2>1 DEF IInv, TypeOK
  <2> QED
    BY <1>1, <2>2 DEF IInv, FeedNew
<1> QED
  BY <1>1, <1>2, <1>3, <1>4 DEF IInv

\* Finish ends the outlet.
LEMMA FinishStep ==
  ASSUME IInv, NEW o \in Outlets, Finish(o)
  PROVE  IInv' /\ Seen' = Seen
<1> USE DEF Finish, Goto, ghostVars, chanVars
<1>1. TypeOK'
  BY DEF IInv, TypeOK
<1>2. HandsEmpty'
  BY DEF IInv, TypeOK, HandsEmpty
<1>3. \A p \in Outlets : Tried(p)' = Tried(p) /\ Tried(p) \in Int
  BY DEF IInv, TypeOK, Tried
<1> QED
  BY <1>1, <1>2, <1>3, LinesStay DEF IInv, TypeOK

\* ReadDrops takes the counter over.
LEMMA ReadDropsStep ==
  ASSUME IInv, NEW o \in Outlets, ReadDrops(o)
  PROVE  IInv' /\ Seen' = Seen
<1> USE DEF ReadDrops, Goto, ghostVars, chanVars
<1>1. TypeOK'
  BY DEF IInv, TypeOK, Counts, CounterType, Read, Reset
<1>2. HandsEmpty'
  BY DEF IInv, TypeOK, HandsEmpty
<1>3. \A p \in Outlets : Tried(p)' = Tried(p) /\ Tried(p) \in Int
  BY DEF IInv, TypeOK, Tried
<1> QED
  BY <1>1, <1>2, <1>3, LinesStay DEF IInv, TypeOK

\* ReadLost takes the other one over and begins the first attempt.
LEMMA ReadLostStep ==
  ASSUME IInv, NEW o \in Outlets, ReadLost(o)
  PROVE  IInv' /\ Seen' = Seen
<1> USE DEF ReadLost, Goto, ghostVars, chanVars
<1>1. TypeOK'
  BY DEF IInv, TypeOK, Counts, CounterType, Read, Reset
<1>2. HandsEmpty'
  BY OutletAssumption DEF IInv, TypeOK, HandsEmpty
<1>3. \A p \in Outlets : Tried(p)' = Tried(p) /\ Tried(p) \in Int
  BY DEF IInv, TypeOK, Tried
<1> QED
  BY <1>1, <1>2, <1>3, LinesStay DEF IInv, TypeOK

\* Receive takes a batch whose lines have not been stored.
LEMMA ReceiveStep ==
  ASSUME IInv, NEW o \in Outlets, Receive(o)
  PROVE  IInv' /\ Seen' = Seen
<1> DEFINE first == Lines(Head(batches))
<1>1. /\ opc[o] = "recv" /\ batches # <<>> /\ batches' = Tail(batches)
      /\ cur' = [cur EXCEPT ![o] = Head(batches)]
      /\ opc' = [opc EXCEPT ![o] = "drops"]
      /\ UNCHANGED <<attempts, edata, batchesClosed, drops, lost, ghostVars, fed>>
  BY DEF Receive, Goto
<1>2. /\ Queued = Queued' \cup first
      /\ Queued' \cap first = {}
      /\ Holding' = Holding \cup first
  BY ReceiveMoves
<1>3. first \subseteq Line
  BY <1>1, LinesType, HeadTail DEF IInv, TypeOK
<1> HIDE DEF first
<1>4. UNCHANGED <<acked, refused, lostLines, copies>> /\ Ended' = Ended /\ Seen' = Seen
  BY <1>1, <1>2 DEF ghostVars, Ended, Seen
<1>5. TypeOK'
  <2>1. batches' \in Seq(Seq(Line)) /\ Len(batches') <= BackBuff /\ Head(batches) \in Seq(Line)
    <3>1. Len(batches) \in Nat /\ Len(batches) <= BackBuff /\ Len(batches') = Len(batches) - 1
      BY <1>1, HeadTail DEF IInv, TypeOK
    <3> QED
      BY <1>1, <3>1, HeadTail, OutletAssumption DEF IInv, TypeOK
  <2> QED
    BY <1>1, <2>1 DEF IInv, TypeOK, ghostVars
<1>6. OneOutcome'
  BY <1>2, <1>4 DEF IInv, OneOutcome
<1>7. HandsEmpty'
  BY <1>1 DEF IInv, TypeOK, HandsEmpty
<1>8. Apart'
  <2>1. \A p \in Outlets : Lines(cur[p]) \cap first = {}
    BY <1>2, HoldingIs DEF IInv, OneOutcome
  <2>2. /\ cur'[o] = Head(batches)
        /\ \A p \in Outlets \ {o} : cur'[p] = cur[p]
    BY <1>1 DEF IInv, TypeOK
  <2>3. \A p, q \in Outlets : p # q => Lines(cur'[p]) \cap Lines(cur'[q]) = {}
    BY <2>1, <2>2 DEF IInv, Apart, first
  <2>4. \A i, j \in DOMAIN batches' : i # j => Lines(batches'[i]) \cap Lines(batches'[j]) = {}
    <3>1. \A i \in DOMAIN batches' :
            i \in Nat /\ i + 1 \in DOMAIN batches /\ batches'[i] = batches[i + 1]
      BY <1>1, HeadTail DEF IInv, TypeOK
    <3>2. \A i, j \in DOMAIN batches' : i # j => i + 1 # j + 1
      BY <3>1
    <3> QED
      BY <3>1, <3>2 DEF IInv, Apart
  <2> QED
    BY <2>3, <2>4 DEF Apart
<1>9. StoredWhenPosted'
  <2>1. \A l \in first : copies[l] <= 0
    <3>1. \A l \in first : ~(copies[l] > 0)
      BY <1>2, <1>3 DEF IInv, StoredWhenPosted, OneOutcome, Ended
    <3> QED
      BY <1>3, <3>1, OutletAssumption DEF IInv, TypeOK
  <2>2. /\ cur'[o] = Head(batches) /\ Tried(o)' = 0
        /\ \A p \in Outlets \ {o} : cur'[p] = cur[p] /\ Tried(p)' = Tried(p)
    BY <1>1 DEF IInv, TypeOK, Tried
  <2>3. \A p \in Outlets : \A l \in Lines(cur'[p]) : copies'[l] <= Tried(p)'
    BY <1>4, <2>1, <2>2 DEF IInv, StoredWhenPosted, first
  <2> QED
    BY <1>2, <1>4, <2>3 DEF IInv, StoredWhenPosted
<1>10. FeedNew'
  BY <1>1, <1>4 DEF IInv, FeedNew
<1> QED
  BY <1>4, <1>5, <1>6, <1>7, <1>8, <1>9, <1>10 DEF IInv

\* Retry and Lose are what a failed post leads to; its lines stay in hand.
LEMMA PostFailedStep ==
  ASSUME IInv, NEW o \in Outlets, PostFailed(o)
  PROVE  IInv' /\ Seen' = Seen
<1>1. /\ opc[o] = "post" /\ attempts[o] \in 1..MaxAttempts
      /\ Stored(o) \/ UNCHANGED copies
      /\ UNCHANGED <<cur, batches, edata, batchesClosed, drops, lost, acked, refused,
                     lostLines, told, forgotten, fed>>
      /\ \/ /\ attempts[o] < MaxAttempts
            /\ attempts' = [attempts EXCEPT ![o] = @ + 1]
            /\ opc' = opc
         \/ opc' = [opc EXCEPT ![o] = "lose"] /\ attempts' = attempts
  BY DEF IInv, HandsEmpty, PostFailed, Retry, AttemptsLeft, Goto, chanVars
<1>2. /\ copies' \in [Line -> 0..MaxAttempts]
      /\ \A l \in Lines(cur[o]) : copies'[l] <= attempts[o]
      /\ \A l \in Line \ Lines(cur[o]) : copies'[l] = copies[l]
      /\ \A l \in Line : copies[l] <= copies'[l]
  <2>1. CASE Stored(o)
    BY <1>1, <2>1, StoredOnceMore
  <2>2. CASE UNCHANGED copies
    <3>1. /\ \A l \in Lines(cur[o]) : l \in Line /\ copies[l] <= attempts[o] - 1
          /\ \A l \in Line : copies[l] \in Int
      BY <1>1, LinesType, OutletAssumption DEF IInv, TypeOK, StoredWhenPosted, Tried
    <3> QED
      BY <1>1, <2>2, <3>1 DEF IInv, TypeOK
  <2> QED
    BY <1>1, <2>1, <2>2
<1>3. Queued' = Queued /\ Holding' = Holding /\ Ended' = Ended /\ Seen' = Seen
  BY <1>1 DEF Queued, Holding, Ended, Seen
<1>4. \/ /\ attempts' = [attempts EXCEPT ![o] = attempts[o] + 1]
         /\ attempts[o] + 1 \in 1..MaxAttempts
         /\ opc' = opc
      \/ opc' = [opc EXCEPT ![o] = "lose"] /\ attempts' = attempts
  BY <1>1, OutletAssumption
<1>5. TypeOK' /\ HandsEmpty'
  <2>1. CASE /\ attempts' = [attempts EXCEPT ![o] = attempts[o] + 1]
             /\ attempts[o] + 1 \in 1..MaxAttempts
             /\ opc' = opc
    <3>1. attempts' \in [Outlets -> Nat]
      BY <2>1, OutletAssumption DEF IInv, TypeOK
    <3>2. TypeOK'
      BY <1>1, <1>2, <2>1, <3>1 DEF IInv, TypeOK
    <3>3. \A p \in Outlets : attempts'[p] = IF p = o THEN attempts[o] + 1 ELSE attempts[p]
      BY <2>1 DEF IInv, TypeOK
    <3> QED
      BY <1>1, <2>1, <3>2, <3>3 DEF IInv, HandsEmpty
  <2>2. CASE opc' = [opc EXCEPT ![o] = "lose"] /\ attempts' = attempts
    BY <1>1, <1>2, <2>2 DEF IInv, TypeOK, HandsEmpty
  <2> QED
    BY <1>4, <2>1, <2>2
<1>6. Apart' /\ FeedNew'
  BY <1>1, <1>3 DEF IInv, Apart, FeedNew
<1>7. OneOutcome'
  <2>1. \A l \in acked : l \in Line /\ copies'[l] > 0
    <3>1. \A l \in acked : l \in Line /\ copies[l] > 0 /\ copies[l] \in Int /\ copies'[l] \in Int
      BY <1>2, OutletAssumption DEF IInv, TypeOK, OneOutcome
    <3> QED
      BY <1>2, <3>1
  <2> QED
    BY <1>1, <1>3, <2>1 DEF IInv, OneOutcome
<1>8. StoredWhenPosted'
  <2>1. Tried(o)' = attempts[o]
    <3>1. attempts[o] \in Nat
      BY <1>1, OutletAssumption
    <3>2. CASE opc' = opc /\ attempts' = [attempts EXCEPT ![o] = @ + 1]
      BY <1>1, <3>1, <3>2 DEF IInv, TypeOK, Tried
    <3>3. CASE opc' = [opc EXCEPT ![o] = "lose"] /\ attempts' = attempts
      BY <3>3 DEF IInv, TypeOK, Tried
    <3> QED
      BY <1>1, <3>2, <3>3
  <2>2. \A p \in Outlets \ {o} : Tried(p)' = Tried(p)
    BY <1>1 DEF IInv, TypeOK, Tried
  <2>3. \A p \in Outlets \ {o} : \A l \in Lines(cur[p]) : l \in Line \ Lines(cur[o])
    BY LinesType DEF IInv, TypeOK, Apart
  <2>4. \A p \in Outlets : \A l \in Lines(cur'[p]) : copies'[l] <= Tried(p)'
    BY <1>1, <1>2, <2>1, <2>2, <2>3 DEF IInv, StoredWhenPosted
  <2>5. \A l \in Line : copies'[l] > 0 => l \in Holding \cup Ended
    BY <1>2, HoldingIs DEF IInv, StoredWhenPosted
  <2> QED
    BY <1>3, <2>4, <2>5 DEF StoredWhenPosted
<1> QED
  BY <1>3, <1>5, <1>6, <1>7, <1>8 DEF IInv

\* The ends a batch may come to: its lines leave the hand for one of the
\* three sets.
LEMMA BatchEnds ==
  ASSUME IInv, TypeOK', NEW o \in Outlets, opc[o] \in {"post", "lose"}, Return(o),
         UNCHANGED <<batches, fed>>,
         \/ /\ acked' = acked \cup Lines(cur[o])
            /\ UNCHANGED <<refused, lostLines>>
            /\ opc[o] = "post" /\ Stored(o)
         \/ refused' = refused \cup Lines(cur[o]) /\ UNCHANGED <<acked, lostLines, copies>>
         \/ lostLines' = lostLines \cup Lines(cur[o]) /\ UNCHANGED <<acked, refused, copies>>
  PROVE  IInv' /\ Seen' = Seen
<1> DEFINE hand == Lines(cur[o])
<1>1. /\ opc' = [opc EXCEPT ![o] = "recv"] /\ cur' = [cur EXCEPT ![o] = <<>>]
      /\ attempts' = [attempts EXCEPT ![o] = 0]
  BY DEF Return, Goto
<1>2. /\ Holding = Holding' \cup hand /\ Holding' \cap hand = {}
      /\ \A p, q \in Outlets : p # q => Lines(cur'[p]) \cap Lines(cur'[q]) = {}
  BY <1>1, ReturnMoves
<1>3. Queued' = Queued /\ hand \subseteq Line
  BY LinesType DEF Queued, IInv, TypeOK
<1>4. Apart'
  BY <1>2 DEF IInv, Apart
<1>5. HandsEmpty'
  BY <1>1 DEF IInv, TypeOK, HandsEmpty
<1>6. /\ \A l \in Line \ hand : copies'[l] = copies[l]
      /\ \A l \in Line : copies[l] \in Int /\ copies'[l] \in Int
      /\ \A l \in hand : acked' # acked => copies'[l] > 0
      /\ \A l \in Line : copies[l] <= copies'[l]
  <2>1. /\ copies \in [Line -> 0..MaxAttempts] /\ copies' \in [Line -> 0..MaxAttempts]
        /\ MaxAttempts \in Nat
    BY OutletAssumption DEF IInv, TypeOK
  <2>2. CASE Stored(o) /\ opc[o] = "post"
    <3>1. /\ \A l \in hand : copies'[l] = copies[l] + 1
          /\ \A l \in Line \ hand : copies'[l] = copies[l]
          /\ \A l \in Line : copies[l] <= copies'[l]
      BY <2>2, StoredOnceMore
    <3> QED
      BY <1>3, <2>1, <3>1
  <2>3. CASE UNCHANGED <<copies, acked>>
    BY <2>1, <2>3
  <2> QED
    BY <2>2, <2>3
<1>7. /\ acked' \subseteq acked \cup hand
      /\ refused' \subseteq refused \cup hand
      /\ lostLines' \subseteq lostLines \cup hand
      /\ Ended' = Ended \cup hand
  BY DEF Ended
<1>8. hand \cap Ended = {} /\ Queued \cap hand = {}
  BY <1>2 DEF IInv, OneOutcome, Ended
<1> HIDE DEF hand
<1>9. OneOutcome'
  <2>1. /\ acked' \cap refused' = {}
        /\ (acked' \cup refused') \cap lostLines' = {}
    BY <1>8 DEF IInv, OneOutcome, Ended, hand
  <2>2. (Queued' \cup Holding') \cap Ended' = {} /\ Queued' \cap Holding' = {}
    BY <1>2, <1>3, <1>7, <1>8 DEF IInv, OneOutcome, Ended
  <2>3. \A l \in acked' : copies'[l] > 0
    <3>1. \A l \in acked : copies'[l] > 0
      <4>1. \A l \in acked : l \in Line /\ copies[l] > 0
        BY DEF IInv, OneOutcome, TypeOK
      <4> QED
        BY <1>6, <4>1
    <3> QED
      BY <1>6, <1>7, <3>1
  <2> QED
    BY <2>1, <2>2, <2>3 DEF OneOutcome, Ended
<1>10. StoredWhenPosted'
  <2>1. /\ cur'[o] = <<>>
        /\ \A p \in Outlets \ {o} : cur'[p] = cur[p] /\ Tried(p)' = Tried(p)
    BY <1>1 DEF IInv, TypeOK, Tried
  <2>2. \A p \in Outlets \ {o} : \A l \in Lines(cur[p]) : l \in Line \ hand
    BY LinesType DEF IInv, TypeOK, Apart, hand
  <2>3. \A p \in Outlets : \A l \in Lines(cur'[p]) : copies'[l] <= Tried(p)'
    BY <1>6, <2>1, <2>2, NoLines DEF IInv, StoredWhenPosted
  <2>4. \A l \in Line : copies'[l] > 0 => l \in Holding' \cup Ended'
    BY <1>2, <1>6, <1>7 DEF IInv, StoredWhenPosted
  <2> QED
    BY <2>3, <2>4 DEF StoredWhenPosted
<1>11. Seen' = Seen
  BY <1>2, <1>3, <1>7 DEF Seen
<1>12. FeedNew'
  BY <1>11 DEF IInv, FeedNew
<1> QED
  BY <1>4, <1>5, <1>9, <1>10, <1>11, <1>12 DEF IInv

\* PostAccepted: the endpoint has stored the batch and said so.
LEMMA PostAcceptedStep ==
  ASSUME IInv, NEW o \in Outlets, PostAccepted(o)
  PROVE  IInv' /\ Seen' = Seen
<1>1. TypeOK'
  <2>1. copies' \in [Line -> 0..MaxAttempts]
    BY StoredOnceMore DEF PostAccepted
  <2>2. Plus(told, edata[o]) \in Counts
    BY PlusType DEF IInv, TypeOK
  <2>3. Lines(cur[o]) \subseteq Line
    BY LinesType DEF IInv, TypeOK
  <2> QED
    BY <2>1, <2>2, <2>3 DEF IInv, TypeOK, PostAccepted, Return, Goto, None, Counts, chanVars
<1> QED
  BY <1>1, BatchEnds DEF PostAccepted, chanVars

\* PostRefused: the endpoint has refused it.
LEMMA PostRefusedStep ==
  ASSUME IInv, NEW o \in Outlets, PostRefused(o)
  PROVE  IInv' /\ Seen' = Seen
<1>1. TypeOK'
  <2>1. Plus(forgotten, edata[o]) \in Counts
    BY PlusType DEF IInv, TypeOK
  <2>2. Lines(cur[o]) \subseteq Line
    BY LinesType DEF IInv, TypeOK
  <2> QED
    BY <2>1, <2>2 DEF IInv, TypeOK, PostRefused, Return, Goto, None, Counts, chanVars
<1> QED
  BY <1>1, BatchEnds DEF PostRefused, chanVars

\* Lose: the outlet gives it up.
LEMMA LoseStep ==
  ASSUME IInv, NEW o \in Outlets, Lose(o)
  PROVE  IInv' /\ Seen' = Seen
<1>1. TypeOK'
  <2>1. Plus(forgotten, edata[o]) \in Counts
    BY PlusType DEF IInv, TypeOK
  <2>2. Lines(cur[o]) \subseteq Line
    BY LinesType DEF IInv, TypeOK
  <2>3. Add(lost, Len(cur[o])) \in CounterType
    BY DEF IInv, TypeOK, Add, CounterType
  <2> QED
    BY <2>1, <2>2, <2>3 DEF IInv, TypeOK, Lose, Return, Goto, None, Counts, chanVars
<1> QED
  BY <1>1, BatchEnds DEF Lose, chanVars

\* Any step of an outlet.
LEMMA OutletStepIInv ==
  ASSUME IInv, NEW o \in Outlets, OutletStep(o)
  PROVE  IInv' /\ Seen' = Seen
BY ReceiveStep, FinishStep, ReadDropsStep, ReadLostStep, PostAcceptedStep,
   PostRefusedStep, PostFailedStep, LoseStep DEF OutletStep

-----------------------------------------------------------------------------
(***************************************************************************)
(* The steps of the readers                                                *)
(***************************************************************************)
\* A batch of lines that are new to the outlets arrives in the channel.
LEMMA Arrival ==
  ASSUME IInv, NEW s \in Seq(Line), Lines(s) \cap Seen = {},
         Len(batches) < BackBuff, batches' = Append(batches, s),
         UNCHANGED <<localVars, batchesClosed, drops, lost, ghostVars>>, fed' \in Nat
  PROVE  /\ TypeOK' /\ OneOutcome' /\ HandsEmpty' /\ Apart' /\ StoredWhenPosted'
         /\ Seen' = Seen \cup Lines(s)
<1> USE DEF localVars, ghostVars
<1>1. /\ Len(batches) \in Nat /\ DOMAIN batches = 1..Len(batches)
      /\ DOMAIN batches' = 1..(Len(batches) + 1) /\ Len(batches') = Len(batches) + 1
      /\ \A i \in 1..Len(batches) : batches'[i] = batches[i]
      /\ batches'[Len(batches) + 1] = s
      /\ batches' \in Seq(Seq(Line))
  BY DEF IInv, TypeOK
<1>2. Queued' = Queued \cup Lines(s)
  <2>1. \A i \in DOMAIN batches' : i \in DOMAIN batches \/ i = Len(batches) + 1
    BY <1>1
  <2>2. Len(batches) + 1 \in DOMAIN batches' /\ DOMAIN batches \subseteq DOMAIN batches'
    BY <1>1
  <2> QED
    BY <1>1, <2>1, <2>2, QueuedIs, QueuedIsNext
<1>3. Holding' = Holding /\ Ended' = Ended /\ Seen' = Seen \cup Lines(s)
  BY <1>2 DEF Holding, Ended, Seen
<1>4. TypeOK'
  BY <1>1, OutletAssumption DEF IInv, TypeOK
<1>5. OneOutcome'
  BY <1>2, <1>3 DEF IInv, OneOutcome, Seen, Ended
<1>6. HandsEmpty'
  BY DEF IInv, HandsEmpty
<1>7. Apart'
  <2>1. \A i \in 1..Len(batches) : Lines(batches[i]) \cap Lines(s) = {}
    BY <1>1, QueuedIs DEF Seen
  <2>2. \A i \in DOMAIN batches' : i \in DOMAIN batches \/ i = Len(batches) + 1
    BY <1>1
  <2>3. \A i, j \in DOMAIN batches' : i # j => Lines(batches'[i]) \cap Lines(batches'[j]) = {}
    BY <1>1, <2>1, <2>2 DEF IInv, Apart
  <2> QED
    BY <2>3 DEF IInv, Apart
<1>8. StoredWhenPosted'
  <2>1. \A o \in Outlets : Tried(o)' = Tried(o)
    BY DEF Tried
  <2> QED
    BY <1>3, <2>1 DEF IInv, StoredWhenPosted
<1> QED
  BY <1>3, <1>4, <1>5, <1>6, <1>7, <1>8

\* ReaderFeeds sends the next batch.
LEMMA ReaderFeedsStep ==
  ASSUME IInv, ReaderFeeds
  PROVE  IInv'
<1>1. /\ fed \in Nat /\ Len(Feed) \in Nat /\ DOMAIN Feed = 1..Len(Feed)
      /\ fed + 1 \in DOMAIN Feed /\ fed' = fed + 1 /\ Feed[fed + 1] \in Seq(Line)
  BY OutletAssumption DEF IInv, TypeOK, ReaderFeeds
<1>2. Lines(Feed[fed + 1]) \cap Seen = {}
  BY <1>1 DEF IInv, FeedNew
<1>3. /\ TypeOK' /\ OneOutcome' /\ HandsEmpty' /\ Apart' /\ StoredWhenPosted'
      /\ Seen' = Seen \cup Lines(Feed[fed + 1])
  BY <1>1, <1>2, Arrival DEF ReaderFeeds
<1>4. FeedNew'
  <2> SUFFICES ASSUME NEW k \in DOMAIN Feed, k > fed'
               PROVE  Lines(Feed[k]) \cap Seen' = {}
    BY DEF FeedNew
  <2>1. k > fed /\ k # fed + 1
    BY <1>1
  <2>2. Lines(Feed[k]) \cap Lines(Feed[fed + 1]) = {}
    BY <1>1, <2>1, OutletAssumption
  <2> QED
    BY <1>3, <2>1, <2>2 DEF IInv, FeedNew
<1> QED
  BY <1>3, <1>4 DEF IInv

\* ReaderDrops drops it.
LEMMA ReaderDropsStep ==
  ASSUME IInv, ReaderDrops
  PROVE  IInv'
<1> USE DEF ReaderDrops, localVars, chanVars, ghostVars
<1>1. TypeOK'
  <2>1. fed + 1 \in DOMAIN Feed /\ Len(Feed[fed + 1]) \in Nat
    BY OutletAssumption DEF IInv, TypeOK
  <2> QED
    BY <2>1 DEF IInv, TypeOK, Add, CounterType
<1>2. HandsEmpty'
  BY DEF IInv, HandsEmpty
<1>3. \A o \in Outlets : Tried(o)' = Tried(o) /\ Tried(o) \in Int
  BY DEF IInv, TypeOK, Tried
<1> QED
  BY <1>1, <1>2, <1>3, LinesStay DEF IInv, TypeOK

\* The readers may add to drops, and Land closes the channel.
LEMMA StillStep ==
  ASSUME IInv, UNCHANGED <<localVars, batches, lost, ghostVars, fed>>,
         drops' \in CounterType, batchesClosed' \in BOOLEAN
  PROVE  IInv' /\ Seen' = Seen
<1> USE DEF localVars, ghostVars
<1>1. TypeOK'
  BY DEF IInv, TypeOK
<1>2. HandsEmpty'
  BY DEF IInv, HandsEmpty
<1>3. \A o \in Outlets : Tried(o)' = Tried(o) /\ Tried(o) \in Int
  BY DEF IInv, TypeOK, Tried
<1> QED
  BY <1>1, <1>2, <1>3, LinesStay DEF IInv, TypeOK

-----------------------------------------------------------------------------
(***************************************************************************)
(* The theorems                                                            *)
(***************************************************************************)
\* The initial states satisfy IInv.
LEMMA InitIInv == Init => IInv
<1> SUFFICES ASSUME Init PROVE IInv
  OBVIOUS
<1>1. TypeOK
  <2>1. None \in Counts /\ NewCounter(0) \in CounterType
    BY DEF Counts, None, CounterType, NewCounter
  <2>2. copies \in [Line -> 0..MaxAttempts]
    BY OutletAssumption DEF Init
  <2>3. Len(batches) <= BackBuff /\ batches \in Seq(Seq(Line))
    BY OutletAssumption DEF Init
  <2>4. cur \in [Outlets -> Seq(Line)] /\ edata \in [Outlets -> Counts]
    BY <2>1 DEF Init
  <2> QED
    BY <2>1, <2>2, <2>3, <2>4 DEF Init, TypeOK
<1>2. Queued = {} /\ Holding = {} /\ Ended = {} /\ Seen = {}
  <2>1. Queued = {} /\ Holding = {}
    BY NoLines DEF Init, Queued, Holding
  <2> QED
    BY <2>1 DEF Init, Ended, Seen
<1>3. OneOutcome
  BY <1>2 DEF Init, OneOutcome
<1>4. HandsEmpty /\ Apart
  BY NoLines DEF Init, HandsEmpty, Apart
<1>5. StoredWhenPosted
  BY NoLines DEF Init, StoredWhenPosted
<1>6. FeedNew
  BY <1>2 DEF FeedNew
<1> QED
  BY <1>1, <1>3, <1>4, <1>5, <1>6 DEF IInv

\* Every step keeps IInv.
LEMMA NextIInv == IInv /\ [Next]_vars => IInv'
<1> SUFFICES ASSUME IInv, [Next]_vars PROVE IInv'
  OBVIOUS
<1>1. CASE Land
  BY <1>1, StillStep DEF Land, IInv, TypeOK
<1>2. CASE UNCHANGED vars
  BY <1>2, StillStep DEF vars, chanVars, IInv, TypeOK
<1> QED
  BY <1>1, <1>2, OutletStepIInv, ReaderFeedsStep, ReaderDropsStep DEF Next, Terminated

\* IInv holds in every state of every behaviour.
THEOREM Invariance == Safety => []IInv
<1> QED
  BY InitIInv, NextIInv, PTL DEF Safety

\* Type correctness, the capacity of the channel among it.
THEOREM TypeCorrect == Safety => []TypeOK
<1>1. IInv => TypeOK
  BY DEF IInv
<1> QED
  BY <1>1, Invariance, PTL

\* A batch that was taken from the channel ends in one way, for all its lines.
THEOREM EndsOnce == Safety => []OneOutcome
<1>1. IInv => OneOutcome
  BY DEF IInv
<1> QED
  BY <1>1, Invariance, PTL

\* A refused line has been stored by the posts before its last, if at all.
RefusedLess == \A l \in refused : copies[l] < MaxAttempts

\* No step stores a line that has ended.
LEMMA EndedNotStored ==
  ASSUME IInv, [Next]_vars
  PROVE  \A l \in refused : copies'[l] = copies[l]
<1>1. ASSUME NEW o \in Outlets, opc[o] = "post", Stored(o)
      PROVE  \A l \in refused : copies'[l] = copies[l]
  <2>1. refused \cap Lines(cur[o]) = {} /\ refused \subseteq Line
    BY HoldingIs DEF IInv, TypeOK, OneOutcome
  <2> QED
    BY <1>1, <2>1, StoredOnceMore
<1>2. \/ UNCHANGED copies
      \/ \E o \in Outlets : opc[o] = "post" /\ Stored(o)
  BY DEF Next, OutletStep, Receive, Finish, ReadDrops, ReadLost, PostAccepted, PostRefused,
     PostFailed, Lose, ReaderFeeds, ReaderDrops, Land, Terminated, vars, ghostVars
<1> QED
  BY <1>1, <1>2

\* Only a post that is refused adds to the refused lines, and it was not stored
\* by its last attempt.
LEMMA RefusedLessKept ==
  ASSUME IInv, RefusedLess, [Next]_vars
  PROVE  RefusedLess'
<1>1. ASSUME NEW o \in Outlets, PostRefused(o)
      PROVE  \A l \in Lines(cur[o]) : copies'[l] < MaxAttempts
  <2>1. /\ opc[o] = "post" /\ attempts[o] \in 1..MaxAttempts /\ copies' = copies
        /\ Lines(cur[o]) \subseteq Line /\ MaxAttempts \in Nat
        /\ copies \in [Line -> 0..MaxAttempts]
    BY <1>1, LinesType, OutletAssumption DEF PostRefused, IInv, HandsEmpty, TypeOK
  <2>2. \A l \in Lines(cur[o]) : copies[l] <= attempts[o] - 1
    BY <2>1 DEF IInv, StoredWhenPosted, Tried
  <2> QED
    BY <2>1, <2>2
<1>2. \/ refused' = refused
      \/ \E o \in Outlets : PostRefused(o) /\ refused' = refused \cup Lines(cur[o])
  BY DEF Next, OutletStep, Receive, Finish, ReadDrops, ReadLost, PostAccepted, PostRefused,
     PostFailed, Lose, ReaderFeeds, ReaderDrops, Land, Terminated, vars, ghostVars
<1>3. \A l \in refused : copies'[l] < MaxAttempts
  BY EndedNotStored DEF RefusedLess
<1> QED
  BY <1>1, <1>2, <1>3 DEF RefusedLess

\* Whatever fails and is tried again, a line is stored MaxAttempts times at most,
\* not before its batch leaves the channel, and once less if it is refused.
THEOREM StoresBounded == Safety => []StoredByPosts
<1>1. Init => RefusedLess
  BY DEF Init, RefusedLess
<1>2. IInv /\ RefusedLess /\ [Next]_vars => RefusedLess'
  BY RefusedLessKept
<1>3. IInv /\ RefusedLess => StoredByPosts
  <2> SUFFICES ASSUME IInv, RefusedLess PROVE StoredByPosts
    OBVIOUS
  <2>1. copies \in [Line -> 0..MaxAttempts] /\ MaxAttempts \in Nat
    BY OutletAssumption DEF IInv, TypeOK
  <2>2. Queued \subseteq Line
    BY QueuedIs, LinesType DEF IInv, TypeOK
  <2>3. \A l \in Queued : ~(copies[l] > 0)
    BY <2>2 DEF IInv, StoredWhenPosted, OneOutcome, Ended
  <2>4. \A l \in Queued : copies[l] = 0
    BY <2>1, <2>2, <2>3
  <2> QED
    BY <2>1, <2>4 DEF StoredByPosts, RefusedLess, IInv, OneOutcome
<1> QED
  BY <1>1, <1>2, <1>3, Invariance, PTL DEF Safety

-----------------------------------------------------------------------------
(***************************************************************************)
(* Sums over a finite set, as MapThenSumSet computes them: take an element *)
(* away, add its number to the sum of the rest.  The induction over        *)
(* subsets is the choice of a smallest counterexample.                     *)
(***************************************************************************)
\* The element with which a sum begins.
Pick(s) == CHOOSE x \in s : TRUE

\* it is the sum of F over the subsets of S, as MapThenSumSet computes it.
IsSum(it, F, S) ==
  it = [s \in SUBSET S |-> IF s = {} THEN 0 ELSE F[Pick(s)] + it[s \ {Pick(s)}]]

\* The same for subsets that are not larger than m.
IsSumTo(it, F, S, m) ==
  it = [s \in {u \in SUBSET S : Cardinality(u) <= m} |->
          IF s = {} THEN 0 ELSE F[Pick(s)] + it[s \ {Pick(s)}]]

\* A set of subsets of a finite set has a smallest element.
LEMMA SmallestSubset ==
  ASSUME NEW S, IsFiniteSet(S), NEW T \in SUBSET (SUBSET S), T # {}
  PROVE  \E t \in T : \A u \in T : u \subseteq t => u = t
<1>1. IsWellFoundedOn(StrictSubsetOrdering(S), SUBSET S)
  BY FS_StrictSubsetOrderingWellFounded, FS_FiniteSubsetsOfFinite
<1>2. \E t \in T : \A u \in T : ~(<<u, t>> \in StrictSubsetOrdering(S))
  BY <1>1, WFMin
<1>3. ASSUME NEW t \in T, NEW u \in T, u \subseteq t, u # t
      PROVE  <<u, t>> \in StrictSubsetOrdering(S)
  BY <1>3 DEF StrictSubsetOrdering
<1> QED
  BY <1>2, <1>3

\* Taking the first element away.
LEMMA PickOne ==
  ASSUME NEW S, IsFiniteSet(S), NEW s \in SUBSET S, s # {}
  PROVE  /\ Pick(s) \in s
         /\ s \ {Pick(s)} \in SUBSET S /\ s \ {Pick(s)} # s
         /\ Cardinality(s) \in Nat \ {0}
         /\ Cardinality(s \ {Pick(s)}) = Cardinality(s) - 1
<1>1. Pick(s) \in s
  BY DEF Pick
<1>2. IsFiniteSet(s)
  BY FS_Subset
<1>3. Cardinality(s) \in Nat /\ Cardinality(s) # 0
  BY <1>2, FS_CardinalityType, FS_EmptySet
<1>4. Cardinality(s \ {Pick(s)}) = Cardinality(s) - 1
  BY <1>1, <1>2, FS_RemoveElement
<1> QED
  BY <1>1, <1>3, <1>4

\* The sum exists.
LEMMA SumExists ==
  ASSUME NEW S, IsFiniteSet(S), NEW F
  PROVE  \E it : IsSum(it, F, S)
<1> DEFINE Small(m) == {u \in SUBSET S : Cardinality(u) <= m}
           Bad == {t \in SUBSET S : ~\E it : IsSumTo(it, F, S, Cardinality(t))}
<1>1. \A s \in SUBSET S : Cardinality(s) \in Nat /\ Cardinality(s) <= Cardinality(S)
  BY FS_Subset, FS_CardinalityType
<1>2. Bad = {}
  <2> SUFFICES ASSUME Bad # {} PROVE FALSE
    OBVIOUS
  <2>1. PICK t \in Bad : \A u \in Bad : u \subseteq t => u = t
    <3>1. Bad \in SUBSET (SUBSET S)
      OBVIOUS
    <3> HIDE DEF Bad
    <3> QED
      BY <3>1, SmallestSubset
  <2>2. t \in SUBSET S /\ ~\E it : IsSumTo(it, F, S, Cardinality(t))
    BY <2>1
  <2>3. CASE t = {}
    <3>1. Small(Cardinality(t)) = {{}}
      <4>1. Cardinality(t) = 0
        BY <2>3, FS_EmptySet
      <4>2. \A u \in SUBSET S : Cardinality(u) = 0 <=> u = {}
        BY FS_Subset, FS_EmptySet
      <4> QED
        BY <4>1, <4>2, <1>1
    <3>2. IsSumTo([s \in {{}} |-> 0], F, S, Cardinality(t))
      BY <3>1 DEF IsSumTo
    <3> QED
      BY <2>2, <3>2
  <2>4. CASE t # {}
    <3> DEFINE m == Cardinality(t) - 1
    <3>1. t \ {Pick(t)} \notin Bad /\ Cardinality(t \ {Pick(t)}) = m /\ m \in Nat
          /\ Cardinality(t) = m + 1
      BY <2>1, <2>2, <2>4, PickOne
    <3> HIDE DEF m
    <3>2. PICK h : IsSumTo(h, F, S, m)
      <4>1. t \ {Pick(t)} \in SUBSET S
        BY <2>2
      <4> QED
        BY <3>1, <4>1
    <3> DEFINE g == [s \in Small(m + 1) |->
                       IF s = {} THEN 0 ELSE F[Pick(s)] + h[s \ {Pick(s)}]]
    <3>3. ASSUME NEW s \in Small(m) PROVE g[s] = h[s]
      <4>1. s \in Small(m + 1)
        BY <1>1, <3>1
      <4>2. h[s] = IF s = {} THEN 0 ELSE F[Pick(s)] + h[s \ {Pick(s)}]
        BY <3>2 DEF IsSumTo
      <4> QED
        BY <4>1, <4>2
    <3>4. ASSUME NEW s \in Small(m + 1), s # {} PROVE s \ {Pick(s)} \in Small(m)
      BY <1>1, <3>1, <3>4, PickOne
    <3>5. ASSUME NEW s \in Small(m + 1)
          PROVE  g[s] = IF s = {} THEN 0 ELSE F[Pick(s)] + g[s \ {Pick(s)}]
      BY <3>3, <3>4
    <3>6. g = [s \in Small(m + 1) |-> g[s]]
      OBVIOUS
    <3>7. IsSumTo(g, F, S, m + 1)
      <4> HIDE DEF g
      <4>1. g = [s \in Small(m + 1) |-> IF s = {} THEN 0 ELSE F[Pick(s)] + g[s \ {Pick(s)}]]
        BY <3>5, <3>6
      <4> QED
        BY <4>1 DEF IsSumTo
    <3> QED
      BY <2>2, <3>1, <3>7
  <2> QED
    BY <2>3, <2>4
<1>3. PICK it : IsSumTo(it, F, S, Cardinality(S))
  <2>1. S \in SUBSET S
    OBVIOUS
  <2> QED
    BY <1>2, <2>1
<1>4. Small(Cardinality(S)) = SUBSET S
  BY <1>1
<1>5. IsSum(it, F, S)
  BY <1>3, <1>4 DEF IsSum, IsSumTo
<1> QED
  BY <1>5

\* Sums of numbers are numbers, and change as one of the numbers does.
LEMMA SumChange ==
  ASSUME NEW S, IsFiniteSet(S), NEW F \in [S -> Nat], NEW G \in [S -> Nat],
         NEW f, NEW g, IsSum(f, F, S), IsSum(g, G, S),
         NEW o \in S, \A x \in S : x # o => F[x] = G[x]
  PROVE  /\ f[S] \in Nat /\ g[S] \in Nat
         /\ f[S] + G[o] = g[S] + F[o]
<1> DEFINE Right(s) == /\ f[s] \in Nat /\ g[s] \in Nat
                       /\ o \notin s => f[s] = g[s]
                       /\ o \in s => f[s] + G[o] = g[s] + F[o]
           Bad == {s \in SUBSET S : ~Right(s)}
<1>1. Bad = {}
  <2> SUFFICES ASSUME Bad # {} PROVE FALSE
    OBVIOUS
  <2>1. PICK t \in Bad : \A u \in Bad : u \subseteq t => u = t
    <3>1. Bad \in SUBSET (SUBSET S)
      OBVIOUS
    <3> HIDE DEF Bad
    <3> QED
      BY <3>1, SmallestSubset
  <2>2. t \in SUBSET S /\ ~Right(t)
    BY <2>1
  <2>3. CASE t = {}
    <3>1. f[{}] = 0 /\ g[{}] = 0
      BY DEF IsSum
    <3> QED
      BY <2>2, <2>3, <3>1
  <2>4. CASE t # {}
    <3> DEFINE p == Pick(t)
               u == t \ {p}
    <3>1. p \in t /\ u \in SUBSET S /\ u # t
      BY <2>2, <2>4, PickOne
    <3>2. Right(u)
      BY <2>1, <3>1
    <3>3. f[t] = F[p] + f[u] /\ g[t] = G[p] + g[u]
      BY <2>2, <2>4 DEF IsSum
    <3>4. F[p] \in Nat /\ G[p] \in Nat /\ F[o] \in Nat /\ G[o] \in Nat
      BY <2>2, <3>1
    <3>5. o \in u <=> o \in t /\ o # p
      OBVIOUS
    <3>6. p # o => F[p] = G[p]
      BY <2>2, <3>1
    <3> HIDE DEF p, u
    <3>7. f[u] \in Nat /\ g[u] \in Nat
      BY <3>2
    <3>8. f[t] \in Nat /\ g[t] \in Nat
      BY <3>3, <3>4, <3>7
    <3>9. CASE o \notin t
      <4>1. f[u] = g[u] /\ F[p] = G[p]
        BY <3>1, <3>2, <3>5, <3>6, <3>9
      <4> QED
        BY <2>2, <3>3, <3>8, <3>9, <4>1
    <3>10. CASE o \in t /\ o = p
      <4>1. f[u] = g[u]
        BY <3>2, <3>5, <3>10
      <4>2. f[t] + G[o] = g[t] + F[o]
        BY <3>3, <3>4, <3>7, <3>10, <4>1
      <4> QED
        BY <2>2, <3>8, <3>10, <4>2
    <3>11. CASE o \in t /\ o # p
      <4>1. f[u] + G[o] = g[u] + F[o] /\ F[p] = G[p]
        BY <3>2, <3>5, <3>6, <3>11
      <4>2. f[t] + G[o] = g[t] + F[o]
        BY <3>3, <3>4, <3>7, <4>1
      <4> QED
        BY <2>2, <3>8, <3>11, <4>2
    <3> QED
      BY <3>9, <3>10, <3>11
  <2> QED
    BY <2>3, <2>4
<1> QED
  <2>1. S \in SUBSET S
    OBVIOUS
  <2>2. Right(S)
    BY <1>1, <2>1
  <2> QED
    BY <2>2

\* A sum of zeros.
LEMMA SumZero ==
  ASSUME NEW S, IsFiniteSet(S), NEW F, \A x \in S : F[x] = 0, NEW f, IsSum(f, F, S)
  PROVE  f[S] = 0
<1> DEFINE Bad == {s \in SUBSET S : f[s] # 0}
<1>1. Bad = {}
  <2> SUFFICES ASSUME Bad # {} PROVE FALSE
    OBVIOUS
  <2>1. PICK t \in Bad : \A u \in Bad : u \subseteq t => u = t
    <3>1. Bad \in SUBSET (SUBSET S)
      OBVIOUS
    <3> HIDE DEF Bad
    <3> QED
      BY <3>1, SmallestSubset
  <2>2. t \in SUBSET S /\ f[t] # 0
    BY <2>1
  <2>3. t # {}
    BY <2>2 DEF IsSum
  <2>4. Pick(t) \in t /\ t \ {Pick(t)} \in SUBSET S /\ t \ {Pick(t)} # t
    BY <2>2, <2>3, PickOne
  <2>5. f[t \ {Pick(t)}] = 0
    BY <2>1, <2>4
  <2>6. f[t] = F[Pick(t)] + f[t \ {Pick(t)}]
    BY <2>2, <2>3 DEF IsSum
  <2> QED
    BY <2>2, <2>4, <2>5, <2>6
<1> QED
  <2>1. S \in SUBSET S
    OBVIOUS
  <2> QED
    BY <1>1, <2>1

-----------------------------------------------------------------------------
(***************************************************************************)
(* The counts                                                              *)
(***************************************************************************)
DropsInHand(e) == MapThenSumSet(LAMBDA o : e[o].drops, Outlets)
LostInHand(e)  == MapThenSumSet(LAMBDA o : e[o].lost, Outlets)

\* The drop counts in the outlets' hands are such a sum.
LEMMA DropsIsSum ==
  ASSUME IsFiniteSet(Outlets), NEW e
  PROVE  \E it : /\ IsSum(it, [o \in Outlets |-> e[o].drops], Outlets)
                 /\ DropsInHand(e) = it[Outlets]
<1> DEFINE F == [o \in Outlets |-> e[o].drops]
           Is(it) == it = [s \in SUBSET Outlets |->
                       IF s = {} THEN 0
                       ELSE e[CHOOSE x \in s : TRUE].drops + it[s \ {CHOOSE x \in s : TRUE}]]
           sum == CHOOSE it : Is(it)
<1>1. ASSUME NEW it PROVE IsSum(it, F, Outlets) <=> Is(it)
  <2>1. ASSUME NEW s \in SUBSET Outlets, s # {}
        PROVE  F[Pick(s)] = e[CHOOSE x \in s : TRUE].drops
    BY <2>1 DEF Pick
  <2> HIDE DEF F
  <2> QED
    BY <2>1 DEF IsSum, Pick
<1>2. \E it : Is(it)
  <2> HIDE DEF F, Is
  <2> QED
    BY <1>1, SumExists
<1>3. Is(sum)
  <2> HIDE DEF Is
  <2> QED
    BY <1>2
<1>4. DropsInHand(e) = sum[Outlets]
  BY DEF DropsInHand, MapThenSumSet, MapThenFoldSet
<1> HIDE DEF F, Is, sum
<1> QED
  BY <1>1, <1>3, <1>4 DEF F

\* The lost counts in the outlets' hands are such a sum.
LEMMA LostIsSum ==
  ASSUME IsFiniteSet(Outlets), NEW e
  PROVE  \E it : /\ IsSum(it, [o \in Outlets |-> e[o].lost], Outlets)
                 /\ LostInHand(e) = it[Outlets]
<1> DEFINE F == [o \in Outlets |-> e[o].lost]
           Is(it) == it = [s \in SUBSET Outlets |->
                       IF s = {} THEN 0
                       ELSE e[CHOOSE x \in s : TRUE].lost + it[s \ {CHOOSE x \in s : TRUE}]]
           sum == CHOOSE it : Is(it)
<1>1. ASSUME NEW it PROVE IsSum(it, F, Outlets) <=> Is(it)
  <2>1. ASSUME NEW s \in SUBSET Outlets, s # {}
        PROVE  F[Pick(s)] = e[CHOOSE x \in s : TRUE].lost
    BY <2>1 DEF Pick
  <2> HIDE DEF F
  <2> QED
    BY <2>1 DEF IsSum, Pick
<1>2. \E it : Is(it)
  <2> HIDE DEF F, Is
  <2> QED
    BY <1>1, SumExists
<1>3. Is(sum)
  <2> HIDE DEF Is
  <2> QED
    BY <1>2
<1>4. LostInHand(e) = sum[Outlets]
  BY DEF LostInHand, MapThenSumSet, MapThenFoldSet
<1> HIDE DEF F, Is, sum
<1> QED
  BY <1>1, <1>3, <1>4 DEF F

\* They change as those of one outlet do.
LEMMA DropsChange ==
  ASSUME IsFiniteSet(Outlets), NEW e \in [Outlets -> Counts], NEW e2 \in [Outlets -> Counts],
         NEW o \in Outlets, \A p \in Outlets : p # o => e2[p] = e[p]
  PROVE  /\ DropsInHand(e) \in Nat /\ DropsInHand(e2) \in Nat
         /\ DropsInHand(e2) + e[o].drops = DropsInHand(e) + e2[o].drops
<1> DEFINE F == [p \in Outlets |-> e[p].drops]
           G == [p \in Outlets |-> e2[p].drops]
<1>1. PICK s : IsSum(s, F, Outlets) /\ DropsInHand(e) = s[Outlets]
  BY DropsIsSum
<1>2. PICK t : IsSum(t, G, Outlets) /\ DropsInHand(e2) = t[Outlets]
  BY DropsIsSum
<1>3. F \in [Outlets -> Nat] /\ G \in [Outlets -> Nat]
  BY DEF Counts
<1>4. F[o] = e[o].drops /\ G[o] = e2[o].drops /\ \A p \in Outlets : p # o => G[p] = F[p]
  OBVIOUS
<1> HIDE DEF F, G
<1>5. /\ t[Outlets] \in Nat /\ s[Outlets] \in Nat
      /\ t[Outlets] + F[o] = s[Outlets] + G[o]
  BY <1>1, <1>2, <1>3, <1>4, SumChange
<1> QED
  BY <1>1, <1>2, <1>4, <1>5

\* They change as those of one outlet do.
LEMMA LostChange ==
  ASSUME IsFiniteSet(Outlets), NEW e \in [Outlets -> Counts], NEW e2 \in [Outlets -> Counts],
         NEW o \in Outlets, \A p \in Outlets : p # o => e2[p] = e[p]
  PROVE  /\ LostInHand(e) \in Nat /\ LostInHand(e2) \in Nat
         /\ LostInHand(e2) + e[o].lost = LostInHand(e) + e2[o].lost
<1> DEFINE F == [p \in Outlets |-> e[p].lost]
           G == [p \in Outlets |-> e2[p].lost]
<1>1. PICK s : IsSum(s, F, Outlets) /\ LostInHand(e) = s[Outlets]
  BY LostIsSum
<1>2. PICK t : IsSum(t, G, Outlets) /\ LostInHand(e2) = t[Outlets]
  BY LostIsSum
<1>3. F \in [Outlets -> Nat] /\ G \in [Outlets -> Nat]
  BY DEF Counts
<1>4. F[o] = e[o].lost /\ G[o] = e2[o].lost /\ \A p \in Outlets : p # o => G[p] = F[p]
  OBVIOUS
<1> HIDE DEF F, G
<1>5. /\ t[Outlets] \in Nat /\ s[Outlets] \in Nat
      /\ t[Outlets] + F[o] = s[Outlets] + G[o]
  BY <1>1, <1>2, <1>3, <1>4, SumChange
<1> QED
  BY <1>1, <1>2, <1>4, <1>5

\* Both at the start, when there are none.
LEMMA NoneInHand ==
  ASSUME IsFiniteSet(Outlets), NEW e, \A o \in Outlets : e[o] = None
  PROVE  DropsInHand(e) = 0 /\ LostInHand(e) = 0
<1>1. /\ \A o \in Outlets : [p \in Outlets |-> e[p].drops][o] = 0
      /\ \A o \in Outlets : [p \in Outlets |-> e[p].lost][o] = 0
  BY DEF None
<1>2. DropsInHand(e) = 0
  <2>1. PICK it : IsSum(it, [p \in Outlets |-> e[p].drops], Outlets) /\ DropsInHand(e) = it[Outlets]
    BY DropsIsSum
  <2> QED
    BY <1>1, <2>1, SumZero
<1>3. LostInHand(e) = 0
  <2>1. PICK it : IsSum(it, [p \in Outlets |-> e[p].lost], Outlets) /\ LostInHand(e) = it[Outlets]
    BY LostIsSum
  <2> QED
    BY <1>1, <2>1, SumZero
<1> QED
  BY <1>2, <1>3

\* CountersAccounted in these terms, before and after a step.
LEMMA AccountedIs ==
  CountersAccounted <=>
    /\ drops.allTime = drops.value + DropsInHand(edata) + told.drops + forgotten.drops
    /\ lost.allTime = lost.value + LostInHand(edata) + told.lost + forgotten.lost
    /\ lost.allTime = Cardinality(lostLines)
BY DEF CountersAccounted, InHand, DropsInHand, LostInHand, MapThenSumSet, MapThenFoldSet

LEMMA AccountedIsNext ==
  CountersAccounted' <=>
    /\ drops'.allTime = drops'.value + DropsInHand(edata') + told'.drops + forgotten'.drops
    /\ lost'.allTime = lost'.value + LostInHand(edata') + told'.lost + forgotten'.lost
    /\ lost'.allTime = Cardinality(lostLines')
BY DEF CountersAccounted, InHand, DropsInHand, LostInHand, MapThenSumSet, MapThenFoldSet

\* Counts that flow between a counter, a hand and the endpoint stay the same in
\* sum: what a step adds on one side it takes away on the other.
LEMMA CountsFlow ==
  ASSUME IsFiniteSet(Outlets), CountersAccounted, TypeOK, TypeOK', NEW o \in Outlets,
         \A p \in Outlets : p # o => edata'[p] = edata[p],
         (drops'.allTime + drops.value) + (edata[o].drops + told.drops + forgotten.drops)
           = (drops.allTime + drops'.value) + (edata'[o].drops + told'.drops + forgotten'.drops),
         (lost'.allTime + lost.value) + (edata[o].lost + told.lost + forgotten.lost)
           = (lost.allTime + lost'.value) + (edata'[o].lost + told'.lost + forgotten'.lost),
         lost'.allTime = Cardinality(lostLines')
  PROVE  CountersAccounted'
<1>1. /\ edata \in [Outlets -> Counts] /\ edata' \in [Outlets -> Counts]
      /\ drops \in CounterType /\ drops' \in CounterType
      /\ lost \in CounterType /\ lost' \in CounterType
      /\ told \in Counts /\ told' \in Counts
      /\ forgotten \in Counts /\ forgotten' \in Counts
  BY DEF TypeOK
<1>2. /\ DropsInHand(edata) \in Nat /\ DropsInHand(edata') \in Nat
      /\ DropsInHand(edata') + edata[o].drops = DropsInHand(edata) + edata'[o].drops
  BY <1>1, DropsChange
<1>3. /\ LostInHand(edata) \in Nat /\ LostInHand(edata') \in Nat
      /\ LostInHand(edata') + edata[o].lost = LostInHand(edata) + edata'[o].lost
  BY <1>1, LostChange
<1>4. /\ edata[o] \in Counts /\ edata'[o] \in Counts
  BY <1>1
<1>5. drops'.allTime = drops'.value + DropsInHand(edata') + told'.drops + forgotten'.drops
  <2> DEFINE all == drops.allTime
             value == drops.value
             hands == DropsInHand(edata)
             hand == edata[o].drops
             here == told.drops
             there == forgotten.drops
             all2 == drops'.allTime
             value2 == drops'.value
             hands2 == DropsInHand(edata')
             hand2 == edata'[o].drops
             here2 == told'.drops
             there2 == forgotten'.drops
  <2>1. all = value + hands + here + there
    BY AccountedIs
  <2>2. all \in Nat /\ all2 \in Nat /\ value \in Nat /\ value2 \in Nat
    BY <1>1 DEF CounterType
  <2>3. /\ here \in Nat /\ here2 \in Nat /\ there \in Nat /\ there2 \in Nat
        /\ hand \in Nat /\ hand2 \in Nat
    BY <1>1, <1>4 DEF Counts
  <2>4. hands \in Nat /\ hands2 \in Nat /\ hands2 + hand = hands + hand2
    BY <1>2
  <2>5. (all2 + value) + (hand + here + there) = (all + value2) + (hand2 + here2 + there2)
    OBVIOUS
  <2>6. all2 = value2 + hands2 + here2 + there2
    <3> HIDE DEF all, value, hands, hand, here, there, all2, value2, hands2, hand2, here2, there2
    <3> QED
      BY ONLY <2>1, <2>2, <2>3, <2>4, <2>5
  <2> QED
    BY <2>6
<1>6. lost'.allTime = lost'.value + LostInHand(edata') + told'.lost + forgotten'.lost
  <2> DEFINE all == lost.allTime
             value == lost.value
             hands == LostInHand(edata)
             hand == edata[o].lost
             here == told.lost
             there == forgotten.lost
             all2 == lost'.allTime
             value2 == lost'.value
             hands2 == LostInHand(edata')
             hand2 == edata'[o].lost
             here2 == told'.lost
             there2 == forgotten'.lost
  <2>1. all = value + hands + here + there
    BY AccountedIs
  <2>2. all \in Nat /\ all2 \in Nat /\ value \in Nat /\ value2 \in Nat
    BY <1>1 DEF CounterType
  <2>3. /\ here \in Nat /\ here2 \in Nat /\ there \in Nat /\ there2 \in Nat
        /\ hand \in Nat /\ hand2 \in Nat
    BY <1>1, <1>4 DEF Counts
  <2>4. hands \in Nat /\ hands2 \in Nat /\ hands2 + hand = hands + hand2
    BY <1>3
  <2>5. (all2 + value) + (hand + here + there) = (all + value2) + (hand2 + here2 + there2)
    OBVIOUS
  <2>6. all2 = value2 + hands2 + here2 + there2
    <3> HIDE DEF all, value, hands, hand, here, there, all2, value2, hands2, hand2, here2, there2
    <3> QED
      BY ONLY <2>1, <2>2, <2>3, <2>4, <2>5
  <2> QED
    BY <2>6
<1> QED
  BY <1>5, <1>6, AccountedIsNext

\* A step that does not touch the counters and what is in hand.
LEMMA CountsStay ==
  ASSUME CountersAccounted, IsFiniteSet(lostLines),
         UNCHANGED <<edata, drops, lost, told, forgotten, lostLines>>
  PROVE  CountersAccounted' /\ IsFiniteSet(lostLines)'
BY AccountedIs, AccountedIsNext

\* The steps that leave counters and hands alone.
LEMMA CountsStayTaken ==
  ASSUME IInv, CountsInv, NEW o \in Outlets,
         UNCHANGED <<edata, drops, lost, told, forgotten, lostLines>>,
         opc' = [opc EXCEPT ![o] = opc'[o]],
         opc'[o] \in {"recv", "drops", "done"} => edata[o] = None,
         opc'[o] # "lost"
  PROVE  CountersAccounted' /\ IsFiniteSet(lostLines)' /\ CountsTaken'
<1>1. CountersAccounted' /\ IsFiniteSet(lostLines)'
  BY CountsStay DEF CountsInv
<1>2. CountsTaken'
  BY DEF CountsInv, CountsTaken, IInv, TypeOK
<1> QED
  BY <1>1, <1>2

\* Counts are taken from Drops.
LEMMA ReadDropsCounts ==
  ASSUME IsFiniteSet(Outlets), IInv, IInv', CountsInv, NEW o \in Outlets, ReadDrops(o)
  PROVE  CountsInv'
<1>1. /\ opc[o] = "drops" /\ opc' = [opc EXCEPT ![o] = "lost"]
      /\ edata' = [edata EXCEPT ![o].drops = drops.value]
      /\ drops' = [drops EXCEPT !.value = 0]
      /\ UNCHANGED <<cur, batches, lost, lostLines, told, forgotten>>
  BY DEF ReadDrops, Goto, Read, Reset, chanVars, ghostVars
<1>2. /\ edata \in [Outlets -> Counts] /\ drops \in CounterType /\ lost \in CounterType
      /\ told \in Counts /\ forgotten \in Counts
      /\ opc \in [Outlets -> {"recv", "drops", "lost", "post", "lose", "done"}]
  BY DEF IInv, TypeOK
<1>3. edata[o] = None
  BY <1>1 DEF CountsInv, CountsTaken
<1>4. /\ edata[o].drops = 0 /\ edata[o].lost = 0
      /\ edata'[o].drops = drops.value /\ edata'[o].lost = 0
      /\ \A p \in Outlets : p # o => edata'[p] = edata[p]
      /\ drops'.value = 0 /\ drops'.allTime = drops.allTime
  BY <1>1, <1>2, <1>3 DEF None, Counts, CounterType
<1>5. CountersAccounted'
  <2>1. /\ drops.value \in Nat /\ drops.allTime \in Nat /\ lost.value \in Nat /\ lost.allTime \in Nat
        /\ told.drops \in Nat /\ told.lost \in Nat
        /\ forgotten.drops \in Nat /\ forgotten.lost \in Nat
    BY <1>2 DEF CounterType, Counts
  <2>2. lost'.allTime = Cardinality(lostLines')
    BY <1>1, AccountedIs DEF CountsInv
  <2>3. /\ (drops'.allTime + drops.value) + (edata[o].drops + told.drops + forgotten.drops)
             = (drops.allTime + drops'.value) + (edata'[o].drops + told'.drops + forgotten'.drops)
        /\ (lost'.allTime + lost.value) + (edata[o].lost + told.lost + forgotten.lost)
             = (lost.allTime + lost'.value) + (edata'[o].lost + told'.lost + forgotten'.lost)
    BY <1>1, <1>4, <2>1
  <2>4. CountersAccounted
    BY DEF CountsInv
  <2>5. TypeOK /\ TypeOK'
    BY DEF IInv
  <2> QED
    BY <1>4, <2>2, <2>3, <2>4, <2>5, CountsFlow
<1>6. CountsTaken'
  BY <1>1, <1>2, <1>4 DEF CountsInv, CountsTaken
<1>7. OnceEach' /\ IsFiniteSet(lostLines)'
  BY <1>1 DEF CountsInv, OnceEach, Once
<1> QED
  BY <1>5, <1>6, <1>7 DEF CountsInv

\* Counts are taken from Lost.
LEMMA ReadLostCounts ==
  ASSUME IsFiniteSet(Outlets), IInv, IInv', CountsInv, NEW o \in Outlets, ReadLost(o)
  PROVE  CountsInv'
<1>1. /\ opc[o] = "lost" /\ opc' = [opc EXCEPT ![o] = "post"]
      /\ edata' = [edata EXCEPT ![o].lost = lost.value]
      /\ lost' = [lost EXCEPT !.value = 0]
      /\ UNCHANGED <<cur, batches, drops, lostLines, told, forgotten>>
  BY DEF ReadLost, Goto, Read, Reset, chanVars, ghostVars
<1>2. /\ edata \in [Outlets -> Counts] /\ drops \in CounterType /\ lost \in CounterType
      /\ told \in Counts /\ forgotten \in Counts
      /\ opc \in [Outlets -> {"recv", "drops", "lost", "post", "lose", "done"}]
  BY DEF IInv, TypeOK
<1>3. edata[o].lost = 0 /\ edata[o] \in Counts
  BY <1>1, <1>2 DEF CountsInv, CountsTaken
<1>4. /\ edata'[o].drops = edata[o].drops /\ edata'[o].lost = lost.value
      /\ \A p \in Outlets : p # o => edata'[p] = edata[p]
      /\ lost'.value = 0 /\ lost'.allTime = lost.allTime
  BY <1>1, <1>2, <1>3 DEF Counts, CounterType
<1>5. CountersAccounted'
  <2>1. /\ drops.value \in Nat /\ drops.allTime \in Nat /\ lost.value \in Nat /\ lost.allTime \in Nat
        /\ told.drops \in Nat /\ told.lost \in Nat /\ edata[o].drops \in Nat
        /\ forgotten.drops \in Nat /\ forgotten.lost \in Nat
    BY <1>2, <1>3 DEF CounterType, Counts
  <2>2. lost'.allTime = Cardinality(lostLines')
    BY <1>1, <1>4, AccountedIs DEF CountsInv
  <2>3. /\ (drops'.allTime + drops.value) + (edata[o].drops + told.drops + forgotten.drops)
             = (drops.allTime + drops'.value) + (edata'[o].drops + told'.drops + forgotten'.drops)
        /\ (lost'.allTime + lost.value) + (edata[o].lost + told.lost + forgotten.lost)
             = (lost.allTime + lost'.value) + (edata'[o].lost + told'.lost + forgotten'.lost)
    BY <1>1, <1>3, <1>4, <2>1
  <2>4. CountersAccounted
    BY DEF CountsInv
  <2>5. TypeOK /\ TypeOK'
    BY DEF IInv
  <2> QED
    BY <1>4, <2>2, <2>3, <2>4, <2>5, CountsFlow
<1>6. CountsTaken'
  BY <1>1, <1>2, <1>4 DEF CountsInv, CountsTaken
<1>7. OnceEach' /\ IsFiniteSet(lostLines)'
  BY <1>1 DEF CountsInv, OnceEach, Once
<1> QED
  BY <1>5, <1>6, <1>7 DEF CountsInv

\* Plus adds the drops and adds the lost.
LEMMA PlusIs ==
  ASSUME NEW c \in Counts, NEW d \in Counts
  PROVE  /\ c.drops \in Nat /\ c.lost \in Nat /\ d.drops \in Nat /\ d.lost \in Nat
         /\ Plus(c, d).drops = c.drops + d.drops
         /\ Plus(c, d).lost = c.lost + d.lost
BY DEF Counts, Plus

\* A post is accepted or refused: what was in hand is told or forgotten.
LEMMA PostCounts ==
  ASSUME IsFiniteSet(Outlets), IInv, IInv', CountsInv, NEW o \in Outlets,
         PostAccepted(o) \/ PostRefused(o)
  PROVE  CountsInv'
<1>1. /\ opc' = [opc EXCEPT ![o] = "recv"]
      /\ edata' = [edata EXCEPT ![o] = None] /\ cur' = [cur EXCEPT ![o] = <<>>]
      /\ UNCHANGED <<batches, drops, lost, lostLines>>
      /\ \/ told' = Plus(told, edata[o]) /\ forgotten' = forgotten
         \/ forgotten' = Plus(forgotten, edata[o]) /\ told' = told
  BY DEF PostAccepted, PostRefused, Return, Goto, chanVars
<1>2. /\ edata \in [Outlets -> Counts] /\ drops \in CounterType /\ lost \in CounterType
      /\ told \in Counts /\ forgotten \in Counts /\ cur \in [Outlets -> Seq(Line)]
      /\ opc \in [Outlets -> {"recv", "drops", "lost", "post", "lose", "done"}]
  BY DEF IInv, TypeOK
<1>3. /\ edata'[o] = None /\ \A p \in Outlets : p # o => edata'[p] = edata[p]
      /\ edata[o] \in Counts
  BY <1>1, <1>2
<1>4. /\ edata'[o].drops = 0 /\ edata'[o].lost = 0
      /\ told'.drops + forgotten'.drops = edata[o].drops + told.drops + forgotten.drops
      /\ told'.lost + forgotten'.lost = edata[o].lost + told.lost + forgotten.lost
  <2>1. edata'[o].drops = 0 /\ edata'[o].lost = 0
    BY <1>3 DEF None
  <2>2. /\ Plus(told, edata[o]).drops = told.drops + edata[o].drops
        /\ Plus(told, edata[o]).lost = told.lost + edata[o].lost
        /\ Plus(forgotten, edata[o]).drops = forgotten.drops + edata[o].drops
        /\ Plus(forgotten, edata[o]).lost = forgotten.lost + edata[o].lost
    BY <1>2, <1>3, PlusIs
  <2>3. /\ edata[o].drops \in Nat /\ edata[o].lost \in Nat
        /\ told.drops \in Nat /\ told.lost \in Nat
        /\ forgotten.drops \in Nat /\ forgotten.lost \in Nat
    BY <1>2, <1>3, PlusIs
  <2>4. CASE told' = Plus(told, edata[o]) /\ forgotten' = forgotten
    <3>1. /\ told'.drops = told.drops + edata[o].drops
          /\ told'.lost = told.lost + edata[o].lost
          /\ forgotten'.drops = forgotten.drops /\ forgotten'.lost = forgotten.lost
      BY <2>2, <2>4
    <3> QED
      BY <2>1, <2>3, <3>1
  <2>5. CASE forgotten' = Plus(forgotten, edata[o]) /\ told' = told
    <3>1. /\ forgotten'.drops = forgotten.drops + edata[o].drops
          /\ forgotten'.lost = forgotten.lost + edata[o].lost
          /\ told'.drops = told.drops /\ told'.lost = told.lost
      BY <2>2, <2>5
    <3> QED
      BY <2>1, <2>3, <3>1
  <2> QED
    BY <1>1, <2>4, <2>5
<1>5. CountersAccounted'
  <2>1. /\ drops.value \in Nat /\ drops.allTime \in Nat /\ lost.value \in Nat /\ lost.allTime \in Nat
    BY <1>2 DEF CounterType
  <2>2. lost'.allTime = Cardinality(lostLines')
    BY <1>1, AccountedIs DEF CountsInv
  <2>3. /\ edata'[o].drops + told'.drops + forgotten'.drops
             = edata[o].drops + told.drops + forgotten.drops
        /\ edata'[o].lost + told'.lost + forgotten'.lost
             = edata[o].lost + told.lost + forgotten.lost
    <3>1. /\ told'.drops \in Nat /\ told'.lost \in Nat
          /\ forgotten'.drops \in Nat /\ forgotten'.lost \in Nat
      BY DEF IInv, TypeOK, Counts
    <3> QED
      BY <1>4, <3>1
  <2>4. CountersAccounted
    BY DEF CountsInv
  <2>5. TypeOK /\ TypeOK'
    BY DEF IInv
  <2> QED
    BY <1>1, <1>3, <2>1, <2>2, <2>3, <2>4, <2>5, CountsFlow
<1>6. CountsTaken'
  BY <1>1, <1>2, <1>3 DEF CountsInv, CountsTaken
<1>7. OnceEach' /\ IsFiniteSet(lostLines)'
  BY <1>1, <1>2 DEF CountsInv, OnceEach, Once
<1> QED
  BY <1>5, <1>6, <1>7 DEF CountsInv

\* A batch is given up: Lost grows by as much as there are new lost lines.
LEMMA LoseCounts ==
  ASSUME IsFiniteSet(Outlets), IInv, IInv', CountsInv, NEW o \in Outlets, Lose(o)
  PROVE  CountsInv'
<1> DEFINE k == Len(cur[o])
<1>1. /\ opc' = [opc EXCEPT ![o] = "recv"]
      /\ edata' = [edata EXCEPT ![o] = None] /\ cur' = [cur EXCEPT ![o] = <<>>]
      /\ lost' = [value |-> lost.value + k, allTime |-> lost.allTime + k]
      /\ lostLines' = lostLines \cup Lines(cur[o])
      /\ forgotten' = Plus(forgotten, edata[o])
      /\ UNCHANGED <<batches, drops, told>>
  BY DEF Lose, Return, Goto, Add, chanVars
<1>2. /\ edata \in [Outlets -> Counts] /\ drops \in CounterType /\ lost \in CounterType
      /\ told \in Counts /\ forgotten \in Counts /\ cur \in [Outlets -> Seq(Line)]
      /\ opc \in [Outlets -> {"recv", "drops", "lost", "post", "lose", "done"}]
  BY DEF IInv, TypeOK
<1>3. /\ edata'[o] = None /\ \A p \in Outlets : p # o => edata'[p] = edata[p]
      /\ edata[o] \in Counts /\ k \in Nat
  BY <1>1, <1>2
<1>4. /\ edata'[o].drops = 0 /\ edata'[o].lost = 0
      /\ forgotten'.drops = edata[o].drops + forgotten.drops
      /\ forgotten'.lost = edata[o].lost + forgotten.lost
      /\ lost'.value = lost.value + k /\ lost'.allTime = lost.allTime + k
  BY <1>1, <1>2, <1>3 DEF None, Counts, Plus
<1>5. /\ IsFiniteSet(Lines(cur[o])) /\ Cardinality(Lines(cur[o])) = k
  <2>1. cur[o] \in Bijection(1..k, Lines(cur[o]))
    <3>1. DOMAIN cur[o] = 1..k /\ cur[o] \in [1..k -> Lines(cur[o])]
      BY <1>2 DEF Lines
    <3>2. \A i, j \in 1..k : cur[o][i] = cur[o][j] => i = j
      BY <3>1 DEF CountsInv, OnceEach, Once
    <3>3. \A l \in Lines(cur[o]) : \E i \in 1..k : cur[o][i] = l
      BY <3>1 DEF Lines
    <3> HIDE DEF k
    <3>4. cur[o] \in Injection(1..k, Lines(cur[o]))
      BY <3>1, <3>2 DEF Injection, IsInjective
    <3>5. cur[o] \in Surjection(1..k, Lines(cur[o]))
      BY <3>1, <3>3 DEF Surjection
    <3> QED
      BY <3>4, <3>5 DEF Bijection
  <2>2. IsFiniteSet(1..k) /\ Cardinality(1..k) = k
    BY <1>3, FS_Interval
  <2>3. ExistsBijection(1..k, Lines(cur[o]))
    BY <2>1 DEF ExistsBijection
  <2> QED
    BY <2>2, <2>3, FS_Bijection, FS_SameCardinalityBij
<1>6. /\ IsFiniteSet(lostLines')
      /\ lost'.allTime = Cardinality(lostLines')
  <2>1. lostLines \cap Lines(cur[o]) = {}
    BY DEF IInv, OneOutcome, Holding
  <2>2. /\ IsFiniteSet(lostLines) /\ lost.allTime = Cardinality(lostLines)
        /\ Cardinality(lostLines) \in Nat
    BY AccountedIs, FS_CardinalityType DEF CountsInv
  <2>3. /\ IsFiniteSet(lostLines \cup Lines(cur[o]))
        /\ Cardinality(lostLines \cup Lines(cur[o]))
              = Cardinality(lostLines) + k - Cardinality(lostLines \cap Lines(cur[o]))
    BY <1>5, <2>2, FS_Union
  <2>4. Cardinality(lostLines \cap Lines(cur[o])) = 0
    BY <2>1, FS_EmptySet
  <2> HIDE DEF k
  <2> QED
    BY <1>1, <1>3, <1>4, <2>2, <2>3, <2>4
<1>7. CountersAccounted'
  <2>1. /\ drops.value \in Nat /\ drops.allTime \in Nat /\ lost.value \in Nat /\ lost.allTime \in Nat
        /\ told.drops \in Nat /\ told.lost \in Nat
        /\ forgotten.drops \in Nat /\ forgotten.lost \in Nat
        /\ edata[o].drops \in Nat /\ edata[o].lost \in Nat
    BY <1>2, <1>3 DEF CounterType, Counts
  <2> HIDE DEF k
  <2>a. (drops'.allTime + drops.value) + (edata[o].drops + told.drops + forgotten.drops)
             = (drops.allTime + drops'.value) + (edata'[o].drops + told'.drops + forgotten'.drops)
    <3>1. /\ edata'[o].drops = 0 /\ forgotten'.drops = edata[o].drops + forgotten.drops
          /\ drops' = drops /\ told' = told
      BY <1>1, <1>4
    <3> QED
      BY ONLY <2>1, <3>1
  <2>b. (lost'.allTime + lost.value) + (edata[o].lost + told.lost + forgotten.lost)
             = (lost.allTime + lost'.value) + (edata'[o].lost + told'.lost + forgotten'.lost)
    <3>1. /\ edata'[o].lost = 0 /\ forgotten'.lost = edata[o].lost + forgotten.lost
          /\ lost'.value = lost.value + k /\ lost'.allTime = lost.allTime + k
          /\ told' = told /\ k \in Nat
      BY <1>1, <1>3, <1>4
    <3> QED
      BY ONLY <2>1, <3>1
  <2>3. CountersAccounted
    BY DEF CountsInv
  <2>4. TypeOK /\ TypeOK'
    BY DEF IInv
  <2> QED
    BY <1>3, <1>6, <2>a, <2>b, <2>3, <2>4, CountsFlow
<1>8. CountsTaken'
  BY <1>1, <1>2, <1>3 DEF CountsInv, CountsTaken
<1>9. OnceEach'
  BY <1>1, <1>2 DEF CountsInv, OnceEach, Once
<1> QED
  BY <1>6, <1>7, <1>8, <1>9 DEF CountsInv

\* Batches go from the readers to the channel, from there to a hand, and are never
\* changed: no line comes to be in one twice.
LEMMA OnceEachKept ==
  ASSUME IInv, OnceEach, [Next]_vars
  PROVE  OnceEach'
<1>1. /\ \A i \in DOMAIN batches : Once(batches[i])
      /\ \A p \in Outlets : Once(cur[p])
      /\ Once(<<>>)
      /\ batches \in Seq(Seq(Line)) /\ cur \in [Outlets -> Seq(Line)]
  BY DEF OnceEach, Once, IInv, TypeOK
<1> HIDE DEF Once
<1>2. ASSUME NEW o \in Outlets, Receive(o) PROVE OnceEach'
  <2>1. /\ batches # <<>> /\ batches' = Tail(batches)
        /\ cur' = [cur EXCEPT ![o] = Head(batches)]
    BY <1>2 DEF Receive
  <2>2. /\ 1 \in DOMAIN batches /\ Head(batches) = batches[1]
        /\ \A i \in DOMAIN batches' : i + 1 \in DOMAIN batches /\ batches'[i] = batches[i + 1]
    BY <1>1, <2>1, HeadTail
  <2>3. \A i \in DOMAIN batches' : Once(batches'[i])
    BY <1>1, <2>2
  <2>4. \A p \in Outlets : Once(cur'[p])
    BY <1>1, <2>1, <2>2
  <2> QED
    BY <2>3, <2>4 DEF OnceEach, Once
<1>3. CASE ReaderFeeds
  <2>1. /\ batches' = Append(batches, Feed[fed + 1]) /\ cur' = cur
        /\ fed + 1 \in DOMAIN Feed
    BY <1>3, OutletAssumption DEF ReaderFeeds, localVars, IInv, TypeOK
  <2>2. Feed[fed + 1] \in Seq(Line) /\ Once(Feed[fed + 1])
    BY <2>1, OutletAssumption DEF Once
  <2>3. \A i \in DOMAIN batches' :
          \/ i \in DOMAIN batches /\ batches'[i] = batches[i]
          \/ batches'[i] = Feed[fed + 1]
    BY <1>1, <2>1, <2>2
  <2>4. \A i \in DOMAIN batches' : Once(batches'[i])
    BY <1>1, <2>2, <2>3
  <2> QED
    BY <1>1, <2>1, <2>4 DEF OnceEach, Once
<1>4. ASSUME batches' = batches,
             cur' = cur \/ \E o \in Outlets : cur' = [cur EXCEPT ![o] = <<>>]
      PROVE  OnceEach'
  <2>1. \A p \in Outlets : cur'[p] = cur[p] \/ cur'[p] = <<>>
    BY <1>1, <1>4
  <2>2. \A p \in Outlets : Once(cur'[p])
    BY <1>1, <2>1
  <2> QED
    BY <1>1, <1>4, <2>2 DEF OnceEach, Once
<1>5. \/ \E o \in Outlets : Receive(o)
      \/ ReaderFeeds
      \/ /\ batches' = batches
         /\ cur' = cur \/ \E o \in Outlets : cur' = [cur EXCEPT ![o] = <<>>]
  BY DEF Next, OutletStep, Finish, ReadDrops, ReadLost, PostAccepted, PostRefused, PostFailed,
     Retry, Lose, Return, ReaderDrops, Land, Terminated, vars, localVars, chanVars
<1> QED
  BY <1>2, <1>3, <1>4, <1>5

\* An outlet takes a batch from the channel.
LEMMA ReceiveCounts ==
  ASSUME IInv, CountsInv, NEW o \in Outlets, Receive(o)
  PROVE  CountsInv'
<1>1. /\ opc[o] = "recv" /\ batches # <<>> /\ batches \in Seq(Seq(Line))
      /\ cur' = [cur EXCEPT ![o] = Head(batches)] /\ batches' = Tail(batches)
      /\ opc' = [opc EXCEPT ![o] = "drops"]
      /\ UNCHANGED <<edata, drops, lost, told, forgotten, lostLines>>
      /\ opc \in [Outlets -> {"recv", "drops", "lost", "post", "lose", "done"}]
      /\ cur \in [Outlets -> Seq(Line)]
  BY DEF Receive, Goto, ghostVars, IInv, TypeOK
<1>2. opc'[o] = "drops" /\ edata[o] = None
  BY <1>1 DEF CountsInv, CountsTaken
<1>3. CountersAccounted' /\ IsFiniteSet(lostLines)' /\ CountsTaken'
  BY <1>1, <1>2, CountsStayTaken
<1>4. OnceEach'
  BY OnceEachKept DEF CountsInv, Next, OutletStep
<1> QED
  BY <1>3, <1>4 DEF CountsInv

\* An outlet ends, or a post has failed.
LEMMA FinishCounts ==
  ASSUME IInv, CountsInv, NEW o \in Outlets, Finish(o) \/ PostFailed(o)
  PROVE  CountsInv'
<1>1. /\ UNCHANGED <<cur, batches, edata, drops, lost, told, forgotten, lostLines>>
      /\ opc \in [Outlets -> {"recv", "drops", "lost", "post", "lose", "done"}]
  BY DEF Finish, PostFailed, Retry, ghostVars, chanVars, IInv, TypeOK
<1>2. \/ opc[o] = "recv" /\ opc' = [opc EXCEPT ![o] = "done"]
      \/ opc[o] = "post" /\ opc' = opc
      \/ opc[o] = "post" /\ opc' = [opc EXCEPT ![o] = "lose"]
  BY DEF Finish, PostFailed, Retry, Goto
<1>3. /\ opc' = [opc EXCEPT ![o] = opc'[o]] /\ opc'[o] # "lost"
      /\ opc'[o] \in {"recv", "drops", "done"} => edata[o] = None
  BY <1>1, <1>2 DEF CountsInv, CountsTaken
<1>4. CountersAccounted' /\ IsFiniteSet(lostLines)' /\ CountsTaken'
  BY <1>1, <1>3, CountsStayTaken
<1>5. OnceEach'
  BY <1>1 DEF CountsInv, OnceEach, Once
<1> QED
  BY <1>4, <1>5 DEF CountsInv

\* A reader sends the next batch, which no line is in twice.
LEMMA FeedCounts ==
  ASSUME IInv, CountsInv, ReaderFeeds
  PROVE  CountsInv'
<1>1. /\ batches \in Seq(Seq(Line)) /\ fed \in Nat /\ fed < Len(Feed)
      /\ batches' = Append(batches, Feed[fed + 1])
      /\ UNCHANGED <<opc, cur, edata, drops, lost, told, forgotten, lostLines>>
  BY DEF ReaderFeeds, localVars, ghostVars, IInv, TypeOK
<1>2. CountersAccounted' /\ IsFiniteSet(lostLines)'
  BY <1>1, CountsStay DEF CountsInv
<1>3. CountsTaken'
  BY <1>1 DEF CountsInv, CountsTaken
<1>4. OnceEach'
  BY OnceEachKept DEF CountsInv, Next
<1> QED
  BY <1>2, <1>3, <1>4 DEF CountsInv

\* What is in hand is a number, also when there is no outlet.
LEMMA DropsInHandIsNat ==
  ASSUME IsFiniteSet(Outlets), NEW e \in [Outlets -> Counts]
  PROVE  DropsInHand(e) \in Nat
<1>1. CASE Outlets = {}
  BY <1>1, NoneInHand
<1>2. CASE Outlets # {}
  BY <1>2, DropsChange
<1> QED
  BY <1>1, <1>2

\* A reader drops a batch: Drops grows, and what it holds grows as much.
LEMMA DropCounts ==
  ASSUME IsFiniteSet(Outlets), IInv, CountsInv, ReaderDrops
  PROVE  CountsInv'
<1> DEFINE k == Len(Feed[fed + 1])
<1>1. /\ drops' = [value |-> drops.value + k, allTime |-> drops.allTime + k]
      /\ UNCHANGED <<opc, cur, batches, edata, lost, told, forgotten, lostLines>>
      /\ drops \in CounterType /\ told \in Counts /\ forgotten \in Counts
      /\ fed \in Nat /\ fed < Len(Feed)
  BY DEF ReaderDrops, Add, localVars, ghostVars, chanVars, IInv, TypeOK
<1>2. k \in Nat
  BY <1>1, OutletAssumption
<1>3. CountersAccounted'
  <2> DEFINE all == drops.allTime
             value == drops.value
             hands == DropsInHand(edata)
             here == told.drops
             there == forgotten.drops
  <2>1. CountersAccounted
    BY DEF CountsInv
  <2>2. drops'.allTime = all + k /\ drops'.value = value + k
    BY <1>1
  <2>3. all = value + hands + here + there
    BY <2>1, AccountedIs
  <2>4. all \in Nat /\ value \in Nat /\ here \in Nat /\ there \in Nat /\ hands \in Nat
    <3>1. all \in Nat /\ value \in Nat /\ here \in Nat /\ there \in Nat
      BY <1>1 DEF CounterType, Counts
    <3>2. hands \in Nat
      BY DropsInHandIsNat DEF IInv, TypeOK
    <3> QED
      BY <3>1, <3>2
  <2>5. all + k = (value + k) + hands + here + there
    <3> HIDE DEF all, value, hands, here, there, k
    <3> QED
      BY ONLY <1>2, <2>3, <2>4
  <2>6. drops'.allTime = drops'.value + hands + here + there
    <3> HIDE DEF all, value, hands, here, there, k
    <3> QED
      BY <2>2, <2>5
  <2> QED
    BY <1>1, <2>1, <2>6, AccountedIs, AccountedIsNext
<1>4. CountsTaken' /\ OnceEach' /\ IsFiniteSet(lostLines)'
  BY <1>1 DEF CountsInv, CountsTaken, OnceEach, Once
<1> QED
  BY <1>3, <1>4 DEF CountsInv

\* The channel is closed, or nothing happens.
LEMMA LandCounts ==
  ASSUME CountsInv, Land \/ UNCHANGED vars
  PROVE  CountsInv'
<1>1. UNCHANGED <<opc, cur, batches, edata, drops, lost, told, forgotten, lostLines>>
  BY DEF Land, vars, localVars, ghostVars, chanVars
<1>2. CountersAccounted' /\ IsFiniteSet(lostLines)'
  BY <1>1, CountsStay DEF CountsInv
<1>3. CountsTaken' /\ OnceEach'
  BY <1>1 DEF CountsInv, CountsTaken, OnceEach, Once
<1> QED
  BY <1>2, <1>3 DEF CountsInv

\* At the start every counter is 0 and nothing is in hand.
LEMMA InitCounts ==
  ASSUME IsFiniteSet(Outlets), Init
  PROVE  CountsInv
<1>1. /\ edata = [o \in Outlets |-> None] /\ lostLines = {} /\ batches = <<>>
      /\ drops.value = 0 /\ drops.allTime = 0 /\ lost.value = 0 /\ lost.allTime = 0
      /\ told.drops = 0 /\ told.lost = 0 /\ forgotten.drops = 0 /\ forgotten.lost = 0
      /\ opc = [o \in Outlets |-> "recv"] /\ cur = [o \in Outlets |-> <<>>]
  BY DEF Init, NewCounter, None
<1>2. DropsInHand(edata) = 0 /\ LostInHand(edata) = 0
  BY <1>1, NoneInHand
<1>3. IsFiniteSet(lostLines) /\ Cardinality(lostLines) = 0
  BY <1>1, FS_EmptySet
<1>4. CountersAccounted
  BY <1>1, <1>2, <1>3, AccountedIs
<1>5. CountsTaken
  BY <1>1 DEF CountsTaken
<1>6. OnceEach
  BY <1>1 DEF OnceEach, Once
<1> QED
  BY <1>3, <1>4, <1>5, <1>6 DEF CountsInv

\* Whatever the outlets of a finite pool and the readers do, the counters lose
\* and repeat nothing: all that was ever added to Drops and to Lost is still
\* there, in one hand, told or forgotten, and Lost was added each lost line once.
THEOREM CountsKept == ASSUME IsFiniteSet(Outlets) PROVE Safety => []CountersAccounted
<1>1. Init => CountsInv
  BY InitCounts
<1>2. IInv /\ IInv' /\ CountsInv /\ [Next]_vars => CountsInv'
  <2> SUFFICES ASSUME IInv, IInv', CountsInv, [Next]_vars PROVE CountsInv'
    OBVIOUS
  <2>1. ASSUME NEW o \in Outlets, OutletStep(o) PROVE CountsInv'
    <3>1. CASE Receive(o)
      BY <3>1, ReceiveCounts
    <3>2. CASE Finish(o) \/ PostFailed(o)
      BY <3>2, FinishCounts
    <3>3. CASE ReadDrops(o)
      BY <3>3, ReadDropsCounts
    <3>4. CASE ReadLost(o)
      BY <3>4, ReadLostCounts
    <3>5. CASE PostAccepted(o) \/ PostRefused(o)
      BY <3>5, PostCounts
    <3>6. CASE Lose(o)
      BY <3>6, LoseCounts
    <3> QED
      BY <2>1, <3>1, <3>2, <3>3, <3>4, <3>5, <3>6 DEF OutletStep
  <2>2. CASE ReaderFeeds
    BY <2>2, FeedCounts
  <2>3. CASE ReaderDrops
    BY <2>3, DropCounts
  <2>4. CASE Land \/ Terminated \/ UNCHANGED vars
    BY <2>4, LandCounts DEF Terminated
  <2> QED
    BY <2>1, <2>2, <2>3, <2>4 DEF Next
<1>3. CountsInv => CountersAccounted
  BY DEF CountsInv
<1>4. Safety => []IInv
  BY Invariance
<1> QED
  BY <1>1, <1>2, <1>3, <1>4, PTL DEF Safety
====
