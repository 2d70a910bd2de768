-------------------------- MODULE ShuttleFateProofs --------------------------
(***************************************************************************)
(* The shuttle implements LineFate: the fate of every line, read off the   *)
(* state by the function fate of Shuttle, starts and moves as LineFate     *)
(* says, at every step of the readers, the outlets and Land.               *)
(*                                                                         *)
(* Six kinds of step move lines, each a whole run of one reader: a line is *)
(* read, a batch is sent or dropped, taken by an outlet, and accepted,     *)
(* refused or lost.  Every other step leaves all fates as they are.        *)
(***************************************************************************)
EXTENDS ShuttleProofs

\* What a fate means, as sets of lines that exclude each other.
FateMeans ==
  \A l \in Line :
    /\ fate[l] \in {"unread", "held", "queued", "posting"} \cup Fate!Final
    /\ fate[l] = "unread" <=> read[l[1]] < l[2]
    /\ fate[l] = "dropped" <=> l \in dropped
    /\ fate[l] = "acked" <=> l \in acked
    /\ fate[l] = "refused" <=> l \in refused
    /\ fate[l] = "lost" <=> l \in lostLines
    /\ fate[l] = "posting" <=> l \in OutletP!Holding
    /\ fate[l] = "queued" <=> l \in OutletP!Queued
    /\ fate[l] = "held" <=> read[l[1]] >= l[2] /\ l \notin enqueued \cup dropped

\* A line that was sent or dropped has been read.
LEMMA SettledWasRead ==
  ASSUME Inv, NEW l \in enqueued \cup dropped
  PROVE  l \in Readers \X Nat /\ l[2] <= read[l[1]]
<1>1. PICK q \in Readers : l \in ReaderP!LinesOf(q, ReaderP!LastSettled(q))
  BY DEF Inv, ReaderP!IInv, ReaderP!CoreInv, ReaderP!SettledOnce
<1>2. read[q] \in Nat /\ Len(b[q]) \in Nat
  BY ShuttleAssumption DEF Inv, ReaderP!IInv, ReaderP!CoreInv, ReaderP!TypeOK
<1>3. \A n \in 1..ReaderP!LastSettled(q) : n \in Nat /\ n <= read[q]
  BY <1>2 DEF ReaderP!LastSettled, ReaderP!LastAdded, ReaderP!Pending
<1>4. l \in {q} \X (1..ReaderP!LastSettled(q))
  BY <1>1 DEF ReaderP!LinesOf
<1> QED
  BY <1>2, <1>3, <1>4

\* The cases of fate exclude each other.
LEMMA FatesApart == Inv => FateMeans
<1> SUFFICES ASSUME Inv, NEW l \in Line
             PROVE  /\ fate[l] \in {"unread", "held", "queued", "posting"} \cup Fate!Final
                    /\ fate[l] = "unread" <=> read[l[1]] < l[2]
                    /\ fate[l] = "dropped" <=> l \in dropped
                    /\ fate[l] = "acked" <=> l \in acked
                    /\ fate[l] = "refused" <=> l \in refused
                    /\ fate[l] = "lost" <=> l \in lostLines
                    /\ fate[l] = "posting" <=> l \in OutletP!Holding
                    /\ fate[l] = "queued" <=> l \in OutletP!Queued
                    /\ fate[l] = "held" <=> read[l[1]] >= l[2] /\ l \notin enqueued \cup dropped
  BY DEF FateMeans
<1> DEFINE unread == read[l[1]] < l[2]
<1>1. l[2] \in Nat /\ read[l[1]] \in Nat
  BY ShuttleAssumption DEF Line, Inv, ReaderP!IInv, ReaderP!CoreInv, ReaderP!TypeOK
<1>2. l \in enqueued \cup dropped => ~unread
  BY <1>1, SettledWasRead
<1>3. enqueued \cap dropped = {}
  BY DEF Inv, ReaderP!IInv, ReaderP!CoreInv, ReaderP!SettledOnce
<1>4. enqueued = OutletP!Queued \cup OutletP!Holding \cup acked \cup refused \cup lostLines
  BY DEF Inv, OutletP!Seen, OutletP!Ended
<1>5. /\ acked \cap refused = {}
      /\ (acked \cup refused) \cap lostLines = {}
      /\ (OutletP!Queued \cup OutletP!Holding) \cap (acked \cup refused \cup lostLines) = {}
      /\ OutletP!Queued \cap OutletP!Holding = {}
  BY DEF Inv, OutletP!IInv, OutletP!OneOutcome
<1>6. /\ (\E o \in Outlets : l \in Outlet!Lines(cur[o])) <=> l \in OutletP!Holding
      /\ (\E i \in DOMAIN batches : l \in Outlet!Lines(batches[i])) <=> l \in OutletP!Queued
  BY SameSeen DEF OutletP!Holding, OutletP!Queued
<1>7. fate[l] = CASE unread -> "unread"
                  [] l \in dropped -> "dropped"
                  [] l \in acked -> "acked"
                  [] l \in refused -> "refused"
                  [] l \in lostLines -> "lost"
                  [] l \in OutletP!Holding -> "posting"
                  [] l \in OutletP!Queued -> "queued"
                  [] OTHER -> "held"
  BY <1>6 DEF fate
<1>8. read[l[1]] >= l[2] <=> ~unread
  BY <1>1
<1> DEFINE queued == l \in OutletP!Queued
           posting == l \in OutletP!Holding
           isDropped == l \in dropped
           isAcked == l \in acked
           isRefused == l \in refused
           isLost == l \in lostLines
<1>9. /\ unread => ~queued /\ ~posting /\ ~isDropped /\ ~isAcked /\ ~isRefused /\ ~isLost
      /\ isDropped => ~queued /\ ~posting /\ ~isAcked /\ ~isRefused /\ ~isLost
      /\ isAcked => ~queued /\ ~posting /\ ~isRefused /\ ~isLost
      /\ isRefused => ~queued /\ ~posting /\ ~isLost
      /\ isLost => ~queued /\ ~posting
      /\ posting => ~queued
      /\ l \in enqueued <=> queued \/ posting \/ isAcked \/ isRefused \/ isLost
  BY <1>2, <1>3, <1>4, <1>5
<1>10. fate[l] = CASE unread -> "unread"
                   [] isDropped -> "dropped"
                   [] isAcked -> "acked"
                   [] isRefused -> "refused"
                   [] isLost -> "lost"
                   [] posting -> "posting"
                   [] queued -> "queued"
                   [] OTHER -> "held"
  BY <1>7
<1>11. l \notin enqueued \cup dropped <=> l \notin enqueued /\ ~isDropped
  OBVIOUS
<1> HIDE DEF unread, queued, posting, isDropped, isAcked, isRefused, isLost
<1>12. unread => fate[l] = "unread"
  BY <1>9, <1>10
<1>13. isDropped => fate[l] = "dropped"
  BY <1>9, <1>10
<1>14. isAcked => fate[l] = "acked"
  BY <1>9, <1>10
<1>15. isRefused => fate[l] = "refused"
  BY <1>9, <1>10
<1>16. isLost => fate[l] = "lost"
  BY <1>9, <1>10
<1>17. posting => fate[l] = "posting"
  BY <1>9, <1>10
<1>18. queued => fate[l] = "queued"
  BY <1>9, <1>10
<1>19. ~unread /\ ~isDropped /\ l \notin enqueued => fate[l] = "held"
  BY <1>9, <1>10
<1> QED
  BY <1>8, <1>9, <1>11, <1>12, <1>13, <1>14, <1>15, <1>16, <1>17, <1>18, <1>19
     DEF Fate!Final, unread, queued, posting, isDropped, isAcked, isRefused, isLost

\* The same after a step.
LEMMA FatesApartNext == Inv' => FateMeans'
BY FatesApart, PTL

-----------------------------------------------------------------------------
(***************************************************************************)
(* The two ways in which a step is one of LineFate                         *)
(***************************************************************************)
\* A step that moves no line.
LEMMA NoMove ==
  ASSUME Inv, Inv', UNCHANGED <<read, enqueued, dropped, acked, refused, lostLines>>,
         OutletP!Queued' = OutletP!Queued, OutletP!Holding' = OutletP!Holding
  PROVE  fate' = fate
<1>1. ASSUME NEW l \in Line PROVE fate'[l] = fate[l]
  <2>1. /\ fate[l] \in {"unread", "held", "queued", "posting"} \cup Fate!Final
        /\ fate'[l] \in {"unread", "held", "queued", "posting"} \cup Fate!Final
        /\ fate[l] = "unread" <=> fate'[l] = "unread"
        /\ fate[l] = "dropped" <=> fate'[l] = "dropped"
        /\ fate[l] = "acked" <=> fate'[l] = "acked"
        /\ fate[l] = "refused" <=> fate'[l] = "refused"
        /\ fate[l] = "lost" <=> fate'[l] = "lost"
        /\ fate[l] = "posting" <=> fate'[l] = "posting"
        /\ fate[l] = "queued" <=> fate'[l] = "queued"
    BY <1>1, FatesApart, FatesApartNext DEF FateMeans, Fate!Final
  <2> QED
    BY <2>1 DEF Fate!Final
<1>2. fate = [l \in Line |-> fate[l]] /\ fate' = [l \in Line |-> fate'[l]]
  BY DEF fate
<1> QED
  BY <1>1, <1>2

\* A step that moves a run of lines of one reader to a fate that may follow.
LEMMA RunMoves ==
  ASSUME NEW r \in Readers, NEW i \in 1..MaxLines, NEW j \in 1..MaxLines, i <= j,
         NEW from, NEW to, to \in Fate!After(from),
         \A n \in i..j : fate[<<r, n>>] = from /\ fate'[<<r, n>>] = to,
         \A l \in Line \ ({r} \X (i..j)) : fate'[l] = fate[l],
         from = "unread" => i = j,
         from \in Fate!InOrder => \A n \in 1..(i - 1) : fate[<<r, n>>] # from
  PROVE  Fate!Next
<1>1. fate[<<r, i>>] = from
  OBVIOUS
<1>2. fate' = [l \in Line |-> fate'[l]]
  BY DEF fate
<1>3. \A l \in Line : fate'[l] = IF l \in {r} \X (i..j) THEN to ELSE fate[l]
  OBVIOUS
<1>4. fate' = [l \in Fate!Line |-> IF l \in {r} \X (i..j) THEN to ELSE fate[l]]
  BY <1>2, <1>3 DEF Line, Fate!Line
<1>5. Fate!Move(r, i, j)
  BY <1>1, <1>4 DEF Fate!Move
<1> QED
  BY <1>5 DEF Fate!Next

\* The lines in the channel and in the outlets' hands, when neither changes.
LEMMA SameHands ==
  ASSUME UNCHANGED <<batches, cur>>
  PROVE  OutletP!Queued' = OutletP!Queued /\ OutletP!Holding' = OutletP!Holding
BY DEF OutletP!Queued, OutletP!Holding

-----------------------------------------------------------------------------
(***************************************************************************)
(* The steps of a reader                                                   *)
(***************************************************************************)
\* ReadBytes: the next line is held.
LEMMA ReadMoves ==
  ASSUME Inv, Inv', NEW r \in Readers, ReaderP!ReadBytes(r), UNCHANGED outletVars
  PROVE  Fate!Next
<1> DEFINE n == read[r] + 1
           line == <<r, n>>
<1>1. /\ read' = [read EXCEPT ![r] = n]
      /\ n \in 1..MaxLines
      /\ read \in [Readers -> 0..MaxLines]
  BY ShuttleAssumption DEF ReaderP!ReadBytes, Inv, ReaderP!IInv, ReaderP!CoreInv, ReaderP!TypeOK
<1>2. /\ UNCHANGED <<batches, cur, enqueued, dropped, acked, refused, lostLines>>
  BY DEF ReaderP!ReadBytes, ReaderP!chanVars, outletVars
<1>3. OutletP!Queued' = OutletP!Queued /\ OutletP!Holding' = OutletP!Holding
  BY <1>2, SameHands
<1>4. FateMeans /\ FateMeans'
  BY FatesApart, FatesApartNext
<1>5. line \in Line /\ fate[line] = "unread"
  BY <1>1, <1>4, ShuttleAssumption DEF FateMeans, Line
<1>6. line \notin enqueued \cup dropped
  BY <1>1, SettledWasRead, ShuttleAssumption
<1>7. fate'[line] = "held"
  BY <1>1, <1>2, <1>4, <1>5, <1>6, ShuttleAssumption DEF FateMeans
<1>8. ASSUME NEW l \in Line \ {line} PROVE fate'[l] = fate[l]
  <2>1. /\ l[1] \in Readers /\ l[2] \in Nat
        /\ l[1] = r => l[2] # n
    BY DEF Line
  <2>2. read'[l[1]] >= l[2] <=> read[l[1]] >= l[2]
    BY <1>1, <2>1, ShuttleAssumption
  <2>3. read'[l[1]] < l[2] <=> read[l[1]] < l[2]
    BY <1>1, <2>1, ShuttleAssumption
  <2> QED
    BY <1>2, <1>3, <1>4, <2>2, <2>3 DEF FateMeans, Fate!Final
<1>9. \A m \in 1..(n - 1) : fate[<<r, m>>] # "unread"
  BY <1>1, <1>4, ShuttleAssumption DEF FateMeans, Line
<1>10. \A m \in n..n : m = n
  BY <1>1
<1>11. \A l \in Line \ ({r} \X (n..n)) : fate'[l] = fate[l]
  BY <1>1, <1>8
<1>12. n <= n /\ "held" \in Fate!After("unread")
  BY <1>1 DEF Fate!After
<1> HIDE DEF n
<1> QED
  BY <1>1, <1>5, <1>7, <1>9, <1>10, <1>11, <1>12, RunMoves

\* The batch that a reader sends or drops: the first lines it holds.
LEMMA FirstHeld ==
  ASSUME Inv, NEW r \in Readers, NEW w \in ReaderP!Who, pc[r][w] = "send"
  PROVE  \E i, j \in 1..MaxLines :
           /\ i <= j
           /\ ReaderP!Lines(b[r]) = {r} \X (i..j)
           /\ ReaderP!Lines(b[r]) \cap (enqueued \cup dropped) = {}
           /\ \A n \in i..j : fate[<<r, n>>] = "held"
           /\ \A n \in 1..(i - 1) : fate[<<r, n>>] # "held"
<1> DEFINE i == ReaderP!LastAdded(r) - Len(b[r]) + 1
           j == ReaderP!LastAdded(r)
<1>1. b[r] # <<>>
  BY DEF Inv, ReaderP!IInv, ReaderP!CoreInv, ReaderP!MuHeldOnce, ReaderP!MuFree,
     ReaderP!Delivering
<1>2. /\ i \in 1..MaxLines /\ j \in 1..MaxLines /\ i <= j
      /\ ReaderP!Lines(b[r]) = {r} \X (i..j)
  BY <1>1, ReaderAssumed, ReaderP!BatchIsRun DEF Inv
<1>3. /\ ~ReaderP!Sent(r)
      /\ ReaderP!Lines(b[r]) \cap (enqueued \cup dropped) = {}
  BY ReaderAssumed, ReaderP!SettleBatch DEF Inv, ReaderP!IInv
<1>4. /\ read[r] \in Nat /\ Len(b[r]) \in Nat
      /\ j \in Nat /\ j <= read[r]
      /\ ReaderP!LastSettled(r) = i - 1
  BY <1>3, ShuttleAssumption DEF Inv, ReaderP!IInv, ReaderP!CoreInv, ReaderP!TypeOK,
     ReaderP!Contiguous, ReaderP!LastSettled, ReaderP!LastAdded, ReaderP!Pending
<1>5. FateMeans
  BY FatesApart
<1>6. enqueued \cup dropped
        = UNION {ReaderP!LinesOf(q, ReaderP!LastSettled(q)) : q \in Readers}
  BY DEF Inv, ReaderP!IInv, ReaderP!CoreInv, ReaderP!SettledOnce
<1> HIDE DEF i, j
<1>7. \A n \in i..j : fate[<<r, n>>] = "held"
  <2> SUFFICES ASSUME NEW n \in i..j PROVE fate[<<r, n>>] = "held"
    OBVIOUS
  <2>1. <<r, n>> \in Line /\ <<r, n>> \notin enqueued \cup dropped /\ read[r] >= n
    BY <1>2, <1>3, <1>4, ShuttleAssumption DEF Line
  <2> QED
    BY <1>5, <2>1 DEF FateMeans
<1>8. \A n \in 1..(i - 1) : fate[<<r, n>>] # "held"
  <2> SUFFICES ASSUME NEW n \in 1..(i - 1) PROVE fate[<<r, n>>] # "held"
    OBVIOUS
  <2>1. <<r, n>> \in Line
    BY <1>2, ShuttleAssumption DEF Line
  <2>2. <<r, n>> \in ReaderP!LinesOf(r, ReaderP!LastSettled(r))
    BY <1>4 DEF ReaderP!LinesOf
  <2>3. <<r, n>> \in enqueued \cup dropped
    BY <1>6, <2>2
  <2> QED
    BY <1>5, <2>1, <2>3 DEF FateMeans
<1> QED
  BY <1>2, <1>3, <1>7, <1>8

\* Enqueue: the batch is queued.
LEMMA EnqueueMoves ==
  ASSUME Inv, Inv', NEW r \in Readers, NEW w \in ReaderP!Who, ReaderP!Enqueue(r, w),
         UNCHANGED outletVars
  PROVE  Fate!Next
<1>1. /\ pc[r][w] = "send"
      /\ batches' = Append(batches, b[r])
      /\ enqueued' = enqueued \cup ReaderP!Lines(b[r])
      /\ UNCHANGED <<read, dropped, cur, acked, refused, lostLines>>
  BY DEF ReaderP!Enqueue, ReaderP!readerVars, outletVars
<1>2. PICK i \in 1..MaxLines, j \in 1..MaxLines :
        /\ i <= j
        /\ ReaderP!Lines(b[r]) = {r} \X (i..j)
        /\ ReaderP!Lines(b[r]) \cap (enqueued \cup dropped) = {}
        /\ \A n \in i..j : fate[<<r, n>>] = "held"
        /\ \A n \in 1..(i - 1) : fate[<<r, n>>] # "held"
  BY <1>1, FirstHeld
<1>3. /\ OutletP!Queued' = OutletP!Queued \cup {r} \X (i..j)
      /\ OutletP!Holding' = OutletP!Holding
  <2>1. batches \in Seq(Seq(Line)) /\ b[r] \in Seq(Line)
    BY <1>1, SendIsNew DEF Inv, OutletP!IInv, OutletP!TypeOK
  <2>2. /\ DOMAIN batches = 1..Len(batches) /\ Len(batches) \in Nat
        /\ DOMAIN batches' = 1..(Len(batches) + 1)
        /\ \A k \in 1..Len(batches) : batches'[k] = batches[k]
        /\ batches'[Len(batches) + 1] = b[r]
    BY <1>1, <2>1
  <2>3. OutletP!Queued' = OutletP!Queued \cup OutletP!Lines(b[r])
    <3>1. \A l : (\E k \in DOMAIN batches' : l \in OutletP!Lines(batches'[k]))
                   <=> \/ \E k \in DOMAIN batches : l \in OutletP!Lines(batches[k])
                       \/ l \in OutletP!Lines(b[r])
      BY <2>2
    <3> QED
      BY <3>1, OutletAssumed, OutletP!QueuedIs, OutletP!QueuedIsNext
  <2>4. OutletP!Holding' = OutletP!Holding
    BY <1>1 DEF OutletP!Holding
  <2> QED
    BY <1>2, <2>3, <2>4, SameSeen
<1>4. FateMeans /\ FateMeans'
  BY FatesApart, FatesApartNext
<1>5. \A n \in i..j : fate'[<<r, n>>] = "queued"
  BY <1>2, <1>3, <1>4, ShuttleAssumption DEF FateMeans, Line
<1>6. ASSUME NEW l \in Line \ ({r} \X (i..j)) PROVE fate'[l] = fate[l]
  BY <1>1, <1>2, <1>3, <1>4 DEF FateMeans, Fate!Final
<1>7. "queued" \in Fate!After("held")
  BY DEF Fate!After
<1> QED
  BY <1>2, <1>5, <1>6, <1>7, RunMoves

\* DropBatch: the batch is dropped.
LEMMA DropMoves ==
  ASSUME Inv, Inv', NEW r \in Readers, NEW w \in ReaderP!Who, ReaderP!DropBatch(r, w),
         UNCHANGED outletVars
  PROVE  Fate!Next
<1>1. /\ pc[r][w] = "send" /\ Drop
      /\ dropped' = dropped \cup ReaderP!Lines(b[r])
      /\ UNCHANGED <<read, batches, enqueued, cur, acked, refused, lostLines>>
  BY DEF ReaderP!DropBatch, ReaderP!readerVars, outletVars
<1>2. PICK i \in 1..MaxLines, j \in 1..MaxLines :
        /\ i <= j
        /\ ReaderP!Lines(b[r]) = {r} \X (i..j)
        /\ ReaderP!Lines(b[r]) \cap (enqueued \cup dropped) = {}
        /\ \A n \in i..j : fate[<<r, n>>] = "held"
        /\ \A n \in 1..(i - 1) : fate[<<r, n>>] # "held"
  BY <1>1, FirstHeld
<1>3. OutletP!Queued' = OutletP!Queued /\ OutletP!Holding' = OutletP!Holding
  BY <1>1, SameHands
<1>4. FateMeans /\ FateMeans'
  BY FatesApart, FatesApartNext
<1>5. \A n \in i..j : fate'[<<r, n>>] = "dropped"
  BY <1>1, <1>2, <1>4, ShuttleAssumption DEF FateMeans, Line
<1>6. ASSUME NEW l \in Line \ ({r} \X (i..j)) PROVE fate'[l] = fate[l]
  BY <1>1, <1>2, <1>3, <1>4 DEF FateMeans, Fate!Final
<1>7. "dropped" \in Fate!After("held")
  BY <1>1 DEF Fate!After
<1> QED
  BY <1>2, <1>5, <1>6, <1>7, RunMoves

\* The other steps of a reader move no line.
LEMMA ReaderMoves ==
  ASSUME Inv, Inv', NEW r \in Readers, ReaderP!ReaderStep(r), UNCHANGED outletVars
  PROVE  Fate!Next \/ UNCHANGED fate
<1>1. ASSUME UNCHANGED <<read, batches, enqueued, dropped>> PROVE fate' = fate
  <2>1. UNCHANGED <<cur, acked, refused, lostLines>>
    BY DEF outletVars
  <2> QED
    BY <1>1, <2>1, SameHands, NoMove
<1>2. ASSUME NEW w \in ReaderP!Who, ReaderP!Deliver(r, w)
      PROVE  Fate!Next \/ UNCHANGED fate
  <2>1. CASE ReaderP!Settle(r, w)
    BY <1>1, <2>1 DEF ReaderP!Settle, ReaderP!chanVars
  <2> QED
    BY <1>2, <2>1, EnqueueMoves, DropMoves DEF ReaderP!Deliver
<1>3. CASE \/ ReaderP!ReadErr(r) \/ ReaderP!AddLine(r) \/ ReaderP!Flush(r)
           \/ ReaderP!CloseStop(r) \/ ReaderP!Tick(r) \/ ReaderP!Expire(r)
           \/ ReaderP!Exit(r) \/ ReaderP!Fire(r) \/ ReaderP!CloseInput(r)
  <2>1. UNCHANGED <<read, batches, enqueued, dropped>>
    BY <1>3 DEF ReaderP!ReadErr, ReaderP!AddLine, ReaderP!Flush, ReaderP!CloseStop,
       ReaderP!Tick, ReaderP!Expire, ReaderP!Exit, ReaderP!Fire, ReaderP!CloseInput,
       ReaderP!readerVars, ReaderP!chanVars
  <2> QED
    BY <1>1, <2>1
<1> QED
  BY <1>2, <1>3, ReadMoves DEF ReaderP!ReaderStep, ReaderP!ExpirerRuns, ReaderP!Who

-----------------------------------------------------------------------------
(***************************************************************************)
(* The steps of an outlet                                                  *)
(***************************************************************************)
\* Receive: the batch at the head of the channel is posted, the first queued
\* lines of its reader.
LEMMA ReceiveFates ==
  ASSUME Inv, Inv', NEW o \in Outlets, OutletP!Receive(o), UNCHANGED readerVars
  PROVE  Fate!Next
<1>1. /\ batches \in Seq(Seq(Line)) /\ batches # <<>>
      /\ UNCHANGED <<read, enqueued, dropped, acked, refused, lostLines>>
  BY DEF OutletP!Receive, OutletP!ghostVars, readerVars, Inv, OutletP!IInv, OutletP!TypeOK
<1>2. 1 \in DOMAIN batches /\ Head(batches) = batches[1]
  BY <1>1, OutletAssumed, OutletP!HeadTail
<1>3. PICK r \in Readers, i \in 1..MaxLines, j \in 1..MaxLines :
        i <= j /\ OutletP!Lines(Head(batches)) = {r} \X (i..j)
  BY <1>2, SameSeen DEF Inv, BatchesAreRuns, IsRun
<1>4. /\ OutletP!Queued = OutletP!Queued' \cup {r} \X (i..j)
      /\ OutletP!Queued' \cap ({r} \X (i..j)) = {}
      /\ OutletP!Holding' = OutletP!Holding \cup {r} \X (i..j)
  BY <1>3, OutletAssumed, OutletP!ReceiveMoves DEF Inv
<1>5. FateMeans /\ FateMeans'
  BY FatesApart, FatesApartNext
<1>6. \A n \in i..j : <<r, n>> \in Line
  BY ShuttleAssumption DEF Line
<1>7. \A n \in i..j : fate[<<r, n>>] = "queued" /\ fate'[<<r, n>>] = "posting"
  BY <1>4, <1>5, <1>6 DEF FateMeans
<1>8. ASSUME NEW l \in Line \ ({r} \X (i..j)) PROVE fate'[l] = fate[l]
  BY <1>1, <1>4, <1>5 DEF FateMeans, Fate!Final
<1>9. ASSUME NEW n \in 1..(i - 1), fate[<<r, n>>] = "queued" PROVE FALSE
  <2>1. <<r, n>> \in Line /\ n < i
    BY <1>9, ShuttleAssumption DEF Line
  <2>2. <<r, n>> \in OutletP!Queued
    BY <1>5, <1>9, <2>1 DEF FateMeans
  <2>3. PICK k \in DOMAIN batches : <<r, n>> \in OutletP!Lines(batches[k])
    BY <2>2 DEF OutletP!Queued
  <2>4. k # 1
    BY <1>2, <1>3, <2>1, <2>3
  <2>5. k \in Nat /\ 1 < k
    BY <1>1, <2>4
  <2>6. <<r, i>> \in ReaderP!Lines(batches[1]) /\ <<r, n>> \in ReaderP!Lines(batches[k])
    BY <1>2, <1>3, <2>3, SameSeen
  <2>7. ReaderP!Before(<<r, i>>, <<r, n>>)
    BY <1>2, <2>5, <2>6 DEF Inv, ReaderP!IInv, ReaderP!QueueInOrder
  <2> QED
    BY <2>1, <2>7 DEF ReaderP!Before
<1>10. "posting" \in Fate!After("queued")
  BY DEF Fate!After
<1> QED
  BY <1>3, <1>7, <1>8, <1>9, <1>10, RunMoves

\* The batch in hand ends, whatever its end.
LEMMA EndMoves ==
  ASSUME Inv, Inv', NEW o \in Outlets, cur' = [cur EXCEPT ![o] = <<>>],
         UNCHANGED <<read, batches, enqueued, dropped>>,
         NEW end \in {"acked", "refused", "lost"},
         /\ acked' = IF end = "acked" THEN acked \cup OutletP!Lines(cur[o]) ELSE acked
         /\ refused' = IF end = "refused" THEN refused \cup OutletP!Lines(cur[o]) ELSE refused
         /\ lostLines' = IF end = "lost" THEN lostLines \cup OutletP!Lines(cur[o]) ELSE lostLines
  PROVE  Fate!Next \/ UNCHANGED fate
<1>1. /\ OutletP!Holding = OutletP!Holding' \cup OutletP!Lines(cur[o])
      /\ OutletP!Holding' \cap OutletP!Lines(cur[o]) = {}
  BY OutletAssumed, OutletP!ReturnMoves DEF Inv
<1>2. OutletP!Queued' = OutletP!Queued
  BY DEF OutletP!Queued
<1>3. CASE cur[o] = <<>>
  <2>1. OutletP!Lines(cur[o]) = {}
    BY <1>3, OutletAssumed, OutletP!NoLines
  <2>2. UNCHANGED <<acked, refused, lostLines>> /\ OutletP!Holding' = OutletP!Holding
    BY <1>1, <2>1
  <2> QED
    BY <1>2, <2>2, NoMove
<1>4. CASE cur[o] # <<>>
  <2>1. PICK r \in Readers, i \in 1..MaxLines, j \in 1..MaxLines :
          i <= j /\ OutletP!Lines(cur[o]) = {r} \X (i..j)
    BY <1>4, SameSeen DEF Inv, BatchesAreRuns, IsRun
  <2>2. FateMeans /\ FateMeans'
    BY FatesApart, FatesApartNext
  <2>3. \A n \in i..j : <<r, n>> \in Line
    BY ShuttleAssumption DEF Line
  <2>4. \A n \in i..j : fate[<<r, n>>] = "posting" /\ fate'[<<r, n>>] = end
    BY <1>1, <2>1, <2>2, <2>3 DEF FateMeans
  <2>5. ASSUME NEW l \in Line \ ({r} \X (i..j)) PROVE fate'[l] = fate[l]
    BY <1>1, <1>2, <2>1, <2>2 DEF FateMeans, Fate!Final
  <2>6. /\ end \in Fate!After("posting")
        /\ "posting" \notin Fate!InOrder
    BY DEF Fate!After, Fate!InOrder
  <2> QED
    BY <2>1, <2>4, <2>5, <2>6, RunMoves
<1> QED
  BY <1>3, <1>4

\* The other steps of an outlet move no line.
LEMMA OutletMoves ==
  ASSUME Inv, Inv', NEW o \in Outlets, OutletP!OutletStep(o), UNCHANGED readerVars
  PROVE  Fate!Next \/ UNCHANGED fate
<1> USE DEF OutletP!ghostVars, OutletP!chanVars, OutletP!localVars, OutletP!Goto, readerVars
<1>1. CASE OutletP!PostAccepted(o)
  BY <1>1, EndMoves DEF OutletP!PostAccepted, OutletP!Return
<1>2. CASE OutletP!PostRefused(o)
  BY <1>2, EndMoves DEF OutletP!PostRefused, OutletP!Return
<1>3. CASE OutletP!Lose(o)
  BY <1>3, EndMoves DEF OutletP!Lose, OutletP!Return
<1>4. CASE \/ OutletP!Finish(o) \/ OutletP!ReadDrops(o) \/ OutletP!ReadLost(o)
           \/ OutletP!PostFailed(o)
  <2>1. UNCHANGED <<batches, cur, acked, refused, lostLines>>
    BY <1>4 DEF OutletP!Finish, OutletP!ReadDrops, OutletP!ReadLost, OutletP!PostFailed,
       OutletP!Retry
  <2> QED
    BY <2>1, SameHands, NoMove
<1> QED
  BY <1>1, <1>2, <1>3, <1>4, ReceiveFates DEF OutletP!OutletStep

-----------------------------------------------------------------------------
(***************************************************************************)
(* The refinement                                                          *)
(***************************************************************************)
\* At first every line is unread.
LEMMA InitFates == Init => Fate!Init
<1> SUFFICES ASSUME Init PROVE Fate!Init
  OBVIOUS
<1>1. FateMeans
  BY InitInv, FatesApart
<1>2. \A r \in Readers : read[r] = 0
  BY DEF Init, Reader!Init
<1>3. \A l \in Line : fate[l] = "unread"
  BY <1>1, <1>2, ShuttleAssumption DEF FateMeans, Line
<1>4. fate = [l \in Line |-> fate[l]]
  BY DEF fate
<1> QED
  BY <1>3, <1>4 DEF Fate!Init, Fate!Line, Line

\* Every step of a shuttle is a step of LineFate or leaves all fates alone.
LEMMA NextFates == Inv /\ Inv' /\ [Next]_vars => [Fate!Next]_fate
<1> SUFFICES ASSUME Inv, Inv', [Next]_vars PROVE Fate!Next \/ UNCHANGED fate
  OBVIOUS
<1>1. ASSUME NEW r \in Readers, ReaderP!ReaderStep(r), UNCHANGED outletVars
      PROVE  Fate!Next \/ UNCHANGED fate
  BY <1>1, ReaderMoves
<1>2. ASSUME NEW r \in Readers, ReaderStep(r)
      PROVE  Fate!Next \/ UNCHANGED fate
  BY <1>1, <1>2, SameReaderStep DEF ReaderStep, ByReader
<1>3. ASSUME NEW r \in Readers, CloseReader(r)
      PROVE  Fate!Next \/ UNCHANGED fate
  BY <1>1, <1>3, SameReaderStep DEF CloseReader, ReaderP!ReaderStep
<1>4. ASSUME NEW o \in Outlets, OutletStep(o)
      PROVE  Fate!Next \/ UNCHANGED fate
  BY <1>4, SameOutletStep, OutletMoves DEF OutletStep
<1>5. ASSUME UNCHANGED <<readerVars, outletVars, batches>>
      PROVE  UNCHANGED fate
  BY <1>5, SameHands, NoMove DEF readerVars, outletVars
<1>6. CASE \/ CloseBatches \/ Landed \/ Launch \/ CallLand \/ UNCHANGED vars
           \/ \E r \in Readers : LoadReader(r) \/ \E w \in Reader!Who : Panic(r, w)
  <2>1. UNCHANGED <<readerVars, outletVars, batches>>
    BY <1>6 DEF CloseBatches, Landed, Launch, CallLand, LoadReader, Panic, vars, sharedVars
  <2> QED
    BY <1>5, <2>1
<1> QED
  BY <1>2, <1>3, <1>4, <1>6 DEF Next, Live, LandStep, Terminated

\* The shuttle implements LineFate: a line is held, then queued or, with -drop,
\* dropped, then posted, then accepted, refused or lost; batches move whole,
\* readers' lines in order, and no line ever goes back.
THEOREM Implements == Safety => ImplementsLineFate
<1>1. Safety => []Inv
  BY InitInv, NextInv, PTL DEF Safety
<1> QED
  BY <1>1, InitFates, NextFates, PTL DEF Safety, ImplementsLineFate, Fate!Spec
=============================================================================
