------------------------- MODULE LogLineReaderProofs -------------------------
(***************************************************************************)
(* Proofs about LogLineReader, for every set of readers, every size of a   *)
(* batch and of the channel, in both modes, and for inputs of any length.  *)
(* CoreInv is about the two goroutines of a reader and inductive; IInv     *)
(* adds what all readers share, the channel and the count of the drops.    *)
(***************************************************************************)
EXTENDS LogLineReader, Integers, FiniteSetTheorems, TLAPS

-----------------------------------------------------------------------------
\* The lines of a sequence of lines are lines.
LEMMA LinesType ==
  ASSUME NEW s \in Seq(Line)
  PROVE  Lines(s) \subseteq Line
BY DEF Lines

\* The initial states satisfy the inductive invariant.
LEMMA InitCoreInv == Init => CoreInv
<1> SUFFICES ASSUME Init PROVE CoreInv
  OBVIOUS
<1> USE ReaderAssumption DEF Init, Who
<1>1. TypeOK
  <2>1. /\ pc \in [Readers -> [Who -> ReaderLoc \cup ExpirerLoc]]
        /\ \A r \in Readers : /\ pc[r]["reader"] \in ReaderLoc
                               /\ pc[r]["expirer"] \in ExpirerLoc
    BY DEF ReaderLoc, ExpirerLoc
  <2>2. drops \in CounterType
    BY DEF CounterType, NewCounter
  <2>3. batches \in Seq(Seq(Line)) /\ Len(batches) <= BackBuff
    OBVIOUS
  <2>4. b \in [Readers -> Seq(Line)] /\ \A r \in Readers : Len(b[r]) <= BatchSize
    OBVIOUS
  <2>5. /\ after \in [Readers -> {"read", "flush", "close"}]
        /\ inputClosed \in [Readers -> BOOLEAN]
        /\ read \in [Readers -> 0..MaxLines]
        /\ armed \in [Readers -> BOOLEAN]
        /\ tick \in [Readers -> BOOLEAN]
        /\ linesBatched \in [Readers -> Nat]
        /\ linesDropped \in [Readers -> Nat]
    OBVIOUS
  <2>6. /\ batchesClosed \in BOOLEAN
        /\ enqueued \subseteq Line
        /\ dropped \subseteq Line
    OBVIOUS
  <2> QED
    BY ONLY <2>1, <2>2, <2>3, <2>4, <2>5, <2>6 DEF TypeOK
<1>2. MuHeldOnce
  BY DEF MuHeldOnce, MuFree, Delivering
<1>3. Contiguous
  BY DEF Contiguous, LastAdded, Pending
<1>4. NotFull
  BY DEF NotFull
<1>5. Emptied
  BY DEF Emptied
<1>6. NoStrandedBatch
  BY DEF NoStrandedBatch
<1>7. LinesAccounted
  BY DEF LinesAccounted, Pending
<1>8. SettledOnce
  <2>1. \A r \in Readers : LinesOf(r, LastSettled(r)) = {}
    BY DEF LinesOf, LastSettled, LastAdded, Pending, Sent
  <2>2. UNION {LinesOf(r, LastSettled(r)) : r \in Readers} = {}
    BY <2>1
  <2> QED
    BY <2>2 DEF SettledOnce
<1> QED
  BY <1>1, <1>2, <1>3, <1>4, <1>5, <1>6, <1>7, <1>8 DEF CoreInv

-----------------------------------------------------------------------------
(***************************************************************************)
(* The invariants about lines depend on little: three frame lemmas.        *)
(***************************************************************************)
\* Contiguous survives a step that keeps b and the number of lines added.
LEMMA ContiguousFrame ==
  ASSUME Contiguous, UNCHANGED b,
         \A q \in Readers : LastAdded(q)' = LastAdded(q)
  PROVE  Contiguous'
BY DEF Contiguous

\* SettledOnce survives a step that settles nothing.
LEMMA SettledFrame ==
  ASSUME SettledOnce, UNCHANGED <<enqueued, dropped>>,
         \A q \in Readers : LastSettled(q)' = LastSettled(q)
  PROVE  SettledOnce'
<1>1. (UNION {LinesOf(q, LastSettled(q)) : q \in Readers})'
        = UNION {LinesOf(q, LastSettled(q)) : q \in Readers}
  BY DEF LinesOf
<1> QED
  BY <1>1 DEF SettledOnce

\* A step that neither reads, adds nor settles a line keeps all three.
LEMMA LinesFrame ==
  ASSUME CoreInv,
         UNCHANGED <<read, b, linesBatched, linesDropped, enqueued, dropped>>,
         \A q \in Readers : Pending(q)' = Pending(q) /\ Sent(q)' = Sent(q)
  PROVE  Contiguous' /\ LinesAccounted' /\ SettledOnce'
<1>1. \A q \in Readers : /\ LastAdded(q)' = LastAdded(q)
                         /\ LastSettled(q)' = LastSettled(q)
  BY DEF LastAdded, LastSettled
<1>2. LinesAccounted'
  BY DEF CoreInv, LinesAccounted
<1> QED
  BY <1>1, <1>2, ContiguousFrame, SettledFrame DEF CoreInv

-----------------------------------------------------------------------------
(***************************************************************************)
(* The steps that leave the lines where they are                           *)
(***************************************************************************)
\* ReadErr returns from ReadBytes without a line.
LEMMA ReadErrStep ==
  ASSUME CoreInv, NEW r \in Readers, ReadErr(r)
  PROVE  CoreInv'
<1> USE DEF CoreInv, ReadErr, readerVars, statVars, chanVars, Goto, Who, Delivering, MuFree
<1>1. TypeOK'
  BY ReaderAssumption DEF TypeOK, ReaderLoc, ExpirerLoc
<1>2. MuHeldOnce' /\ NotFull'
  BY DEF MuHeldOnce, NotFull, TypeOK
<1>3. Emptied' /\ NoStrandedBatch'
  BY DEF Emptied, MuHeldOnce, NoStrandedBatch, TypeOK
<1>4. Contiguous' /\ LinesAccounted' /\ SettledOnce'
  BY LinesFrame DEF Pending, Sent, TypeOK
<1> QED
  BY <1>1, <1>2, <1>3, <1>4

\* Flush decides between a last delivery and the end.
LEMMA FlushStep ==
  ASSUME CoreInv, NEW r \in Readers, Flush(r)
  PROVE  CoreInv'
<1> USE DEF CoreInv, Flush, FlushTo, StopTimer, statVars, chanVars, Goto, Who, Delivering, MuFree
<1>1. TypeOK'
  BY ReaderAssumption DEF TypeOK, ReaderLoc, ExpirerLoc
<1>2. MuHeldOnce' /\ NotFull'
  BY DEF MuHeldOnce, NotFull, TypeOK
<1>3. Emptied' /\ NoStrandedBatch'
  BY DEF Emptied, MuHeldOnce, NoStrandedBatch, TypeOK
<1>4. Contiguous' /\ LinesAccounted' /\ SettledOnce'
  BY LinesFrame DEF Pending, Sent, TypeOK
<1> QED
  BY <1>1, <1>2, <1>3, <1>4

\* CloseStop closes rdr.close.
LEMMA CloseStopStep ==
  ASSUME CoreInv, NEW r \in Readers, CloseStop(r)
  PROVE  CoreInv'
<1> USE DEF CoreInv, CloseStop, readerVars, statVars, chanVars, Goto, Who, Delivering, MuFree
<1>1. TypeOK'
  BY ReaderAssumption DEF TypeOK, ReaderLoc, ExpirerLoc
<1>2. MuHeldOnce' /\ NotFull'
  BY DEF MuHeldOnce, NotFull, TypeOK
<1>3. Emptied' /\ NoStrandedBatch'
  BY DEF Emptied, MuHeldOnce, NoStrandedBatch, TypeOK
<1>4. Contiguous' /\ LinesAccounted' /\ SettledOnce'
  BY LinesFrame DEF Pending, Sent, TypeOK
<1> QED
  BY <1>1, <1>2, <1>3, <1>4

\* Fire puts a tick into the timer's channel.
LEMMA FireStep ==
  ASSUME CoreInv, NEW r \in Readers, Fire(r)
  PROVE  CoreInv'
<1> USE DEF CoreInv, Fire, statVars, chanVars, Goto, Who, Delivering, MuFree
<1>1. TypeOK'
  BY ReaderAssumption DEF TypeOK, ReaderLoc, ExpirerLoc
<1>2. MuHeldOnce' /\ NotFull'
  BY DEF MuHeldOnce, NotFull, TypeOK
<1>3. Emptied' /\ NoStrandedBatch'
  BY DEF Emptied, MuHeldOnce, NoStrandedBatch, TypeOK
<1>4. Contiguous' /\ LinesAccounted' /\ SettledOnce'
  BY LinesFrame DEF Pending, Sent, TypeOK
<1> QED
  BY <1>1, <1>2, <1>3, <1>4

\* Tick takes it out.
LEMMA TickStep ==
  ASSUME CoreInv, NEW r \in Readers, Tick(r)
  PROVE  CoreInv'
<1> USE DEF CoreInv, Tick, statVars, chanVars, Goto, Who, Delivering, MuFree
<1>1. TypeOK'
  BY ReaderAssumption DEF TypeOK, ReaderLoc, ExpirerLoc
<1>2. MuHeldOnce' /\ NotFull'
  BY DEF MuHeldOnce, NotFull, TypeOK
<1>3. Emptied' /\ NoStrandedBatch'
  BY DEF Emptied, MuHeldOnce, NoStrandedBatch, TypeOK
<1>4. Contiguous' /\ LinesAccounted' /\ SettledOnce'
  BY LinesFrame DEF Pending, Sent, TypeOK
<1> QED
  BY <1>1, <1>2, <1>3, <1>4

\* Expire decides whether there is a batch to deliver.
LEMMA ExpireStep ==
  ASSUME CoreInv, NEW r \in Readers, Expire(r)
  PROVE  CoreInv'
<1> USE DEF CoreInv, Expire, StopTimer, statVars, chanVars, Goto, Who, Delivering, MuFree
<1>1. TypeOK'
  BY ReaderAssumption DEF TypeOK, ReaderLoc, ExpirerLoc
<1>2. MuHeldOnce' /\ NotFull'
  BY DEF MuHeldOnce, NotFull, TypeOK
<1>3. Emptied' /\ NoStrandedBatch'
  BY DEF Emptied, MuHeldOnce, NoStrandedBatch, TypeOK
<1>4. Contiguous' /\ LinesAccounted' /\ SettledOnce'
  BY LinesFrame DEF Pending, Sent, TypeOK
<1> QED
  BY <1>1, <1>2, <1>3, <1>4

\* Exit ends the expirer.
LEMMA ExitStep ==
  ASSUME CoreInv, NEW r \in Readers, Exit(r)
  PROVE  CoreInv'
<1> USE DEF CoreInv, Exit, Closed, readerVars, statVars, chanVars, Goto, Who, Delivering, MuFree
<1>1. TypeOK'
  BY ReaderAssumption DEF TypeOK, ReaderLoc, ExpirerLoc
<1>2. MuHeldOnce' /\ NotFull'
  BY DEF MuHeldOnce, NotFull, TypeOK
<1>3. Emptied' /\ NoStrandedBatch'
  BY DEF Emptied, MuHeldOnce, NoStrandedBatch, TypeOK
<1>4. Contiguous' /\ LinesAccounted' /\ SettledOnce'
  BY LinesFrame DEF Pending, Sent, TypeOK
<1> QED
  BY <1>1, <1>2, <1>3, <1>4

\* CloseInput closes the input.
LEMMA CloseInputStep ==
  ASSUME CoreInv, NEW r \in Readers, CloseInput(r)
  PROVE  CoreInv'
<1> USE DEF CoreInv, CloseInput, statVars, chanVars, Goto, Who, Delivering, MuFree
<1>1. TypeOK'
  BY ReaderAssumption DEF TypeOK, ReaderLoc, ExpirerLoc
<1>2. MuHeldOnce' /\ NotFull'
  BY DEF MuHeldOnce, NotFull, TypeOK
<1>3. Emptied' /\ NoStrandedBatch'
  BY DEF Emptied, MuHeldOnce, NoStrandedBatch, TypeOK
<1>4. Contiguous' /\ LinesAccounted' /\ SettledOnce'
  BY LinesFrame DEF Pending, Sent, TypeOK
<1> QED
  BY <1>1, <1>2, <1>3, <1>4

\* Consume takes a batch from the channel.
LEMMA ConsumeStep ==
  ASSUME CoreInv, Consume
  PROVE  CoreInv'
<1> USE DEF CoreInv, Consume, readerVars, statVars, Goto, Who, Delivering, MuFree
<1>1. TypeOK'
  BY ReaderAssumption DEF TypeOK, ReaderLoc, ExpirerLoc
<1>2. MuHeldOnce' /\ NotFull'
  BY DEF MuHeldOnce, NotFull, TypeOK
<1>3. Emptied' /\ NoStrandedBatch'
  BY DEF Emptied, MuHeldOnce, NoStrandedBatch, TypeOK
<1>4. Contiguous' /\ LinesAccounted' /\ SettledOnce'
  BY LinesFrame DEF Pending, Sent, TypeOK
<1> QED
  BY <1>1, <1>2, <1>3, <1>4

-----------------------------------------------------------------------------
(***************************************************************************)
(* The steps that read, add, send, drop and settle                         *)
(***************************************************************************)
\* ReadBytes: one line more is read, and pending.
LEMMA ReadBytesStep ==
  ASSUME CoreInv, NEW r \in Readers, ReadBytes(r)
  PROVE  CoreInv'
<1> USE DEF CoreInv, ReadBytes, Goto, Who, Delivering, MuFree, statVars, chanVars
<1>1. TypeOK'
  BY ReaderAssumption DEF TypeOK, ReaderLoc, ExpirerLoc
<1>2. MuHeldOnce' /\ NotFull'
  BY DEF MuHeldOnce, NotFull, TypeOK
<1>3. Emptied' /\ NoStrandedBatch'
  BY DEF Emptied, NoStrandedBatch, TypeOK
<1>4. \A q \in Readers : LastAdded(q)' = LastAdded(q) /\ Sent(q)' = Sent(q)
  BY DEF LastAdded, Pending, Sent, TypeOK
<1>5. Contiguous' /\ SettledOnce'
  BY <1>4, ContiguousFrame, SettledFrame DEF LastSettled
<1>6. LinesAccounted'
  BY DEF LinesAccounted, Pending, TypeOK
<1> QED
  BY <1>1, <1>2, <1>3, <1>5, <1>6

\* AddLine: the pending line becomes the last of b, which goes out if full.
LEMMA AddLineStep ==
  ASSUME CoreInv, NEW r \in Readers, AddLine(r)
  PROVE  CoreInv'
<1> DEFINE line == <<r, read[r]>>
           lines == Append(b[r], line)
<1> USE DEF Goto, Who, Delivering, MuFree
<1>1. /\ b[r] \in Seq(Line)
      /\ read[r] \in Nat
      /\ Len(b[r]) < BatchSize
      /\ pc[r]["reader"] = "add"
      /\ read[r] = LastAdded(r) + 1
      /\ after[r] \in {"read", "flush"}
  BY ReaderAssumption DEF CoreInv, AddLine, TypeOK, NotFull, LastAdded, Pending, Emptied
<1>2. line \in Line
  <2>1. read[r] > 0
    BY <1>1 DEF CoreInv, TypeOK, LinesAccounted, Pending
  <2> QED
    BY <1>1, <2>1 DEF Line
<1>3. /\ lines \in Seq(Line)
      /\ Len(lines) = Len(b[r]) + 1
      /\ \A i \in 1..Len(b[r]) : lines[i] = b[r][i]
      /\ lines[Len(b[r]) + 1] = line
  BY <1>1, <1>2
<1>4. /\ b' = [b EXCEPT ![r] = lines]
      /\ \/ IsFull(lines) /\ StopTimer(r) /\ Goto(r, "reader", "send")
         \/ /\ ~IsFull(lines)
            /\ IF NeedsTimer(lines) THEN ResetTimer(r) ELSE UNCHANGED armed
            /\ Goto(r, "reader", after[r])
      /\ UNCHANGED <<after, inputClosed, read, tick, statVars, chanVars>>
      /\ MuFree(r)
  BY DEF AddLine
<1> HIDE DEF lines, line
<1>5. TypeOK'
  <2>1. b' \in [Readers -> Seq(Line)] /\ \A q \in Readers : Len(b'[q]) <= BatchSize
    BY <1>1, <1>3, <1>4, ReaderAssumption DEF CoreInv, TypeOK
  <2>2. /\ pc' \in [Readers -> [Who -> ReaderLoc \cup ExpirerLoc]]
        /\ \A q \in Readers : /\ pc'[q]["reader"] \in ReaderLoc
                              /\ pc'[q]["expirer"] \in ExpirerLoc
    <3>1. \E loc \in {"send", "read", "flush"} : pc' = [pc EXCEPT ![r]["reader"] = loc]
      BY <1>1, <1>4
    <3> QED
      BY <3>1 DEF CoreInv, TypeOK, ReaderLoc, ExpirerLoc
  <2>3. armed' \in [Readers -> BOOLEAN]
    BY <1>4 DEF CoreInv, TypeOK, StopTimer, ResetTimer
  <2> QED
    BY <1>4, <2>1, <2>2, <2>3 DEF CoreInv, TypeOK, statVars, chanVars
<1>6. \A q \in Readers \ {r} : pc'[q] = pc[q] /\ b'[q] = b[q] /\ armed'[q] = armed[q]
  BY <1>4 DEF CoreInv, TypeOK, StopTimer, ResetTimer
<1>7. /\ b'[r] = lines
      /\ pc'[r]["expirer"] = pc[r]["expirer"]
      /\ pc'[r]["reader"] = IF IsFull(lines) THEN "send" ELSE after[r]
      /\ ~IsFull(lines) /\ Len(lines) = 1 => armed'[r]
      /\ ~IsFull(lines) /\ Len(lines) # 1 => armed'[r] = armed[r]
  BY <1>4 DEF CoreInv, TypeOK, StopTimer, ResetTimer, NeedsTimer
<1>8. MuHeldOnce' /\ NotFull'
  BY <1>1, <1>3, <1>4, <1>6, <1>7, ReaderAssumption DEF CoreInv, TypeOK, MuHeldOnce, NotFull, IsFull
<1>9. Emptied'
  BY <1>1, <1>4, <1>6, <1>7 DEF CoreInv, Emptied
<1>10. NoStrandedBatch'
  <2>1. Len(lines) # 1 => b[r] # <<>>
    BY <1>1, <1>3
  <2> QED
    BY <1>1, <1>4, <1>6, <1>7, <2>1 DEF CoreInv, NoStrandedBatch, Emptied
<1>11. /\ LastAdded(r)' = LastAdded(r) + 1
       /\ Sent(r)' = FALSE /\ Sent(r) = FALSE
       /\ \A q \in Readers \ {r} : LastAdded(q)' = LastAdded(q) /\ Sent(q)' = Sent(q)
  BY <1>1, <1>4, <1>6, <1>7 DEF CoreInv, TypeOK, LastAdded, Pending, Sent
<1>12. Contiguous'
  <2>1. LastAdded(r) \in Int /\ Len(b[r]) \in Nat
    BY <1>1 DEF CoreInv, TypeOK, LastAdded, Pending
  <2>2. /\ Len(b[r]) <= LastAdded(r)
        /\ \A i \in 1..Len(b[r]) : b[r][i] = <<r, LastAdded(r) - Len(b[r]) + i>>
    BY DEF CoreInv, Contiguous
  <2>3. ASSUME NEW i \in 1..Len(lines)
        PROVE  lines[i] = <<r, LastAdded(r) + 1 - Len(lines) + i>>
    <3>1. CASE i \in 1..Len(b[r])
      <4>1. LastAdded(r) + 1 - Len(lines) + i = LastAdded(r) - Len(b[r]) + i
        BY <1>3, <2>1
      <4>2. lines[i] = <<r, LastAdded(r) - Len(b[r]) + i>>
        BY <1>3, <2>2, <3>1
      <4> QED
        BY <4>1, <4>2
    <3>2. CASE i = Len(b[r]) + 1
      BY <1>1, <1>3, <2>1, <3>2 DEF line
    <3> QED
      BY <1>3, <2>1, <3>1, <3>2
  <2>4. ASSUME NEW q \in Readers
        PROVE  /\ Len(b'[q]) <= LastAdded(q)'
               /\ \A i \in 1..Len(b'[q]) : b'[q][i] = <<q, LastAdded(q)' - Len(b'[q]) + i>>
    <3>1. CASE q = r
      <4>1. b'[q] = lines
        BY <1>7, <3>1
      <4>2. LastAdded(q)' = LastAdded(r) + 1
        BY <1>11, <3>1
      <4>3. Len(lines) <= LastAdded(r) + 1
        BY <1>3, <2>1, <2>2
      <4>4. ASSUME NEW i \in 1..Len(b'[q])
            PROVE  b'[q][i] = <<q, LastAdded(q)' - Len(b'[q]) + i>>
        <5>1. i \in 1..Len(lines)
          BY <4>1
        <5>2. lines[i] = <<r, LastAdded(r) + 1 - Len(lines) + i>>
          BY <2>3, <5>1
        <5>3. LastAdded(q)' - Len(b'[q]) + i = LastAdded(r) + 1 - Len(lines) + i
          <6>1. Len(lines) \in Nat /\ i \in Nat
            BY <1>3, <5>1
          <6>2. Len(b'[q]) = Len(lines)
            BY <4>1
          <6> QED
            BY ONLY <2>1, <4>2, <6>1, <6>2
        <5> QED
          BY ONLY <3>1, <4>1, <5>2, <5>3
      <4>5. Len(b'[q]) <= LastAdded(q)'
        BY ONLY <4>1, <4>2, <4>3
      <4> QED
        BY ONLY <4>4, <4>5
    <3>2. CASE q # r
      BY <1>6, <1>11, <3>2 DEF CoreInv, Contiguous
    <3> QED
      BY <3>1, <3>2
  <2> QED
    BY <2>4 DEF Contiguous
<1>13. LinesAccounted'
  <2>1. /\ read' = read /\ linesBatched' = linesBatched /\ linesDropped' = linesDropped
        /\ Pending(r) = 1 /\ Pending(r)' = 0
        /\ \A q \in Readers \ {r} : Pending(q)' = Pending(q)
    BY <1>1, <1>4, <1>6, <1>7 DEF Pending, statVars
  <2>2. linesBatched[r] \in Nat /\ linesDropped[r] \in Nat /\ Len(b[r]) \in Nat
    BY <1>1 DEF CoreInv, TypeOK
  <2>3. read[r] = linesBatched[r] + linesDropped[r] + Len(b[r]) + 1
    BY <2>1 DEF CoreInv, LinesAccounted
  <2>4. read[r] = linesBatched[r] + linesDropped[r] + Len(lines)
    <3>1. Len(lines) = Len(b[r]) + 1
      BY <1>3
    <3> QED
      BY ONLY <2>2, <2>3, <3>1
  <2>5. read'[r] = linesBatched'[r] + linesDropped'[r] + Len(b'[r]) + Pending(r)'
    <3>1. Len(lines) \in Nat
      BY <1>3
    <3> QED
      BY <1>7, <2>1, <2>2, <2>4, <3>1
  <2>6. \A q \in Readers \ {r} :
          read'[q] = linesBatched'[q] + linesDropped'[q] + Len(b'[q]) + Pending(q)'
    BY <1>6, <2>1 DEF CoreInv, LinesAccounted
  <2> QED
    BY <2>5, <2>6 DEF LinesAccounted
<1>14. SettledOnce'
  <2>1. LastAdded(r) \in Int
    BY <1>1 DEF CoreInv, TypeOK, LastAdded, Pending
  <2>2. \A q \in Readers : LastSettled(q)' = LastSettled(q)
    BY <1>1, <1>3, <1>6, <1>7, <1>11, <2>1 DEF LastSettled
  <2> QED
    BY <1>4, <2>2, SettledFrame DEF CoreInv, chanVars
<1> QED
  BY <1>5, <1>8, <1>9, <1>10, <1>12, <1>13, <1>14 DEF CoreInv

\* The lines of the batch in hand, seen as numbers.
LEMMA BatchLines ==
  ASSUME CoreInv, NEW r \in Readers
  PROVE  /\ LastAdded(r) \in Int
         /\ Len(b[r]) \in Nat
         /\ Lines(b[r]) = {r} \X ((LastAdded(r) - Len(b[r]) + 1)..LastAdded(r))
<1>1. LastAdded(r) \in Int /\ Len(b[r]) \in Nat /\ DOMAIN b[r] = 1..Len(b[r])
  BY ReaderAssumption DEF CoreInv, TypeOK, LastAdded, Pending
<1>2. \A i \in 1..Len(b[r]) : b[r][i] = <<r, LastAdded(r) - Len(b[r]) + i>>
  BY DEF CoreInv, Contiguous
<1>3. ASSUME NEW n \in (LastAdded(r) - Len(b[r]) + 1)..LastAdded(r)
      PROVE  <<r, n>> \in Lines(b[r])
  <2>1. n - LastAdded(r) + Len(b[r]) \in 1..Len(b[r])
    BY <1>1
  <2>2. b[r][n - LastAdded(r) + Len(b[r])] = <<r, n>>
    BY <1>1, <1>2, <2>1
  <2> QED
    BY <1>1, <2>1, <2>2 DEF Lines
<1>4. ASSUME NEW l \in Lines(b[r])
      PROVE  l \in {r} \X ((LastAdded(r) - Len(b[r]) + 1)..LastAdded(r))
  <2>1. PICK i \in 1..Len(b[r]) : l = b[r][i]
    BY <1>1 DEF Lines
  <2>2. LastAdded(r) - Len(b[r]) + i \in (LastAdded(r) - Len(b[r]) + 1)..LastAdded(r)
    BY <1>1
  <2>3. l = <<r, LastAdded(r) - Len(b[r]) + i>>
    BY <1>2, <2>1
  <2> QED
    BY <2>2, <2>3
<1> QED
  BY <1>1, <1>3, <1>4

\* Before deliverOrDropCurrent touches the channel none of the batch's lines
\* is settled; the batch's lines make up the gap to the last line added.
LEMMA SettleBatch ==
  ASSUME CoreInv, NEW r \in Readers, NEW w \in Who, pc[r][w] = "send"
  PROVE  /\ ~Sent(r)
         /\ Lines(b[r]) \cap (enqueued \cup dropped) = {}
         /\ enqueued \cup dropped \cup Lines(b[r])
              = UNION {LinesOf(q, IF q = r THEN LastAdded(r) ELSE LastSettled(q)) : q \in Readers}
<1>1. ~Sent(r)
  BY DEF CoreInv, MuHeldOnce, Delivering, Sent, Who
<1>2. LastSettled(r) = LastAdded(r) - Len(b[r]) /\ Len(b[r]) <= LastAdded(r)
  BY <1>1 DEF LastSettled, CoreInv, Contiguous
<1>3. /\ LastAdded(r) \in Int /\ Len(b[r]) \in Nat
      /\ Lines(b[r]) = {r} \X ((LastSettled(r) + 1)..LastAdded(r))
  BY <1>2, BatchLines
<1>4. enqueued \cup dropped = UNION {LinesOf(q, LastSettled(q)) : q \in Readers}
  BY DEF CoreInv, SettledOnce
<1>5. Lines(b[r]) \cap (enqueued \cup dropped) = {}
  BY <1>2, <1>3, <1>4 DEF LinesOf
<1>6. LinesOf(r, LastSettled(r)) \cup Lines(b[r]) = LinesOf(r, LastAdded(r))
  <2>1. 1..LastSettled(r) \cup (LastSettled(r) + 1)..LastAdded(r) = 1..LastAdded(r)
    BY <1>2, <1>3
  <2> QED
    BY <1>3, <2>1 DEF LinesOf
<1>7. enqueued \cup dropped \cup Lines(b[r])
        = UNION {LinesOf(q, IF q = r THEN LastAdded(r) ELSE LastSettled(q)) : q \in Readers}
  <2> DEFINE N(q) == IF q = r THEN LastAdded(r) ELSE LastSettled(q)
  <2>1. \A q \in Readers : q # r => LinesOf(q, N(q)) = LinesOf(q, LastSettled(q))
    OBVIOUS
  <2>2. LinesOf(r, N(r)) = LinesOf(r, LastSettled(r)) \cup Lines(b[r])
    BY <1>6
  <2> HIDE DEF N
  <2>3. \A l : l \in UNION {LinesOf(q, N(q)) : q \in Readers}
                <=> \E q \in Readers : l \in LinesOf(q, N(q))
    OBVIOUS
  <2>4. \A l : l \in enqueued \cup dropped
                <=> \E q \in Readers : l \in LinesOf(q, LastSettled(q))
    BY <1>4
  <2>5. \A l : l \in enqueued \cup dropped \cup Lines(b[r])
                <=> \E q \in Readers : l \in LinesOf(q, N(q))
    BY <2>1, <2>2, <2>4
  <2>6. enqueued \cup dropped \cup Lines(b[r]) = UNION {LinesOf(q, N(q)) : q \in Readers}
    BY <2>3, <2>5
  <2> QED
    BY <2>6 DEF N
<1> QED
  BY <1>1, <1>5, <1>7

\* The channel operation itself: a send or a drop settles the batch in hand.
LEMMA ChannelStep ==
  ASSUME CoreInv, NEW r \in Readers, NEW w \in Who, Enqueue(r, w) \/ DropBatch(r, w)
  PROVE  CoreInv'
<1> USE DEF Goto, Who, Delivering, MuFree, readerVars, statVars
<1>1. /\ pc[r][w] = "send"
      /\ \E loc \in {"sent", "full"} : pc' = [pc EXCEPT ![r][w] = loc]
      /\ UNCHANGED <<readerVars, statVars, batchesClosed>>
      /\ \/ /\ enqueued' = enqueued \cup Lines(b[r])
            /\ UNCHANGED dropped
         \/ /\ dropped' = dropped \cup Lines(b[r])
            /\ Drop
            /\ UNCHANGED enqueued
  BY DEF Enqueue, DropBatch
<1>2. TypeOK'
  <2>1. Lines(b[r]) \subseteq Line
    BY LinesType DEF CoreInv, TypeOK
  <2>2. batches' \in Seq(Seq(Line)) /\ Len(batches') <= BackBuff
    <3>1. CASE Enqueue(r, w)
      BY <3>1, ReaderAssumption DEF CoreInv, TypeOK, Enqueue
    <3>2. CASE DropBatch(r, w)
      BY <3>2 DEF CoreInv, TypeOK, DropBatch
    <3> QED
      BY <3>1, <3>2
  <2> QED
    BY <1>1, <2>1, <2>2 DEF CoreInv, TypeOK, ReaderLoc, ExpirerLoc
<1>3. MuHeldOnce' /\ NotFull'
  BY <1>1 DEF CoreInv, MuHeldOnce, NotFull, TypeOK
<1>4. Emptied' /\ NoStrandedBatch'
  BY <1>1 DEF CoreInv, Emptied, NoStrandedBatch, TypeOK
<1>5. \A q \in Readers : LastAdded(q)' = LastAdded(q) /\ Pending(q)' = Pending(q)
  BY <1>1 DEF CoreInv, TypeOK, LastAdded, Pending
<1>6. Contiguous' /\ LinesAccounted'
  BY <1>1, <1>5, ContiguousFrame DEF CoreInv, LinesAccounted
<1>7. SettledOnce'
  <2>1. \A q \in Readers :
          LastSettled(q)' = IF q = r THEN LastAdded(r) ELSE LastSettled(q)
    <3>1. Sent(r)' /\ \A q \in Readers \ {r} : Sent(q)' = Sent(q)
      BY <1>1 DEF CoreInv, TypeOK, Sent
    <3>2. LastAdded(r) \in Int
      BY BatchLines
    <3> QED
      BY <1>1, <1>5, <3>1, <3>2 DEF LastSettled
  <2>2. (UNION {LinesOf(q, LastSettled(q)) : q \in Readers})'
          = UNION {LinesOf(q, IF q = r THEN LastAdded(r) ELSE LastSettled(q)) : q \in Readers}
    BY <2>1 DEF LinesOf
  <2>3. (enqueued \cup dropped)' = enqueued \cup dropped \cup Lines(b[r])
    BY <1>1
  <2>4. (enqueued \cap dropped)' = {}
    BY <1>1, SettleBatch DEF CoreInv, SettledOnce
  <2> QED
    BY <1>1, <2>2, <2>3, <2>4, SettleBatch DEF CoreInv, SettledOnce
<1> QED
  BY <1>2, <1>3, <1>4, <1>6, <1>7 DEF CoreInv

\* Settle: the metrics move, a new batch starts, and mu is released.
LEMMA SettleStep ==
  ASSUME CoreInv, NEW r \in Readers, NEW w \in Who, Settle(r, w)
  PROVE  CoreInv'
<1> USE DEF Goto, Who, Delivering, MuFree
<1>1. /\ pc[r][w] \in {"sent", "full"}
      /\ b' = [b EXCEPT ![r] = <<>>]
      /\ pc' = [pc EXCEPT ![r][w] = IF w = "reader" THEN after[r] ELSE "wait"]
      /\ UNCHANGED <<after, inputClosed, read, armed, tick, chanVars>>
      /\ Len(b[r]) \in Nat
  BY DEF CoreInv, TypeOK, Settle
<1>2. /\ \/ /\ linesBatched' = [linesBatched EXCEPT ![r] = @ + Len(b[r])]
            /\ UNCHANGED <<linesDropped, drops>>
         \/ /\ linesDropped' = [linesDropped EXCEPT ![r] = @ + Len(b[r])]
            /\ drops' = Add(drops, Len(b[r]))
            /\ UNCHANGED linesBatched
  BY DEF Settle, CountDropped
<1>3. TypeOK'
  <2>1. /\ linesBatched' \in [Readers -> Nat]
        /\ linesDropped' \in [Readers -> Nat]
    <3>1. linesBatched \in [Readers -> Nat] /\ linesDropped \in [Readers -> Nat]
      BY DEF CoreInv, TypeOK
    <3>2. CASE linesBatched' = [linesBatched EXCEPT ![r] = @ + Len(b[r])] /\ UNCHANGED linesDropped
      BY ONLY <1>1, <3>1, <3>2
    <3>3. CASE linesDropped' = [linesDropped EXCEPT ![r] = @ + Len(b[r])] /\ UNCHANGED linesBatched
      BY ONLY <1>1, <3>1, <3>3
    <3> QED
      BY <1>2, <3>2, <3>3
  <2>2. drops' \in CounterType
    BY <1>1, <1>2 DEF CoreInv, TypeOK, CounterType, Add
  <2>3. b' \in [Readers -> Seq(Line)] /\ \A q \in Readers : Len(b'[q]) <= BatchSize
    BY <1>1, ReaderAssumption DEF CoreInv, TypeOK
  <2>4. /\ pc' \in [Readers -> [Who -> ReaderLoc \cup ExpirerLoc]]
        /\ \A q \in Readers : /\ pc'[q]["reader"] \in ReaderLoc
                              /\ pc'[q]["expirer"] \in ExpirerLoc
    BY <1>1 DEF CoreInv, TypeOK, ReaderLoc, ExpirerLoc
  <2> QED
    BY <1>1, <2>1, <2>2, <2>3, <2>4 DEF CoreInv, TypeOK, chanVars
<1>4. MuHeldOnce' /\ NotFull'
  <2>1. MuFree(r)'
    BY <1>1 DEF CoreInv, MuHeldOnce, TypeOK
  <2>2. \A q \in Readers \ {r} : pc'[q] = pc[q] /\ b'[q] = b[q]
    BY <1>1 DEF CoreInv, TypeOK
  <2>3. Len(b'[r]) < BatchSize
    BY <1>1, ReaderAssumption DEF CoreInv, TypeOK
  <2> QED
    BY <2>1, <2>2, <2>3 DEF CoreInv, MuHeldOnce, NotFull
<1>5. Emptied' /\ NoStrandedBatch'
  BY <1>1 DEF CoreInv, Emptied, MuHeldOnce, NoStrandedBatch, TypeOK
<1>6. \A q \in Readers : LastAdded(q)' = LastAdded(q) /\ Pending(q)' = Pending(q)
  BY <1>1 DEF CoreInv, TypeOK, LastAdded, Pending
<1>7. b'[r] = <<>> /\ \A q \in Readers \ {r} : b'[q] = b[q]
  BY <1>1 DEF CoreInv, TypeOK
<1>8. Contiguous'
  <2>1. LastAdded(r)' >= 0
    BY <1>1, <1>6 DEF CoreInv, Contiguous, TypeOK, LastAdded, Pending
  <2> QED
    BY <1>6, <1>7, <2>1 DEF CoreInv, Contiguous
<1>9. LinesAccounted'
  BY <1>1, <1>2, <1>6, <1>7 DEF CoreInv, LinesAccounted, TypeOK
<1>10. SettledOnce'
  <2>1. Sent(r) /\ ~Sent(r)' /\ \A q \in Readers \ {r} : Sent(q)' = Sent(q)
    BY <1>1 DEF CoreInv, MuHeldOnce, TypeOK, Sent
  <2>2. LastAdded(r) \in Int
    BY BatchLines
  <2>3. \A q \in Readers : LastSettled(q)' = LastSettled(q)
    BY <1>6, <1>7, <2>1, <2>2 DEF LastSettled
  <2> QED
    BY <1>1, <2>3, SettledFrame DEF CoreInv, chanVars
<1> QED
  BY <1>3, <1>4, <1>5, <1>8, <1>9, <1>10 DEF CoreInv

-----------------------------------------------------------------------------
(***************************************************************************)
(* The theorems                                                            *)
(***************************************************************************)
\* Every step of every goroutine, and the consumer's, keeps CoreInv.
LEMMA NextCoreInv == CoreInv /\ [Next]_vars => CoreInv'
<1> SUFFICES ASSUME CoreInv, [Next]_vars PROVE CoreInv'
  OBVIOUS
<1>1. ASSUME NEW r \in Readers, NEW w \in Who, Deliver(r, w)
      PROVE  CoreInv'
  BY <1>1, ChannelStep, SettleStep DEF Deliver
<1>2. ASSUME NEW r \in Readers, ExpirerRuns(r)
      PROVE  CoreInv'
  BY <1>1, <1>2, TickStep, ExpireStep, ExitStep DEF ExpirerRuns, Who
<1>3. ASSUME NEW r \in Readers, ReaderStep(r)
      PROVE  CoreInv'
  BY <1>1, <1>2, <1>3, ReadBytesStep, ReadErrStep, AddLineStep, FlushStep,
     CloseStopStep, FireStep, CloseInputStep DEF ReaderStep, Who
<1>4. CASE UNCHANGED vars
  <2>1. \A q \in Readers : Pending(q)' = Pending(q) /\ Sent(q)' = Sent(q)
    BY <1>4 DEF vars, Pending, Sent
  <2>2. TypeOK'
    BY <1>4 DEF CoreInv, TypeOK, vars, readerVars, statVars, chanVars
  <2>3. MuHeldOnce' /\ NotFull' /\ Emptied' /\ NoStrandedBatch'
    BY <1>4 DEF CoreInv, MuHeldOnce, NotFull, Emptied, NoStrandedBatch, MuFree, vars, readerVars
  <2> QED
    BY <1>4, <2>1, <2>2, <2>3, LinesFrame DEF CoreInv, vars, readerVars, statVars, chanVars
<1> QED
  BY <1>3, <1>4, ConsumeStep DEF Next, Terminated

\* CoreInv holds in every state of every behaviour.
THEOREM CoreInvariance == Safety => []CoreInv
<1> QED
  BY InitCoreInv, NextCoreInv, PTL DEF Safety

\* Type correctness: in particular no batch ever outgrows BatchSize, and the
\* channel never holds more than BackBuff batches.
THEOREM TypeCorrect == Safety => []TypeOK
<1>1. CoreInv => TypeOK
  BY DEF CoreInv
<1> QED
  BY <1>1, CoreInvariance, PTL

\* The metrics of a reader always add up to the lines it has read.
THEOREM Accounting == Safety => []LinesAccounted
<1>1. CoreInv => LinesAccounted
  BY DEF CoreInv
<1> QED
  BY <1>1, CoreInvariance, PTL

\* Each line is sent or dropped once, in the order of reading and with no gap,
\* whichever goroutine does it; without -drop none is dropped.
THEOREM SettlesOnce == Safety => []SettledOnce
<1>1. CoreInv => SettledOnce
  BY DEF CoreInv
<1> QED
  BY <1>1, CoreInvariance, PTL

\* A batch with lines in it always has a timer, a tick or the expirer to
\* deliver it.
THEOREM NeverStranded == Safety => []NoStrandedBatch
<1>1. CoreInv => NoStrandedBatch
  BY DEF CoreInv
<1> QED
  BY <1>1, CoreInvariance, PTL

\* When ReadLines returns all its lines are settled and the expirer cannot send.
LEMMA NothingLeft == CoreInv => NothingLeftBehind
<1> SUFFICES ASSUME CoreInv, NEW r \in Readers, pc[r]["reader"] \in {"close", "done"}
             PROVE  /\ LinesOf(r, read[r]) \subseteq enqueued \cup dropped
                    /\ b[r] = <<>>
                    /\ pc[r]["expirer"] \notin Delivering
  BY DEF NothingLeftBehind
<1>1. b[r] = <<>>
  BY DEF CoreInv, Emptied
<1>2. MuFree(r)
  BY <1>1 DEF CoreInv, MuHeldOnce
<1>3. LastSettled(r) = read[r]
  <2>1. read[r] \in Nat /\ Len(b[r]) = 0
    BY <1>1, ReaderAssumption DEF CoreInv, TypeOK
  <2>2. LastAdded(r) = read[r]
    BY <2>1 DEF LastAdded, Pending
  <2> QED
    BY <2>1, <2>2 DEF LastSettled
<1>4. LinesOf(r, read[r]) \subseteq enqueued \cup dropped
  BY <1>3 DEF CoreInv, SettledOnce
<1> QED
  BY <1>1, <1>2, <1>4 DEF MuFree, Who

\* When ReadLines returns all its lines are settled and the expirer cannot send:
\* closing the channel after it is safe.
THEOREM LeavesNothing == Safety => []NothingLeftBehind
<1> QED
  BY NothingLeft, CoreInvariance, PTL

-----------------------------------------------------------------------------
(***************************************************************************)
(* The order of what waits in the channel, and the counter of dropped      *)
(* lines.  Both rest on CoreInv.                                           *)
(***************************************************************************)
\* QueueInOrder without its last part, about a sequence of batches.
Ordered(q) ==
  \A i \in DOMAIN q :
    /\ q[i] # <<>>
    /\ \A j, k \in DOMAIN q[i] :
         j < k => q[i][j][1] = q[i][k][1] /\ Before(q[i][j], q[i][k])
    /\ \A j \in DOMAIN q : i < j =>
         \A l \in Lines(q[i]), m \in Lines(q[j]) : Before(l, m)

\* Its last part: what is in b is behind what waits in the channel.
Behind ==
  \A i \in DOMAIN batches, r \in Readers : ~Sent(r) =>
    \A l \in Lines(batches[i]), m \in Lines(b[r]) : Before(l, m)

-----------------------------------------------------------------------------
\* The two parts make up QueueInOrder.
LEMMA QueueParts == QueueInOrder <=> Ordered(batches) /\ Behind
BY DEF QueueInOrder, Ordered, Behind

\* Lines still in b are numbered above every line settled, hence above those in
\* the channel.
LEMMA BehindQueue == CoreInv /\ QueuedSent => Behind
<1> SUFFICES ASSUME CoreInv, QueuedSent,
                    NEW i \in DOMAIN batches, NEW r \in Readers, ~Sent(r),
                    NEW l \in Lines(batches[i]), NEW m \in Lines(b[r]), l[1] = m[1]
             PROVE  l[2] < m[2]
  BY DEF Behind, Before
<1>1. /\ LastAdded(r) \in Int
      /\ Len(b[r]) \in Nat
      /\ m \in {r} \X ((LastAdded(r) - Len(b[r]) + 1)..LastAdded(r))
  BY BatchLines
<1>2. LastSettled(r) = LastAdded(r) - Len(b[r])
  BY DEF LastSettled
<1>3. PICK q \in Readers : l \in LinesOf(q, LastSettled(q))
  BY DEF QueuedSent, CoreInv, SettledOnce
<1>4. q = r
  BY <1>1, <1>3 DEF LinesOf
<1>5. l[2] \in 1..LastSettled(r)
  BY <1>3, <1>4 DEF LinesOf
<1> QED
  BY <1>1, <1>2, <1>5

\* The same in the state after a step.
LEMMA BehindQueueNext == CoreInv' /\ QueuedSent' => Behind'
BY BehindQueue, PTL

\* A batch in hand is in the order of reading.
LEMMA BatchInOrder ==
  ASSUME CoreInv, NEW r \in Readers, NEW j \in DOMAIN b[r], NEW k \in DOMAIN b[r], j < k
  PROVE  b[r][j][1] = b[r][k][1] /\ Before(b[r][j], b[r][k])
<1>1. LastAdded(r) \in Int /\ Len(b[r]) \in Nat /\ DOMAIN b[r] = 1..Len(b[r])
  BY BatchLines DEF CoreInv, TypeOK
<1>2. /\ b[r][j] = <<r, LastAdded(r) - Len(b[r]) + j>>
      /\ b[r][k] = <<r, LastAdded(r) - Len(b[r]) + k>>
  BY <1>1 DEF CoreInv, Contiguous
<1> QED
  BY <1>1, <1>2 DEF Before

\* Enqueue puts a batch behind all that wait.
LEMMA EnqueueOrder ==
  ASSUME CoreInv, CoreInv', QueuedSent, QueueInOrder,
         NEW r \in Readers, NEW w \in Who, Enqueue(r, w)
  PROVE  QueuedSent' /\ QueueInOrder'
<1>1. /\ pc[r][w] = "send"
      /\ batches' = Append(batches, b[r])
      /\ enqueued' = enqueued \cup Lines(b[r])
  BY DEF Enqueue
<1>2. /\ batches \in Seq(Seq(Line)) /\ b[r] \in Seq(Line)
      /\ Len(batches) \in Nat
      /\ DOMAIN batches = 1..Len(batches)
      /\ DOMAIN batches' = 1..(Len(batches) + 1)
      /\ \A i \in 1..Len(batches) : batches'[i] = batches[i]
      /\ batches'[Len(batches) + 1] = b[r]
  BY <1>1 DEF CoreInv, TypeOK
<1>3. QueuedSent'
  BY <1>1, <1>2 DEF QueuedSent
<1>4. ~Sent(r) /\ b[r] # <<>>
  BY <1>1, SettleBatch DEF CoreInv, MuHeldOnce, MuFree, Delivering
<1>5. Ordered(batches')
  <2>1. Ordered(batches) /\ Behind
    BY QueueParts
  <2> SUFFICES ASSUME NEW i \in DOMAIN batches'
               PROVE  /\ batches'[i] # <<>>
                      /\ \A j, k \in DOMAIN batches'[i] :
                           j < k => /\ batches'[i][j][1] = batches'[i][k][1]
                                    /\ Before(batches'[i][j], batches'[i][k])
                      /\ \A j \in DOMAIN batches' : i < j =>
                           \A l \in Lines(batches'[i]), m \in Lines(batches'[j]) : Before(l, m)
    BY DEF Ordered
  <2>2. CASE i \in 1..Len(batches)
    <3>1. \A j \in 1..Len(batches) : i < j =>
            \A l \in Lines(batches'[i]), m \in Lines(batches'[j]) : Before(l, m)
      BY <1>2, <2>1, <2>2 DEF Ordered
    <3>2. \A l \in Lines(batches'[i]), m \in Lines(batches'[Len(batches) + 1]) : Before(l, m)
      BY <1>2, <1>4, <2>1, <2>2 DEF Behind
    <3>3. /\ batches'[i] # <<>>
          /\ \A j, k \in DOMAIN batches'[i] :
               j < k => /\ batches'[i][j][1] = batches'[i][k][1]
                        /\ Before(batches'[i][j], batches'[i][k])
      BY <1>2, <2>1, <2>2 DEF Ordered
    <3>4. \A j \in DOMAIN batches' : j \in 1..Len(batches) \/ j = Len(batches) + 1
      BY <1>2
    <3> QED
      BY <3>1, <3>2, <3>3, <3>4
  <2>3. CASE i = Len(batches) + 1
    BY <1>2, <1>4, <2>3, BatchInOrder
  <2> QED
    BY <1>2, <2>2, <2>3
<1>6. QueueInOrder'
  <2>1. Behind'
    BY <1>3, BehindQueueNext
  <2> QED
    BY <1>5, <2>1 DEF QueueInOrder, Ordered, Behind
<1> QED
  BY <1>3, <1>6

\* Consume takes the first.
LEMMA ConsumeOrder ==
  ASSUME CoreInv, CoreInv', QueuedSent, QueueInOrder, Consume
  PROVE  QueuedSent' /\ QueueInOrder'
<1>1. batches # <<>> /\ batches' = Tail(batches) /\ enqueued' = enqueued
  BY DEF Consume
<1>2. /\ Len(batches) \in Nat
      /\ DOMAIN batches = 1..Len(batches)
      /\ DOMAIN batches' = 1..(Len(batches) - 1)
      /\ \A i \in DOMAIN batches' : i + 1 \in DOMAIN batches /\ batches'[i] = batches[i + 1]
  BY <1>1 DEF CoreInv, TypeOK
<1>3. QueuedSent'
  BY <1>1, <1>2 DEF QueuedSent
<1>4. Ordered(batches')
  <2>1. Ordered(batches)
    BY QueueParts
  <2> SUFFICES ASSUME NEW i \in DOMAIN batches'
               PROVE  /\ batches'[i] # <<>>
                      /\ \A j, k \in DOMAIN batches'[i] :
                           j < k => /\ batches'[i][j][1] = batches'[i][k][1]
                                    /\ Before(batches'[i][j], batches'[i][k])
                      /\ \A j \in DOMAIN batches' : i < j =>
                           \A l \in Lines(batches'[i]), m \in Lines(batches'[j]) : Before(l, m)
    BY DEF Ordered
  <2>2. i + 1 \in DOMAIN batches /\ batches'[i] = batches[i + 1]
    BY <1>2
  <2>3. \A j \in DOMAIN batches' : i < j => i + 1 < j + 1
    BY <1>2
  <2> QED
    BY <1>2, <2>1, <2>2, <2>3 DEF Ordered
<1>5. Behind'
  BY <1>3, BehindQueueNext
<1> QED
  BY <1>3, <1>4, <1>5 DEF QueueInOrder, Ordered, Behind

\* Every other step leaves the channel alone.
LEMMA QueueKept ==
  ASSUME CoreInv', QueuedSent, QueueInOrder, UNCHANGED <<batches, enqueued>>
  PROVE  QueuedSent' /\ QueueInOrder'
<1>1. QueuedSent'
  BY DEF QueuedSent
<1>2. Behind'
  BY <1>1, BehindQueueNext
<1> QED
  BY <1>1, <1>2 DEF QueueInOrder, Behind

-----------------------------------------------------------------------------
(***************************************************************************)
(* The counter of dropped lines                                            *)
(***************************************************************************)
\* A goroutine of the reader has dropped its batch and not counted it yet.
Full(r) == \E w \in Who : pc[r][w] = "full"

\* Disjoint finite sets add up.
LEMMA DisjointUnion ==
  ASSUME NEW S, NEW T, IsFiniteSet(S), IsFiniteSet(T), S \cap T = {}
  PROVE  /\ IsFiniteSet(S \cup T)
         /\ Cardinality(S \cup T) = Cardinality(S) + Cardinality(T)
<1>1. /\ IsFiniteSet(S \cup T)
      /\ Cardinality(S \cup T) = Cardinality(S) + Cardinality(T) - Cardinality(S \cap T)
  BY FS_Union
<1>2. Cardinality(S) \in Nat /\ Cardinality(T) \in Nat /\ Cardinality(S \cap T) = 0
  BY FS_EmptySet, FS_CardinalityType
<1> QED
  BY <1>1, <1>2

\* A batch has as many lines as it is long.
LEMMA BatchCount ==
  ASSUME CoreInv, NEW r \in Readers
  PROVE  IsFiniteSet(Lines(b[r])) /\ Cardinality(Lines(b[r])) = Len(b[r])
<1>1. PICK lo \in Int, hi \in Int :
        /\ lo = LastAdded(r) - Len(b[r]) + 1 /\ hi = LastAdded(r)
        /\ Lines(b[r]) = {r} \X (lo..hi)
        /\ Len(b[r]) \in Nat
  BY BatchLines
<1>2. IsFiniteSet(lo..hi) /\ Cardinality(lo..hi) = IF lo > hi THEN 0 ELSE hi - lo + 1
  BY FS_Interval
<1>3. Cardinality(lo..hi) = Len(b[r])
  BY <1>1, <1>2
<1>4. IsFiniteSet({r}) /\ Cardinality({r}) = 1
  BY FS_Singleton
<1>5. /\ IsFiniteSet({r} \X (lo..hi))
      /\ Cardinality({r} \X (lo..hi)) = Cardinality({r}) * Cardinality(lo..hi)
  BY <1>2, <1>4, FS_Product, Zenon
<1> QED
  BY <1>1, <1>3, <1>4, <1>5

\* The counter's invariant survives a step that neither drops nor counts.
LEMMA DropsKept ==
  ASSUME UncountedDropped, DropsReported, UNCHANGED <<drops, dropped>>,
         \A q \in Readers : (Full(q)' <=> Full(q)) /\ (Full(q) => b'[q] = b[q])
  PROVE  UncountedDropped' /\ DropsReported'
<1>1. Uncounted' = Uncounted
  <2>1. \A l : l \in Uncounted <=> \E q \in Readers : Full(q) /\ l \in Lines(b[q])
    BY DEF Uncounted, Full
  <2>2. \A l : l \in Uncounted' <=> \E q \in Readers : Full(q)' /\ l \in Lines(b'[q])
    BY DEF Uncounted, Full
  <2> QED
    BY <2>1, <2>2
<1> QED
  BY <1>1 DEF UncountedDropped, DropsReported

\* DropBatch: what is dropped now was not dropped before.
LEMMA DropBatchCount ==
  ASSUME CoreInv, UncountedDropped, DropsReported,
         NEW r \in Readers, NEW w \in Who, DropBatch(r, w)
  PROVE  UncountedDropped' /\ DropsReported'
<1> DEFINE new == Lines(b[r])
<1>1. /\ pc[r][w] = "send"
      /\ dropped' = dropped \cup new
      /\ pc' = [pc EXCEPT ![r][w] = "full"]
      /\ b' = b /\ drops' = drops
  BY DEF DropBatch, Goto, readerVars, statVars
<1>2. new \cap dropped = {} /\ ~Full(r)
  BY <1>1, SettleBatch DEF Sent, Full
<1>3. IsFiniteSet(new)
  BY BatchCount
<1>4. Uncounted' = Uncounted \cup new
  <2>1. Full(r)' /\ \A q \in Readers \ {r} : Full(q)' = Full(q)
    BY <1>1 DEF Full, CoreInv, TypeOK
  <2>2. \A l : l \in Uncounted <=> \E q \in Readers : Full(q) /\ l \in Lines(b[q])
    BY DEF Uncounted, Full
  <2>3. \A l : l \in Uncounted' <=> \E q \in Readers : Full(q)' /\ l \in Lines(b[q])
    BY <1>1 DEF Uncounted, Full
  <2> QED
    BY <1>2, <2>1, <2>2, <2>3
<1>5. Uncounted \subseteq dropped /\ IsFiniteSet(dropped) /\ IsFiniteSet(Uncounted)
  BY FS_Subset DEF UncountedDropped
<1> HIDE DEF new
<1>6. /\ IsFiniteSet(dropped \cup new)
      /\ Cardinality(dropped \cup new) = Cardinality(dropped) + Cardinality(new)
  BY <1>2, <1>3, <1>5, DisjointUnion
<1>7. Cardinality(Uncounted \cup new) = Cardinality(Uncounted) + Cardinality(new)
  <2>1. Uncounted \cap new = {}
    BY <1>2, <1>5
  <2> QED
    BY <1>3, <1>5, <2>1, DisjointUnion
<1>8. UncountedDropped'
  BY <1>1, <1>4, <1>5, <1>6 DEF UncountedDropped
<1>9. DropsReported'
  <2>1. drops.allTime \in Nat
    BY DEF CoreInv, TypeOK, CounterType
  <2>2. /\ Cardinality(dropped) \in Nat /\ Cardinality(new) \in Nat
        /\ Cardinality(Uncounted) \in Nat
    BY <1>3, <1>5, FS_CardinalityType
  <2>3. drops.allTime + Cardinality(Uncounted) = Cardinality(dropped)
    BY DEF DropsReported
  <2>4. drops.allTime + (Cardinality(Uncounted) + Cardinality(new))
          = Cardinality(dropped) + Cardinality(new)
    BY ONLY <2>1, <2>2, <2>3
  <2> QED
    BY <1>1, <1>4, <1>6, <1>7, <2>4 DEF DropsReported
<1> QED
  BY <1>8, <1>9

\* Settle: the lines counted now are those of the batch, and of no other.
LEMMA SettleCount ==
  ASSUME CoreInv, UncountedDropped, DropsReported,
         NEW r \in Readers, NEW w \in Who, Settle(r, w)
  PROVE  UncountedDropped' /\ DropsReported'
<1>1. /\ b' = [b EXCEPT ![r] = <<>>]
      /\ pc' = [pc EXCEPT ![r][w] = IF w = "reader" THEN after[r] ELSE "wait"]
      /\ dropped' = dropped
  BY DEF Settle, Goto, chanVars
<1>2. \A q \in Readers \ {r} : Full(q)' = Full(q) /\ b'[q] = b[q]
  BY <1>1 DEF Full, CoreInv, TypeOK
<1>3. CASE pc[r][w] = "sent"
  <2>1. ~Full(r)
    BY <1>3 DEF Full, CoreInv, MuHeldOnce, Delivering, Who
  <2>2. ~Full(r)'
    BY <1>1, <2>1 DEF Full, CoreInv, TypeOK, Who
  <2>3. drops' = drops
    BY <1>3 DEF Settle
  <2> QED
    BY <1>1, <1>2, <2>1, <2>2, <2>3, DropsKept
<1>4. CASE pc[r][w] = "full"
  <2> DEFINE old == Lines(b[r])
  <2>1. Full(r) /\ ~Full(r)'
    BY <1>1, <1>4 DEF Full, CoreInv, TypeOK, MuHeldOnce, Delivering, Who
  <2>2. drops' = Add(drops, Len(b[r]))
    BY <1>4 DEF Settle, CountDropped
  <2>3. \A l : l \in Uncounted <=> \E q \in Readers : Full(q) /\ l \in Lines(b[q])
    BY DEF Uncounted, Full
  <2>4. \A l : l \in Uncounted' <=> \E q \in Readers \ {r} : Full(q) /\ l \in Lines(b[q])
    <3>1. \A l : l \in Uncounted' <=> \E q \in Readers : Full(q)' /\ l \in Lines(b'[q])
      BY DEF Uncounted, Full
    <3> QED
      BY <1>2, <2>1, <3>1
  <2>5. Uncounted = Uncounted' \cup old
    BY <2>1, <2>3, <2>4
  <2>6. Uncounted' \cap old = {}
    <3>1. \A q \in Readers : \A l \in Lines(b[q]) : l[1] = q
      <4>1. ASSUME NEW q \in Readers, NEW l \in Lines(b[q]) PROVE l[1] = q
        <5>1. l \in {q} \X ((LastAdded(q) - Len(b[q]) + 1)..LastAdded(q))
          BY <4>1, BatchLines
        <5> QED
          BY <5>1
      <4> QED
        BY <4>1
    <3> QED
      BY <2>4, <3>1
  <2>7. IsFiniteSet(old) /\ Cardinality(old) = Len(b[r])
    BY BatchCount
  <2>8. IsFiniteSet(Uncounted')
    BY <2>5, FS_Subset DEF UncountedDropped
  <2> HIDE DEF old
  <2>9. Cardinality(Uncounted) = Cardinality(Uncounted') + Len(b[r])
    BY <2>5, <2>6, <2>7, <2>8, DisjointUnion
  <2>10. DropsReported'
    <3>1. drops.allTime \in Nat /\ drops'.allTime = drops.allTime + Len(b[r])
      BY <2>2 DEF CoreInv, TypeOK, CounterType, Add
    <3>2. Len(b[r]) \in Nat /\ Cardinality(Uncounted') \in Nat
      BY <2>7, <2>8, FS_CardinalityType
    <3>3. drops.allTime + (Cardinality(Uncounted') + Len(b[r])) = Cardinality(dropped)
      BY <2>9 DEF DropsReported
    <3>4. (drops.allTime + Len(b[r])) + Cardinality(Uncounted') = Cardinality(dropped)
      BY ONLY <3>1, <3>2, <3>3
    <3> QED
      BY <1>1, <3>1, <3>4 DEF DropsReported
  <2> QED
    BY <1>1, <2>5, <2>10 DEF UncountedDropped
<1> QED
  BY <1>3, <1>4 DEF Settle

-----------------------------------------------------------------------------
(***************************************************************************)
(* The theorems                                                            *)
(***************************************************************************)
\* The steps of a reader that are no part of deliverOrDropCurrent settle and
\* count nothing, and leave a batch that was dropped alone.
LEMMA QuietStep ==
  ASSUME CoreInv, NEW r \in Readers,
         \/ ReadBytes(r) \/ ReadErr(r) \/ AddLine(r) \/ Flush(r) \/ CloseStop(r)
         \/ Tick(r) \/ Expire(r) \/ Exit(r) \/ Fire(r) \/ CloseInput(r)
  PROVE  /\ UNCHANGED <<batches, enqueued, drops, dropped>>
         /\ \A q \in Readers : (Full(q)' <=> Full(q)) /\ (Full(q) => b'[q] = b[q])
<1> USE DEF CoreInv, TypeOK, Full, Who, Goto, readerVars, statVars, chanVars
<1>1. CASE ReadBytes(r)
  BY <1>1 DEF ReadBytes
<1>2. CASE ReadErr(r)
  BY <1>2 DEF ReadErr
<1>3. CASE AddLine(r)
  <2>1. ~Full(r)
    BY <1>3 DEF AddLine, MuFree, Delivering
  <2>2. \A q \in Readers \ {r} : pc'[q] = pc[q] /\ b'[q] = b[q]
    BY <1>3 DEF AddLine
  <2>3. ~Full(r)'
    <3>1. after[r] # "full" /\ pc[r]["expirer"] # "full"
      BY <2>1
    <3>2. \/ pc' = [pc EXCEPT ![r]["reader"] = "send"]
          \/ pc' = [pc EXCEPT ![r]["reader"] = after[r]]
      BY <1>3 DEF AddLine
    <3> QED
      BY <3>1, <3>2
  <2> QED
    BY <1>3, <2>1, <2>2, <2>3 DEF AddLine
<1>4. CASE Flush(r)
  BY <1>4 DEF Flush, FlushTo
<1>5. CASE CloseStop(r)
  BY <1>5 DEF CloseStop
<1>6. CASE Tick(r)
  BY <1>6 DEF Tick
<1>7. CASE Expire(r)
  BY <1>7 DEF Expire
<1>8. CASE Exit(r)
  BY <1>8 DEF Exit
<1>9. CASE Fire(r)
  BY <1>9 DEF Fire
<1>10. CASE CloseInput(r)
  BY <1>10 DEF CloseInput
<1> QED
  BY <1>1, <1>2, <1>3, <1>4, <1>5, <1>6, <1>7, <1>8, <1>9, <1>10

\* The initial states satisfy IInv.
LEMMA InitIInv == Init => IInv
<1> SUFFICES ASSUME Init PROVE IInv
  OBVIOUS
<1>1. CoreInv
  BY InitCoreInv
<1>2. QueuedSent /\ QueueInOrder
  BY DEF Init, QueuedSent, QueueInOrder
<1>3. Uncounted = {}
  BY DEF Init, Uncounted, Who
<1>4. UncountedDropped /\ DropsReported
  BY <1>3, FS_EmptySet DEF Init, UncountedDropped, DropsReported, NewCounter
<1> QED
  BY <1>1, <1>2, <1>4 DEF IInv

\* The steps of one reader, and the batch it delivers.
LEMMA ReaderIInv ==
  ASSUME IInv, CoreInv', NEW r \in Readers, ReaderStep(r)
  PROVE  IInv'
<1> USE DEF IInv
<1>1. ASSUME NEW w \in Who, Deliver(r, w) PROVE IInv'
  <2>1. CASE Enqueue(r, w)
    <3>1. UNCHANGED <<drops, dropped, b>> /\ \A q \in Readers : Full(q)' <=> Full(q)
      BY <2>1 DEF Enqueue, Full, Goto, readerVars, statVars, CoreInv, TypeOK
    <3> QED
      BY <2>1, <3>1, EnqueueOrder, DropsKept
  <2>2. CASE DropBatch(r, w)
    <3>1. UNCHANGED <<batches, enqueued>>
      BY <2>2 DEF DropBatch
    <3> QED
      BY <2>2, <3>1, QueueKept, DropBatchCount
  <2>3. CASE Settle(r, w)
    <3>1. UNCHANGED <<batches, enqueued>>
      BY <2>3 DEF Settle, chanVars
    <3> QED
      BY <2>3, <3>1, QueueKept, SettleCount
  <2> QED
    BY <1>1, <2>1, <2>2, <2>3 DEF Deliver
<1>2. CASE \/ ReadBytes(r) \/ ReadErr(r) \/ AddLine(r) \/ Flush(r) \/ CloseStop(r)
           \/ Tick(r) \/ Expire(r) \/ Exit(r) \/ Fire(r) \/ CloseInput(r)
  BY <1>2, QuietStep, QueueKept, DropsKept
<1> QED
  BY <1>1, <1>2 DEF ReaderStep, ExpirerRuns, Who

\* Every step keeps IInv.
LEMMA NextIInv == IInv /\ [Next]_vars => IInv'
<1> SUFFICES ASSUME IInv, [Next]_vars PROVE IInv'
  OBVIOUS
<1>1. CoreInv'
  BY NextCoreInv DEF IInv
<1>2. CASE Consume
  <2>1. UNCHANGED <<drops, dropped, b, pc>>
    BY <1>2 DEF Consume, readerVars, statVars
  <2>2. \A q \in Readers : Full(q)' <=> Full(q)
    BY <2>1 DEF Full
  <2> QED
    BY <1>1, <1>2, <2>1, <2>2, ConsumeOrder, DropsKept DEF IInv
<1>3. CASE UNCHANGED vars
  <2>1. UNCHANGED <<batches, enqueued, drops, dropped, b, pc>>
    BY <1>3 DEF vars, chanVars, statVars, readerVars
  <2>2. \A q \in Readers : Full(q)' <=> Full(q)
    BY <2>1 DEF Full
  <2> QED
    BY <1>1, <2>1, <2>2, QueueKept, DropsKept DEF IInv
<1> QED
  BY <1>1, <1>2, <1>3, ReaderIInv DEF Next, Terminated

\* IInv holds in every state of every behaviour.
THEOREM Invariance == Safety => []IInv
<1> QED
  BY InitIInv, NextIInv, PTL DEF Safety

\* What waits in the channel is in the order of reading, within a batch and
\* between batches, and ahead of what its reader is collecting.
THEOREM KeepsOrder == Safety => []QueueInOrder
<1>1. IInv => QueueInOrder
  BY DEF IInv
<1> QED
  BY <1>1, Invariance, PTL

\* The counter of drops and what is about to be added to it make up the lines
\* that were dropped: none is counted twice, none is forgotten.
THEOREM CountsDrops == Safety => []DropsReported
<1>1. IInv => DropsReported
  BY DEF IInv
<1> QED
  BY <1>1, Invariance, PTL

-----------------------------------------------------------------------------
(***************************************************************************)
(* What a system around the readers may do, and what it can rely on        *)
(***************************************************************************)
\* The counter may be reset and the channel closed from outside.
LEMMA OutsideStep ==
  ASSUME IInv,
         UNCHANGED <<pc, readerVars, linesBatched, linesDropped, batches, enqueued, dropped>>,
         drops' \in CounterType, drops'.allTime = drops.allTime, batchesClosed' \in BOOLEAN
  PROVE  IInv'
<1> USE DEF readerVars
<1>1. \A q \in Readers : Pending(q)' = Pending(q) /\ Sent(q)' = Sent(q)
  BY DEF Pending, Sent
<1>2. TypeOK'
  BY DEF IInv, CoreInv, TypeOK
<1>3. MuHeldOnce' /\ NotFull' /\ Emptied' /\ NoStrandedBatch'
  BY DEF IInv, CoreInv, MuHeldOnce, NotFull, Emptied, NoStrandedBatch, MuFree
<1>4. CoreInv'
  BY <1>1, <1>2, <1>3, LinesFrame DEF IInv, CoreInv
<1>5. QueuedSent' /\ QueueInOrder'
  BY <1>4, QueueKept DEF IInv
<1>6. UncountedDropped' /\ DropsReported'
  <2>1. Uncounted' = Uncounted
    BY DEF Uncounted
  <2> QED
    BY <2>1 DEF IInv, UncountedDropped, DropsReported
<1> QED
  BY <1>4, <1>5, <1>6 DEF IInv

\* A batch with lines is a run of consecutive lines.
LEMMA BatchIsRun ==
  ASSUME IInv, NEW r \in Readers, b[r] # <<>>
  PROVE  /\ Lines(b[r]) = {r} \X ((LastAdded(r) - Len(b[r]) + 1)..LastAdded(r))
         /\ LastAdded(r) - Len(b[r]) + 1 \in 1..MaxLines
         /\ LastAdded(r) \in 1..MaxLines
         /\ LastAdded(r) - Len(b[r]) + 1 <= LastAdded(r)
<1>1. /\ LastAdded(r) \in Int /\ Len(b[r]) \in Nat
      /\ Lines(b[r]) = {r} \X ((LastAdded(r) - Len(b[r]) + 1)..LastAdded(r))
  BY BatchLines DEF IInv
<1>2. Len(b[r]) # 0
  BY DEF IInv, CoreInv, TypeOK
<1>3. Len(b[r]) <= LastAdded(r)
  BY DEF IInv, CoreInv, Contiguous
<1>4. LastAdded(r) <= MaxLines
  <2>1. read[r] \in 0..MaxLines
    BY DEF IInv, CoreInv, TypeOK
  <2> QED
    BY <2>1, ReaderAssumption DEF LastAdded, Pending
<1> QED
  BY <1>1, <1>2, <1>3, <1>4, ReaderAssumption

\* ReadLines does not begin again once it has returned.
LEMMA DoneStays ==
  ASSUME IInv, NEW r \in Readers, ReaderStep(r), NEW q \in Readers, pc[q]["reader"] = "done"
  PROVE  pc'[q]["reader"] = "done"
<1> USE DEF Goto, statVars, chanVars, readerVars, Who
<1>1. pc \in [Readers -> [Who -> ReaderLoc \cup ExpirerLoc]]
  BY DEF IInv, CoreInv, TypeOK
<1>2. CASE \/ ReadBytes(r) \/ ReadErr(r) \/ AddLine(r) \/ Flush(r) \/ CloseStop(r)
           \/ Deliver(r, "reader")
  <2>1. pc[r]["reader"] # "done" /\ \E loc : pc' = [pc EXCEPT ![r]["reader"] = loc]
    BY <1>2 DEF ReadBytes, ReadErr, AddLine, Flush, CloseStop, Deliver, Enqueue, DropBatch, Settle
  <2>2. q # r
    BY <2>1
  <2> QED
    BY <1>1, <2>1, <2>2
<1>3. CASE ExpirerRuns(r)
  <2>1. \E loc : pc' = [pc EXCEPT ![r]["expirer"] = loc]
    BY <1>3 DEF ExpirerRuns, Tick, Expire, Exit, Deliver, Enqueue, DropBatch, Settle
  <2> QED
    BY <1>1, <2>1
<1>4. CASE Fire(r) \/ CloseInput(r)
  BY <1>4 DEF Fire, CloseInput
<1> QED
  BY <1>2, <1>3, <1>4 DEF ReaderStep

\* Only Enqueue sends, and no reader reads for another or closes the channel.
LEMMA StepFrame ==
  ASSUME IInv, NEW r \in Readers, ReaderStep(r)
  PROVE  /\ batchesClosed' = batchesClosed
         /\ \A q \in Readers \ {r} : read'[q] = read[q]
         /\ (\E w \in Who : Enqueue(r, w)) \/ UNCHANGED <<batches, enqueued>>
<1> USE DEF statVars, chanVars, readerVars, Who
<1>1. read \in [Readers -> 0..MaxLines]
  BY DEF IInv, CoreInv, TypeOK
<1>2. CASE ReadBytes(r) \/ ReadErr(r) \/ AddLine(r) \/ Flush(r) \/ CloseStop(r)
  BY <1>1, <1>2 DEF ReadBytes, ReadErr, AddLine, Flush, CloseStop
<1>3. CASE Tick(r) \/ Expire(r) \/ Exit(r) \/ Fire(r) \/ CloseInput(r)
  BY <1>3 DEF Tick, Expire, Exit, Fire, CloseInput
<1>4. ASSUME NEW w \in Who, Deliver(r, w)
      PROVE  /\ batchesClosed' = batchesClosed /\ read' = read
             /\ Enqueue(r, w) \/ UNCHANGED <<batches, enqueued>>
  BY <1>4 DEF Deliver, Enqueue, DropBatch, Settle
<1> QED
  BY <1>2, <1>3, <1>4 DEF ReaderStep, ExpirerRuns
=============================================================================
