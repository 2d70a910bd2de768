------------------------ MODULE KinesisFormatterProofs ------------------------
(***************************************************************************)
(* Proofs about a batch that is posted to Kinesis, for any number of       *)
(* records, chunks, shards and attempts.                                   *)
(*                                                                         *)
(* Two arguments.  Until Request has put the records the writer of the     *)
(* same attempt waits in its first write, and writers of earlier attempts  *)
(* read from formatters of their own: nobody takes data away from Request. *)
(* And a writer's shards form a cycle: less than Shards apart, two records *)
(* cannot have the same.                                                   *)
(***************************************************************************)
EXTENDS KinesisFormatter, TLAPS

\* Unfolds the types that nearly every step needs.
LEMMA Types ==
  ASSUME IInv
  PROVE  /\ n \in Nat /\ n \in 1..MaxRecords /\ MaxRecords \in Nat
         /\ attempt \in 0..MaxAttempts /\ attempt \in Nat /\ MaxAttempts \in Nat
         /\ Attempts = 1..MaxAttempts /\ Chunks \in Nat /\ Shards \in Nat
         /\ entries \in Seq(Entry) /\ Len(entries) \in Nat /\ DOMAIN entries = 1..Len(entries)
         /\ \A a \in Attempts :
              /\ body[a] \in Seq(Entry) /\ Len(body[a]) \in Nat
              /\ DOMAIN body[a] = 1..Len(body[a])
              /\ left[a] \in [1..n -> 0..Chunks]
BY KinesisAssumption DEF IInv, TypeOK, Attempts

\* What the writers have done does not change when their variables do not.
LEMMA WritersStill ==
  ASSUME IInv, UNCHANGED <<n, body, shard>>, \A a \in Attempts : wpc'[a] \in {wpc[a], "key"},
         \A a \in Attempts : wpc'[a] # wpc[a] => body[a] = <<>>
  PROVE  BodyGrows' /\ ShardsCycle'
<1>1. \A a \in Attempts : Len(body[a]) \in Nat /\ n \in 1..MaxRecords
  BY Types
<1>2. BodyGrows'
  BY <1>1, KinesisAssumption DEF IInv, BodyGrows
<1>3. ShardsCycle'
  BY DEF IInv, ShardsCycle
<1> QED
  BY <1>2, <1>3

-----------------------------------------------------------------------------
(***************************************************************************)
(* The steps of the outlet                                                 *)
(***************************************************************************)
\* NewKinesisFormatter: a formatter with everything left, a writer at its start.
LEMMA NewFormatterStep ==
  ASSUME IInv, NewFormatter
  PROVE  IInv'
<1>1. /\ opc = "new" /\ opc' = "encode" /\ attempt' = attempt + 1 /\ entries' = <<>>
      /\ wpc' = [wpc EXCEPT ![attempt + 1] = "key"]
      /\ UNCHANGED <<n, left, shard, body, reading, puts>>
  BY DEF NewFormatter, Goto
<1>2. /\ attempt \in Nat /\ attempt + 1 \in Attempts /\ attempt < MaxAttempts
      /\ n \in 1..MaxRecords /\ MaxRecords \in Nat /\ MaxAttempts \in Nat
      /\ Attempts = 1..MaxAttempts
  <2>1. attempt < MaxAttempts
    BY <1>1 DEF IInv, Ahead
  <2> QED
    BY <2>1, Types
<1>3. /\ wpc[attempt + 1] = "none" /\ left[attempt + 1] = [i \in 1..n |-> Chunks]
      /\ body[attempt + 1] = <<>> /\ ~reading[attempt + 1]
  BY <1>2 DEF IInv, Ahead, WriterWaits
<1>4. wpc \in [Attempts -> {"none", "key", "data", "done"}]
  BY DEF IInv, TypeOK
<1>5. TypeOK'
  <2>1. attempt' \in 0..MaxAttempts /\ entries' \in Seq(Entry)
    BY <1>1, <1>2
  <2>2. wpc' \in [Attempts -> {"none", "key", "data", "done"}]
    BY <1>1, <1>4
  <2> QED
    BY <1>1, <2>1, <2>2 DEF IInv, TypeOK
<1>6. Ahead'
  BY <1>1, <1>2, <1>4 DEF IInv, Ahead
<1>7. WriterWaits'
  BY <1>1, <1>2, <1>3, <1>4 DEF IInv, WriterWaits
<1>8. Encoding'
  BY <1>1, <1>2, <1>3 DEF Encoding
<1>9. BodyGrows' /\ ShardsCycle'
  BY <1>1, <1>2, <1>3, <1>4, WritersStill
<1>10. PutsWhole'
  BY <1>1 DEF IInv, PutsWhole, Whole
<1> QED
  BY <1>5, <1>6, <1>7, <1>8, <1>9, <1>10 DEF IInv

\* Request begins a record.
LEMMA EncodeKeyStep ==
  ASSUME IInv, EncodeKey
  PROVE  IInv'
<1> DEFINE k == Len(entries) + 1
           entry == [record |-> k, shard |-> 0, data |-> 0]
<1>1. /\ opc = "encode" /\ k <= n
      /\ entries # <<>> => left[attempt][Len(entries)] = 0
      /\ entries' = Append(entries, entry)
      /\ UNCHANGED <<n, attempt, opc, left, wpc, shard, body, reading, puts>>
  BY Types DEF EncodeKey, NoShard, writerVars
<1>2. /\ entries \in Seq(Entry) /\ Len(entries) \in Nat /\ n \in 1..MaxRecords
      /\ n \in Nat /\ MaxRecords \in Nat /\ Chunks \in Nat
      /\ DOMAIN entries = 1..Len(entries)
  BY Types
<1>3. entry \in Entry
  BY <1>1, <1>2 DEF Entry
<1>4. /\ entries' \in Seq(Entry) /\ Len(entries') = k /\ DOMAIN entries' = 1..k
      /\ \A i \in 1..Len(entries) : entries'[i] = entries[i]
      /\ entries'[k] = entry
  BY <1>1, <1>2, <1>3
<1>5. TypeOK' /\ Ahead' /\ WriterWaits' /\ PutsWhole'
  BY <1>1, <1>4 DEF IInv, TypeOK, Ahead, WriterWaits, PutsWhole, Whole
<1>6. entries # <<>> => Len(entries) > 0
  BY <1>2
<1>7. ASSUME NEW i \in 1..n
      PROVE  IF i \in DOMAIN entries'
               THEN /\ entries'[i].record = i
                    /\ entries'[i].data + left[attempt][i] = Chunks
                    /\ i < Len(entries') => left[attempt][i] = 0
               ELSE left[attempt][i] = Chunks
  <2>1. IF i \in DOMAIN entries
          THEN /\ entries[i].record = i
               /\ entries[i].data + left[attempt][i] = Chunks
               /\ i < Len(entries) => left[attempt][i] = 0
          ELSE left[attempt][i] = Chunks
    BY <1>1 DEF IInv, Encoding
  <2>2. CASE i < k
    <3>1. i \in DOMAIN entries /\ entries # <<>> /\ i \in DOMAIN entries'
      BY <1>2, <1>4, <2>2
    <3> QED
      BY <1>1, <1>2, <1>4, <2>1, <2>2, <3>1
  <2>3. CASE i = k
    BY <1>2, <1>4, <2>1, <2>3
  <2>4. CASE i > k
    BY <1>2, <1>4, <2>1, <2>4
  <2> QED
    BY <1>2, <2>2, <2>3, <2>4
<1>8. Encoding'
  BY <1>1, <1>4, <1>7 DEF Encoding
<1>9. BodyGrows' /\ ShardsCycle'
  BY <1>1, WritersStill
<1> QED
  BY <1>5, <1>8, <1>9 DEF IInv

\* Request takes a chunk from the formatter of the attempt.
LEMMA EncodeDataStep ==
  ASSUME IInv, EncodeData
  PROVE  IInv'
<1> DEFINE k == Len(entries)
<1>1. /\ opc = "encode" /\ entries # <<>> /\ left[attempt][k] > 0
      /\ left' = [left EXCEPT ![attempt][k] = @ - 1]
      /\ entries' = [entries EXCEPT ![k].data = @ + 1]
      /\ UNCHANGED <<n, attempt, opc, wpc, shard, body, reading, puts>>
  BY DEF EncodeData, writerVars
<1>2. /\ entries \in Seq(Entry) /\ k \in 1..n /\ k \in DOMAIN entries
      /\ n \in 1..MaxRecords /\ n \in Nat /\ MaxRecords \in Nat /\ Chunks \in Nat
      /\ DOMAIN entries = 1..k
  BY <1>1, Types DEF IInv, Encoding
<1>3. /\ attempt \in Attempts
      /\ left \in [Attempts -> [1..n -> 0..Chunks]]
      /\ \A a \in Attempts : left[a] \in [1..n -> 0..Chunks]
  BY <1>1, Types DEF IInv, Ahead, TypeOK
<1>4. /\ left[attempt][k] \in 1..Chunks
      /\ entries[k].data + left[attempt][k] = Chunks /\ entries[k].record = k
      /\ entries[k] \in Entry
      /\ entries[k].data \in Nat /\ left[attempt][k] \in Nat
      /\ entries[k].data + 1 \in 0..Chunks
  <2>1. /\ entries[k].data + left[attempt][k] = Chunks /\ entries[k].record = k
        /\ entries[k] \in Entry /\ left[attempt][k] \in 0..Chunks
    BY <1>1, <1>2, <1>3 DEF IInv, Encoding
  <2>2. entries[k].data \in 0..Chunks
    BY <2>1 DEF Entry
  <2> QED
    BY <1>1, <1>2, <2>1, <2>2
<1>5. /\ left' \in [Attempts -> [1..n -> 0..Chunks]]
      /\ \A a \in Attempts \ {attempt} : left'[a] = left[a]
      /\ \A i \in 1..n : left'[attempt][i] = IF i = k THEN left[attempt][i] - 1 ELSE left[attempt][i]
  BY <1>1, <1>2, <1>3, <1>4
<1>6. /\ entries' \in Seq(Entry) /\ Len(entries') = k /\ DOMAIN entries' = 1..k
      /\ \A i \in 1..k : i # k => entries'[i] = entries[i]
      /\ entries'[k].record = k /\ entries'[k].data = entries[k].data + 1
  <2>1. [entries[k] EXCEPT !.data = @ + 1] \in Entry
    BY <1>2, <1>4 DEF Entry
  <2>2. entries' = [entries EXCEPT ![k] = [entries[k] EXCEPT !.data = @ + 1]]
    BY <1>1
  <2>3. /\ [entries[k] EXCEPT !.data = @ + 1].record = k
        /\ [entries[k] EXCEPT !.data = @ + 1].data = entries[k].data + 1
    BY <1>4 DEF Entry
  <2> QED
    BY <1>2, <2>1, <2>2, <2>3
<1>7. TypeOK'
  <2>1. entries' \in Seq(Entry) /\ left' \in [Attempts -> [1..n -> 0..Chunks]]
    BY <1>5, <1>6
  <2>2. UNCHANGED <<n, attempt, opc, wpc, shard, body, reading, puts>>
    BY <1>1
  <2> QED
    BY <2>1, <2>2 DEF IInv, TypeOK
<1>8. Ahead' /\ WriterWaits' /\ PutsWhole'
  <2>1. \A a \in Attempts : a > attempt => left'[a] = left[a]
    <3>1. attempt \in Nat
      BY Types
    <3> QED
      BY <1>5, <3>1
  <2>2. UNCHANGED <<n, attempt, opc, wpc, reading, body, puts>>
    BY <1>1
  <2>3. Ahead'
    BY <2>1, <2>2 DEF IInv, Ahead
  <2> QED
    BY <2>2, <2>3 DEF IInv, WriterWaits, PutsWhole, Whole
<1>9. Encoding'
  <2>1. ASSUME NEW i \in 1..n
        PROVE  IF i \in DOMAIN entries'
                 THEN /\ entries'[i].record = i
                      /\ entries'[i].data + left'[attempt][i] = Chunks
                      /\ i < Len(entries') => left'[attempt][i] = 0
                 ELSE left'[attempt][i] = Chunks
    <3>1. IF i \in DOMAIN entries
            THEN /\ entries[i].record = i
                 /\ entries[i].data + left[attempt][i] = Chunks
                 /\ i < Len(entries) => left[attempt][i] = 0
            ELSE left[attempt][i] = Chunks
      BY <1>1 DEF IInv, Encoding
    <3>2. CASE i = k
      <4>1. left'[attempt][k] = left[attempt][k] - 1
        BY <1>2, <1>5
      <4>2. /\ entries'[k].record = k /\ entries'[k].data = entries[k].data + 1
            /\ DOMAIN entries' = 1..k /\ Len(entries') = k
        BY <1>6
      <4>3. /\ entries[k].data \in Nat /\ left[attempt][k] \in Nat
            /\ entries[k].data + left[attempt][k] = Chunks
        BY <1>4
      <4>4. entries'[k].data + left'[attempt][k] = Chunks
        BY <4>1, <4>2, <4>3
      <4>5. k \in Nat /\ k \in 1..k
        BY <1>2
      <4> QED
        BY <3>2, <4>2, <4>4, <4>5
    <3>3. CASE i # k
      BY <1>2, <1>5, <1>6, <3>1, <3>3
    <3> QED
      BY <3>2, <3>3
  <2> QED
    BY <1>1, <1>2, <1>6, <2>1 DEF Encoding
<1>10. BodyGrows' /\ ShardsCycle'
  BY <1>1, WritersStill
<1> QED
  BY <1>7, <1>8, <1>9, <1>10 DEF IInv

\* Request puts the records: all of them, each with all of its data.
LEMMA PutRecordsStep ==
  ASSUME IInv, PutRecords
  PROVE  IInv'
<1>1. /\ opc = "encode" /\ Len(entries) = n /\ left[attempt][n] = 0
      /\ puts' = Append(puts, entries)
      /\ \/ opc' \in {"put", "over"}
         \/ opc' = "new" /\ attempt < MaxAttempts
      /\ UNCHANGED <<n, attempt, entries, left, wpc, shard, body, reading>>
  BY DEF PutRecords, EndAttempt, Goto, writerVars
<1>2. /\ n \in 1..MaxRecords /\ n \in Nat /\ Chunks \in Nat
      /\ DOMAIN entries = 1..n /\ entries \in Seq(Entry)
      /\ puts \in Seq(Seq(Entry))
  BY <1>1, Types DEF IInv, TypeOK
<1>3. Whole(entries)
  <2>1. ASSUME NEW i \in 1..n PROVE entries[i].record = i /\ entries[i].data = Chunks
    <3>1. /\ entries[i].record = i
          /\ entries[i].data + left[attempt][i] = Chunks
          /\ i < n => left[attempt][i] = 0
      BY <1>1, <1>2 DEF IInv, Encoding
    <3>2. left[attempt][i] = 0
      BY <1>1, <1>2, <3>1
    <3>3. entries[i].data \in Nat
      <4>1. entries[i] \in Entry
        BY <1>2
      <4> QED
        BY <4>1, <1>2 DEF Entry
    <3> QED
      BY <1>2, <3>1, <3>2, <3>3
  <2> QED
    BY <1>1, <2>1 DEF Whole
<1>4. /\ puts' \in Seq(Seq(Entry))
      /\ \A k \in DOMAIN puts' : puts'[k] = entries \/ (k \in DOMAIN puts /\ puts'[k] = puts[k])
  BY <1>1, <1>2
<1>5. PutsWhole'
  BY <1>1, <1>3, <1>4 DEF IInv, PutsWhole, Whole
<1>6. TypeOK'
  BY <1>1, <1>4 DEF IInv, TypeOK
<1>7. Ahead' /\ WriterWaits' /\ Encoding'
  BY <1>1 DEF IInv, Ahead, WriterWaits, Encoding
<1>8. BodyGrows' /\ ShardsCycle'
  BY <1>1, WritersStill
<1> QED
  BY <1>5, <1>6, <1>7, <1>8 DEF IInv

\* Request fails, the request is sent, the post returns, the transport gives the
\* body up.
LEMMA PostStep ==
  ASSUME IInv, RequestFails \/ Send \/ PostReturns \/ \E a \in Attempts : StopReading(a)
  PROVE  IInv'
<1>1. /\ opc' = "encode" => opc = "encode" /\ attempt' = attempt
      /\ opc' = "put" => opc = "put"
      /\ opc' = "post" => opc \in {"put", "post"}
      /\ opc' = "new" => opc = "new" \/ attempt < MaxAttempts
      /\ opc' \in {opc, "new", "post", "over"}
      /\ UNCHANGED <<n, attempt, entries, left, wpc, shard, body, puts>>
  BY DEF RequestFails, Send, PostReturns, StopReading, EndAttempt, Goto, writerVars,
     outletVars
<1>2. /\ reading' \in [Attempts -> BOOLEAN]
      /\ \A a \in Attempts : reading'[a] =>
           reading[a] \/ (a = attempt /\ opc = "put" /\ opc' = "post")
  <2>1. reading \in [Attempts -> BOOLEAN]
    BY DEF IInv, TypeOK
  <2>2. CASE Send
    BY <2>1, <2>2 DEF Send, Goto
  <2>3. CASE RequestFails \/ PostReturns
    BY <2>1, <2>3 DEF RequestFails, PostReturns
  <2>4. CASE \E a \in Attempts : StopReading(a)
    <3>1. PICK a \in Attempts : StopReading(a)
      BY <2>4
    <3>2. reading' = [reading EXCEPT ![a] = FALSE]
      BY <3>1 DEF StopReading
    <3> QED
      BY <2>1, <3>2
  <2> QED
    BY <2>2, <2>3, <2>4
<1>3. opc \in {"encode", "put", "post"} => attempt \in Attempts
  <2>1. attempt \in 0..MaxAttempts /\ MaxAttempts \in Nat /\ Attempts = 1..MaxAttempts
    BY Types
  <2>2. opc \in {"encode", "put", "post"} => attempt > 0
    BY DEF IInv, Ahead
  <2> QED
    BY <2>1, <2>2
<1>4. TypeOK'
  BY <1>1, <1>2 DEF IInv, TypeOK
<1>5. Ahead' /\ Encoding' /\ PutsWhole'
  BY <1>1 DEF IInv, Ahead, Encoding, PutsWhole, Whole
<1>6. WriterWaits'
  BY <1>1, <1>2, <1>3 DEF IInv, WriterWaits
<1>7. BodyGrows' /\ ShardsCycle'
  BY <1>1, WritersStill
<1> QED
  BY <1>4, <1>5, <1>6, <1>7 DEF IInv

-----------------------------------------------------------------------------
(***************************************************************************)
(* The steps of a writer                                                   *)
(***************************************************************************)
\* A writer that can write is not the one Request is racing with, and has been
\* started.
LEMMA WriterApart ==
  ASSUME IInv, NEW a \in Attempts, Rendezvous(a)
  PROVE  /\ a <= attempt
         /\ opc \in {"encode", "put"} => a # attempt
<1>1. reading[a] /\ wpc[a] # "none"
  BY DEF Rendezvous, IInv, WriterWaits
<1>2. attempt \in Nat /\ a \in Nat
  BY Types
<1> QED
  BY <1>1, <1>2 DEF IInv, Ahead, WriterWaits

\* The step of a writer that changes its body, its shard and what is left for it
\* keeps what is about the outlet.
LEMMA OutletStill ==
  ASSUME IInv, NEW a \in Attempts, Rendezvous(a), UNCHANGED <<n, outletVars, reading>>,
         wpc' \in [Attempts -> {"none", "key", "data", "done"}],
         wpc'[a] # "none",
         \A c \in Attempts \ {a} : wpc'[c] = wpc[c] /\ left'[c] = left[c] /\ body'[c] = body[c]
  PROVE  Ahead' /\ WriterWaits' /\ Encoding' /\ PutsWhole'
<1>1. a <= attempt /\ (opc \in {"encode", "put"} => a # attempt)
  BY WriterApart
<1>2. attempt \in Nat /\ a \in Nat /\ \A c \in Attempts : c \in Nat
  BY Types
<1>3. opc \in {"encode", "put", "post"} => attempt \in Attempts
  <2>1. attempt \in 0..MaxAttempts /\ MaxAttempts \in Nat /\ Attempts = 1..MaxAttempts
    BY Types
  <2>2. opc \in {"encode", "put", "post"} => attempt > 0
    BY DEF IInv, Ahead
  <2> QED
    BY <2>1, <2>2
<1>4. UNCHANGED <<attempt, opc, entries, puts>>
  BY DEF outletVars
<1>5. \A c \in Attempts : c > attempt => c # a
  BY <1>1, <1>2
<1>6. Ahead'
  BY <1>4, <1>5 DEF IInv, Ahead
<1>7. WriterWaits'
  BY <1>1, <1>3, <1>4 DEF IInv, WriterWaits
<1>8. Encoding' /\ PutsWhole'
  BY <1>1, <1>3, <1>4 DEF IInv, Encoding, PutsWhole, Whole
<1> QED
  BY <1>6, <1>7, <1>8

\* What DetermineShard makes of the shard of the record before.
LEMMA NextShard ==
  ASSUME Shards \in Nat, NEW c \in Nat, c <= Shards \/ Shards = 0
  PROVE  /\ DetermineShard(c, Shards) \in Nat
         /\ Shards = 1 => DetermineShard(c, Shards) = 0
         /\ Shards = 0 => DetermineShard(c, Shards) = c + 1
         /\ Shards > 1 => /\ DetermineShard(c, Shards) \in 1..Shards
                          /\ DetermineShard(c, Shards) = IF c = Shards THEN 1 ELSE c + 1
BY DEF DetermineShard

\* One record more: u is the shard of the last of m records, s that of record i.
LEMMA OneFurther ==
  ASSUME NEW N \in Nat, NEW m \in Nat, NEW i \in Nat, NEW s \in 1..N, NEW u \in 1..N,
         i <= m, (m + 1) - i < N,
         \/ i = m /\ u = s
         \/ u = s + (m - i)
         \/ u + N = s + (m - i)
  PROVE  LET next == IF u = N THEN 1 ELSE u + 1 IN
         \/ next = s + ((m + 1) - i)
         \/ next + N = s + ((m + 1) - i)
<1>1. CASE u = N
  <2>1. 1 + N = s + ((m + 1) - i)
    BY <1>1
  <2> QED
    BY <1>1, <2>1
<1>2. CASE u # N
  BY <1>2
<1> QED
  BY <1>1, <1>2

\* A writer begins a record.
LEMMA WriteKeyStep ==
  ASSUME IInv, NEW a \in Attempts, WriteKey(a)
  PROVE  IInv'
<1> DEFINE old == body[a]
           k == Len(old) + 1
           cs == DetermineShard(shard[a], Shards)
           rec == [record |-> k, shard |-> cs, data |-> 0]
<1>1. /\ wpc[a] = "key" /\ Rendezvous(a)
      /\ shard' = [shard EXCEPT ![a] = cs]
      /\ body' = [body EXCEPT ![a] = Append(old, rec)]
      /\ wpc' = [wpc EXCEPT ![a] = "data"]
      /\ UNCHANGED <<n, outletVars, left, reading>>
  BY DEF WriteKey
<1>2. /\ old \in Seq(Entry) /\ Len(old) \in Nat /\ DOMAIN old = 1..Len(old)
      /\ n \in 1..MaxRecords /\ n \in Nat /\ MaxRecords \in Nat
      /\ Shards \in Nat /\ Chunks \in Nat
  BY Types
<1>3. k <= n /\ k \in 1..n
  BY <1>1, <1>2 DEF IInv, BodyGrows
<1>4. /\ wpc \in [Attempts -> {"none", "key", "data", "done"}]
      /\ shard \in [Attempts -> 0..(IF Shards = 0 THEN n ELSE Shards)]
      /\ body \in [Attempts -> Seq(Entry)]
  BY DEF IInv, TypeOK
<1>5. shard[a] \in Nat /\ (shard[a] <= Shards \/ Shards = 0)
  BY <1>2, <1>4
<1>6. /\ shard[a] = IF old = <<>> THEN 0 ELSE old[Len(old)].shard
      /\ Shards = 0 => shard[a] = Len(old)
      /\ Shards = 1 => \A i \in DOMAIN old : old[i].shard = 0
      /\ Shards > 1 => \A i \in DOMAIN old :
           /\ old[i].shard \in 1..Shards
           /\ \A j \in DOMAIN old : i < j /\ j - i < Shards =>
                \/ old[j].shard = old[i].shard + (j - i)
                \/ old[j].shard + Shards = old[i].shard + (j - i)
  BY DEF IInv, ShardsCycle
<1>7. /\ cs \in Nat
      /\ Shards = 1 => cs = 0
      /\ Shards = 0 => cs = k
      /\ Shards > 1 => /\ cs \in 1..Shards
                       /\ cs = IF shard[a] = Shards THEN 1 ELSE shard[a] + 1
  BY <1>2, <1>5, <1>6, NextShard
<1>8. rec \in Entry
  <2>1. k \in 1..MaxRecords /\ 0 \in 0..Chunks
    BY <1>2, <1>3
  <2> QED
    BY <1>7, <2>1 DEF Entry
<1> HIDE DEF cs, rec
<1> DEFINE new == Append(old, rec)
<1>9. /\ new \in Seq(Entry) /\ Len(new) = k /\ DOMAIN new = 1..k
      /\ \A i \in 1..Len(old) : new[i] = old[i]
      /\ new[k] = rec /\ new # <<>>
  BY <1>2, <1>8
<1>10. /\ body'[a] = new /\ shard'[a] = cs /\ wpc'[a] = "data"
       /\ \A c \in Attempts \ {a} : body'[c] = body[c] /\ shard'[c] = shard[c] /\ wpc'[c] = wpc[c]
       /\ body' \in [Attempts -> Seq(Entry)]
       /\ wpc' \in [Attempts -> {"none", "key", "data", "done"}]
  BY <1>1, <1>4, <1>9
<1> HIDE DEF new
<1>11. TypeOK'
  <2>1. cs \in 0..(IF Shards = 0 THEN n ELSE Shards)
    BY <1>2, <1>3, <1>7
  <2>2. shard' \in [Attempts -> 0..(IF Shards = 0 THEN n ELSE Shards)]
    BY <1>1, <1>4, <2>1
  <2>3. UNCHANGED <<n, attempt, opc, entries, puts, left, reading>>
    BY <1>1 DEF outletVars
  <2> QED
    BY <1>10, <2>2, <2>3 DEF IInv, TypeOK
<1>12. Ahead' /\ WriterWaits' /\ Encoding' /\ PutsWhole'
  BY <1>1, <1>10, OutletStill
<1>13. BodyGrows'
  BY <1>1, <1>3, <1>9, <1>10 DEF IInv, BodyGrows
<1>14. rec.shard = cs
  BY DEF rec
<1>15. /\ shard'[a] = IF new = <<>> THEN 0 ELSE new[Len(new)].shard
       /\ Shards = 0 => shard'[a] = Len(new)
       /\ Shards = 1 => \A i \in DOMAIN new : new[i].shard = 0
  BY <1>2, <1>6, <1>7, <1>9, <1>10, <1>14
<1>16. ASSUME Shards > 1, NEW i \in DOMAIN new
       PROVE  /\ new[i].shard \in 1..Shards
              /\ \A j \in DOMAIN new : i < j /\ j - i < Shards =>
                   \/ new[j].shard = new[i].shard + (j - i)
                   \/ new[j].shard + Shards = new[i].shard + (j - i)
  <2>1. new[i].shard \in 1..Shards
    <3>1. CASE i = k
      BY <1>7, <1>9, <1>14, <1>16, <3>1
    <3>2. CASE i # k
      <4>1. i \in 1..Len(old)
        BY <1>2, <1>9, <3>2
      <4>2. old[i].shard \in 1..Shards
        BY <1>2, <1>6, <1>16, <4>1
      <4> QED
        BY <1>9, <4>1, <4>2
    <3> QED
      BY <3>1, <3>2
  <2>2. ASSUME NEW j \in DOMAIN new, i < j, j - i < Shards
        PROVE  \/ new[j].shard = new[i].shard + (j - i)
               \/ new[j].shard + Shards = new[i].shard + (j - i)
    <3>1. i \in Nat /\ j \in Nat /\ i \in 1..Len(old) /\ new[i] = old[i]
          /\ (j = k \/ j \in 1..Len(old))
      BY <1>2, <1>9, <2>2
    <3>2. CASE j \in 1..Len(old)
      BY <1>2, <1>6, <1>9, <1>16, <2>2, <3>1, <3>2
    <3>3. CASE j = k
      <4>1. old # <<>> /\ Len(old) \in DOMAIN old /\ shard[a] = old[Len(old)].shard
        BY <1>2, <1>6, <3>1
      <4>2. \/ i = Len(old) /\ shard[a] = old[i].shard
            \/ shard[a] = old[i].shard + (Len(old) - i)
            \/ shard[a] + Shards = old[i].shard + (Len(old) - i)
        <5>1. CASE i = Len(old)
          BY <4>1, <5>1
        <5>2. CASE i # Len(old)
          <6>1. i < Len(old) /\ Len(old) - i < Shards
            BY <1>2, <2>2, <3>1, <3>3, <5>2
          <6> QED
            BY <1>2, <1>6, <1>16, <3>1, <4>1, <6>1
        <5> QED
          BY <5>1, <5>2
      <4>3. /\ old[i].shard \in 1..Shards /\ shard[a] \in 1..Shards
            /\ cs = IF shard[a] = Shards THEN 1 ELSE shard[a] + 1
            /\ new[j].shard = cs /\ new[i].shard = old[i].shard
        BY <1>2, <1>6, <1>7, <1>9, <1>14, <1>16, <3>1, <3>3, <4>1
      <4>4. /\ j = Len(old) + 1 /\ Len(old) \in Nat /\ i \in Nat /\ Shards \in Nat
            /\ i <= Len(old) /\ j - i < Shards
        BY <1>2, <2>2, <3>1, <3>3
      <4>5. LET next == IF shard[a] = Shards THEN 1 ELSE shard[a] + 1 IN
            \/ next = old[i].shard + (j - i)
            \/ next + Shards = old[i].shard + (j - i)
        <5> DEFINE m == Len(old)
                   s == old[i].shard
                   u == shard[a]
        <5>1. /\ Shards \in Nat /\ m \in Nat /\ i \in Nat /\ s \in 1..Shards /\ u \in 1..Shards
              /\ i <= m /\ (m + 1) - i < Shards /\ j = m + 1
          BY <4>3, <4>4
        <5>2. \/ i = m /\ u = s
              \/ u = s + (m - i)
              \/ u + Shards = s + (m - i)
          BY <4>2
        <5> HIDE DEF m, s, u
        <5>3. LET next == IF u = Shards THEN 1 ELSE u + 1 IN
              \/ next = s + ((m + 1) - i)
              \/ next + Shards = s + ((m + 1) - i)
          BY <5>1, <5>2, OneFurther
        <5> QED
          BY <5>1, <5>3 DEF s, u
      <4> QED
        BY <4>3, <4>5
    <3> QED
      BY <3>1, <3>2, <3>3
  <2> QED
    BY <2>1, <2>2
<1>17. ASSUME NEW c \in Attempts
       PROVE  /\ shard'[c] = IF body'[c] = <<>> THEN 0 ELSE body'[c][Len(body'[c])].shard
              /\ Shards = 0 => shard'[c] = Len(body'[c])
              /\ Shards = 1 => \A i \in DOMAIN body'[c] : body'[c][i].shard = 0
              /\ Shards > 1 => \A i \in DOMAIN body'[c] :
                   /\ body'[c][i].shard \in 1..Shards
                   /\ \A j \in DOMAIN body'[c] : i < j /\ j - i < Shards =>
                        \/ body'[c][j].shard = body'[c][i].shard + (j - i)
                        \/ body'[c][j].shard + Shards = body'[c][i].shard + (j - i)
  <2>1. CASE c = a
    BY <1>10, <1>15, <1>16, <2>1
  <2>2. CASE c # a
    <3>1. body'[c] = body[c] /\ shard'[c] = shard[c]
      BY <1>10, <2>2
    <3> QED
      BY <3>1 DEF IInv, ShardsCycle
  <2> QED
    BY <2>1, <2>2
<1>18. ShardsCycle'
  BY <1>17 DEF ShardsCycle
<1> QED
  BY <1>11, <1>12, <1>13, <1>18 DEF IInv

\* A writer copies what the record has left, and goes to the next or ends.
LEMMA WriteDataStep ==
  ASSUME IInv, NEW a \in Attempts, WriteData(a)
  PROVE  IInv'
<1> DEFINE old == body[a]
           k == Len(old)
           rec == [old[k] EXCEPT !.data = left[a][k]]
           new == [old EXCEPT ![k] = rec]
<1>1. /\ wpc[a] = "data" /\ Rendezvous(a)
      /\ body' = [body EXCEPT ![a] = new]
      /\ left' = [left EXCEPT ![a][k] = 0]
      /\ wpc' = [wpc EXCEPT ![a] = IF k < n THEN "key" ELSE "done"]
      /\ UNCHANGED <<n, outletVars, shard, reading>>
  BY DEF WriteData, AfterRecord
<1>2. /\ old \in Seq(Entry) /\ k \in Nat /\ DOMAIN old = 1..k
      /\ n \in 1..MaxRecords /\ n \in Nat /\ MaxRecords \in Nat
      /\ Shards \in Nat /\ Chunks \in Nat
      /\ left[a] \in [1..n -> 0..Chunks]
  BY Types
<1>3. k \in 1..n /\ old # <<>>
  BY <1>1, <1>2 DEF IInv, BodyGrows
<1>4. /\ wpc \in [Attempts -> {"none", "key", "data", "done"}]
      /\ left \in [Attempts -> [1..n -> 0..Chunks]]
      /\ body \in [Attempts -> Seq(Entry)]
  BY DEF IInv, TypeOK
<1>5. old[k] \in Entry /\ left[a][k] \in 0..Chunks
  BY <1>2, <1>3
<1>6. rec \in Entry /\ rec.shard = old[k].shard
  BY <1>5 DEF Entry
<1> HIDE DEF rec
<1>7. /\ new \in Seq(Entry) /\ Len(new) = k /\ DOMAIN new = 1..k /\ new # <<>>
      /\ \A i \in 1..k : new[i].shard = old[i].shard
  BY <1>2, <1>3, <1>6
<1> HIDE DEF new
<1>8. /\ body'[a] = new /\ wpc'[a] = IF k < n THEN "key" ELSE "done"
      /\ \A c \in Attempts \ {a} : body'[c] = body[c] /\ left'[c] = left[c] /\ wpc'[c] = wpc[c]
      /\ body' \in [Attempts -> Seq(Entry)]
      /\ wpc' \in [Attempts -> {"none", "key", "data", "done"}]
  BY <1>1, <1>4, <1>7
<1>9. left' \in [Attempts -> [1..n -> 0..Chunks]]
  <2>1. [left[a] EXCEPT ![k] = 0] \in [1..n -> 0..Chunks]
    BY <1>2, <1>3
  <2>2. left' = [left EXCEPT ![a] = [left[a] EXCEPT ![k] = 0]]
    BY <1>1
  <2> HIDE DEF k
  <2> QED
    BY <1>4, <2>1, <2>2
<1>10. TypeOK'
  <2>1. UNCHANGED <<n, attempt, opc, entries, puts, shard, reading>>
    BY <1>1 DEF outletVars
  <2> QED
    BY <1>8, <1>9, <2>1 DEF IInv, TypeOK
<1>11. Ahead' /\ WriterWaits' /\ Encoding' /\ PutsWhole'
  BY <1>1, <1>8, OutletStill
<1>12. BodyGrows'
  BY <1>1, <1>2, <1>3, <1>7, <1>8 DEF IInv, BodyGrows
<1>13. ASSUME NEW c \in Attempts
       PROVE  /\ shard'[c] = IF body'[c] = <<>> THEN 0 ELSE body'[c][Len(body'[c])].shard
              /\ Shards = 0 => shard'[c] = Len(body'[c])
              /\ Shards = 1 => \A i \in DOMAIN body'[c] : body'[c][i].shard = 0
              /\ Shards > 1 => \A i \in DOMAIN body'[c] :
                   /\ body'[c][i].shard \in 1..Shards
                   /\ \A j \in DOMAIN body'[c] : i < j /\ j - i < Shards =>
                        \/ body'[c][j].shard = body'[c][i].shard + (j - i)
                        \/ body'[c][j].shard + Shards = body'[c][i].shard + (j - i)
  <2>1. /\ shard'[c] = shard[c] /\ DOMAIN body'[c] = DOMAIN body[c]
        /\ Len(body'[c]) = Len(body[c]) /\ (body'[c] = <<>> <=> body[c] = <<>>)
        /\ \A i \in DOMAIN body[c] : body'[c][i].shard = body[c][i].shard
    <3>1. shard'[c] = shard[c]
      BY <1>1
    <3>2. CASE c = a
      BY <1>2, <1>3, <1>7, <1>8, <3>1, <3>2
    <3>3. CASE c # a
      BY <1>8, <3>1, <3>3
    <3> QED
      BY <3>2, <3>3
  <2>2. body[c] # <<>> => Len(body[c]) \in DOMAIN body[c]
    <3>1. body[c] \in Seq(Entry)
      BY Types
    <3> QED
      BY <3>1
  <2> DEFINE u == body[c]
             v == body'[c]
             s == shard[c]
  <2>3. /\ s = IF u = <<>> THEN 0 ELSE u[Len(u)].shard
        /\ Shards = 0 => s = Len(u)
        /\ Shards = 1 => \A i \in DOMAIN u : u[i].shard = 0
        /\ Shards > 1 => \A i \in DOMAIN u :
             /\ u[i].shard \in 1..Shards
             /\ \A j \in DOMAIN u : i < j /\ j - i < Shards =>
                  \/ u[j].shard = u[i].shard + (j - i)
                  \/ u[j].shard + Shards = u[i].shard + (j - i)
    BY DEF IInv, ShardsCycle
  <2>4. /\ shard'[c] = s /\ DOMAIN v = DOMAIN u /\ Len(v) = Len(u) /\ (v = <<>> <=> u = <<>>)
        /\ \A i \in DOMAIN u : v[i].shard = u[i].shard
        /\ u # <<>> => Len(u) \in DOMAIN u
    BY <2>1, <2>2
  <2> HIDE DEF u, v, s
  <2>5. shard'[c] = IF v = <<>> THEN 0 ELSE v[Len(v)].shard
    BY ONLY <2>3, <2>4
  <2>6. Shards = 0 => shard'[c] = Len(v)
    BY ONLY <2>3, <2>4
  <2>7. Shards = 1 => \A i \in DOMAIN v : v[i].shard = 0
    BY ONLY <2>3, <2>4
  <2>8. Shards > 1 => \A i \in DOMAIN v :
          /\ v[i].shard \in 1..Shards
          /\ \A j \in DOMAIN v : i < j /\ j - i < Shards =>
               \/ v[j].shard = v[i].shard + (j - i)
               \/ v[j].shard + Shards = v[i].shard + (j - i)
    BY ONLY <2>3, <2>4
  <2> QED
    BY <2>5, <2>6, <2>7, <2>8 DEF v
<1>14. ShardsCycle'
  BY <1>13 DEF ShardsCycle
<1> QED
  BY <1>10, <1>11, <1>12, <1>14 DEF IInv

-----------------------------------------------------------------------------
(***************************************************************************)
(* The theorems                                                            *)
(***************************************************************************)
\* A batch nobody has begun to send satisfies the invariant.
LEMMA InitIInv == Init => IInv
<1> SUFFICES ASSUME Init PROVE IInv
  OBVIOUS
<1>1. /\ n \in 1..MaxRecords /\ n \in Nat /\ MaxAttempts \in Nat \ {0}
      /\ Shards \in Nat /\ Chunks \in Nat
  BY KinesisAssumption DEF Init
<1>2. TypeOK
  BY <1>1 DEF Init, TypeOK
<1>3. Ahead /\ WriterWaits /\ Encoding
  BY <1>1 DEF Init, Ahead, WriterWaits, Encoding
<1>4. BodyGrows /\ ShardsCycle
  BY <1>1 DEF Init, BodyGrows, ShardsCycle
<1>5. PutsWhole
  BY DEF Init, PutsWhole
<1> QED
  BY <1>2, <1>3, <1>4, <1>5 DEF IInv

\* Every step keeps the invariant.
LEMMA NextIInv ==
  ASSUME IInv, [Next]_vars
  PROVE  IInv'
<1>1. CASE OutletStep
  BY <1>1, NewFormatterStep, EncodeKeyStep, EncodeDataStep, PutRecordsStep, PostStep
     DEF OutletStep
<1>2. CASE \E a \in Attempts : WriterStep(a) \/ StopReading(a)
  BY <1>2, WriteKeyStep, WriteDataStep, PostStep DEF WriterStep
<1>3. CASE UNCHANGED vars
  <2>1. UNCHANGED <<n, attempt, opc, entries, left, wpc, shard, body, reading, puts>>
    BY <1>3 DEF vars, outletVars, writerVars
  <2>2. TypeOK' /\ Ahead' /\ WriterWaits'
    BY <2>1 DEF IInv, TypeOK, Ahead, WriterWaits
  <2>3. Encoding' /\ PutsWhole'
    BY <2>1 DEF IInv, Encoding, PutsWhole, Whole
  <2>4. BodyGrows' /\ ShardsCycle'
    BY <2>1, WritersStill
  <2> QED
    BY <2>2, <2>3, <2>4 DEF IInv
<1> QED
  BY <1>1, <1>2, <1>3 DEF Next, Terminated

\* The whole invariant, of NewKinesisFormatter, its writer and Request.
THEOREM Invariance == Safety => []IInv
<1>1. Init => IInv
  BY InitIInv
<1>2. IInv /\ [Next]_vars => IInv'
  BY NextIInv
<1> QED
  BY <1>1, <1>2, PTL DEF Safety

\* What the variables hold; neither Request nor a writer takes more from a
\* record than LogplexLineFormatter.Read has to give.
THEOREM TypeCorrect == Safety => []TypeOK
<1>1. IInv => TypeOK
  BY DEF IInv
<1> QED
  BY <1>1, Invariance, PTL

\* Request puts every record of the batch, in order and with all of its data,
\* whatever the writers of this and earlier attempts are doing.
THEOREM PutsAllWhole == Safety => []PutsWhole
<1>1. IInv => PutsWhole
  BY DEF IInv
<1> QED
  BY <1>1, Invariance, PTL

\* The partition keys that determineShard numbers: any Shards records in a row
\* of one body have different ones.
THEOREM ShardsAlternate == Safety => []ShardsInTurn
<1>1. IInv => ShardsInTurn
  <2> SUFFICES ASSUME IInv, NEW a \in Attempts, NEW i \in DOMAIN body[a], NEW j \in DOMAIN body[a]
               PROVE  /\ i < j /\ j - i < Shards => body[a][i].shard # body[a][j].shard
                      /\ Shards = 1 => body[a][i].shard = 0
                      /\ Shards > 0 => body[a][i].shard <= Shards
    BY DEF ShardsInTurn
  <2>1. Shards \in Nat /\ i \in Nat /\ j \in Nat
    BY Types
  <2>2. Shards = 1 => body[a][i].shard = 0
    BY DEF IInv, ShardsCycle
  <2>3. Shards > 1 => /\ body[a][i].shard \in 1..Shards
                      /\ body[a][j].shard \in 1..Shards
                      /\ i < j /\ j - i < Shards =>
                           \/ body[a][j].shard = body[a][i].shard + (j - i)
                           \/ body[a][j].shard + Shards = body[a][i].shard + (j - i)
    BY DEF IInv, ShardsCycle
  <2>4. Shards > 0 => body[a][i].shard <= Shards
    BY <2>1, <2>2, <2>3
  <2>5. ASSUME i < j, j - i < Shards
        PROVE  body[a][i].shard # body[a][j].shard
    <3> DEFINE s == body[a][i].shard
               t == body[a][j].shard
    <3>1. Shards > 1
      BY <2>1, <2>5
    <3>2. /\ s \in 1..Shards /\ t \in 1..Shards
          /\ (t = s + (j - i) \/ t + Shards = s + (j - i))
      BY <2>3, <2>5, <3>1
    <3> HIDE DEF s, t
    <3>3. s # t
      BY <2>1, <2>5, <3>2
    <3> QED
      BY <3>3 DEF s, t
  <2> QED
    BY <2>2, <2>4, <2>5
<1> QED
  BY <1>1, Invariance, PTL
=============================================================================
