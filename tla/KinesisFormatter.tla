-------------------------- MODULE KinesisFormatter --------------------------
(***************************************************************************)
(* kinesis_formatter.go and kinesis_types.go under retryPost: one batch    *)
(* that an outlet posts to Amazon Kinesis.  Every attempt makes a          *)
(* formatter, and every formatter starts a goroutine, the writer, that     *)
(* writes the records through a pipe into the body of the HTTP request.    *)
(* Request, in the outlet, writes the same records into memory and puts    *)
(* them through the SDK's client before it returns the HTTP request.       *)
(*                                                                         *)
(* Both read a record from the same LogplexLineFormatter, which hands out  *)
(* its bytes once: here a record is Chunks chunks.  The pipe has no        *)
(* buffer: a write waits for the transport to read the body, and nobody    *)
(* ever closes the pipe's other end.                                       *)
(*                                                                         *)
(* The records of a batch are numbered in its order, the reports of        *)
(* dropped and lost lines first.  The input format is raw or rfc5424: with *)
(* lprfc5424 AppName panics at the first line.                             *)
(***************************************************************************)
EXTENDS Naturals, Sequences

CONSTANTS
  MaxRecords,   \* bound: the records of the batch
  Chunks,       \* bound: the chunks of a record
  Shards,       \* config.KinesisShards
  MaxAttempts   \* config.MaxAttempts

ASSUME KinesisAssumption ==
  /\ MaxRecords \in Nat \ {0}
  /\ Chunks \in Nat \ {0}
  /\ Shards \in Nat
  /\ MaxAttempts \in Nat \ {0}

VARIABLES
  n,        \* the number of records of the batch
  attempt,  \* the attempts begun: the formatters made
  opc,      \* the outlet: "new", "encode", "put", "post", "over"
  entries,  \* what Request has encoded in this attempt
  left,     \* the chunks each record of each formatter still has to give
  wpc,      \* each writer: "none", "key", "data", "done"
  shard,    \* each writer's current shard, cs
  body,     \* what each writer has written
  reading,  \* the transport reads the body of the attempt
  puts      \* ghost: the entries of each PutRecords call

outletVars == <<attempt, opc, entries, puts>>
writerVars == <<wpc, shard, body>>
vars       == <<n, outletVars, left, writerVars, reading>>

Attempts == 1..MaxAttempts
Entry    == [record : 1..MaxRecords, shard : Nat, data : 0..Chunks]

Goto(loc) == opc' = loc

\* Mutant of DetermineShard: the number runs one beyond max.
DetermineShardLate(c, max) == IF max = 1 THEN 0 ELSE IF c > max THEN 1 ELSE c + 1

DetermineShard(c, max) == IF max = 1 THEN 0 ELSE IF c = max THEN 1 ELSE c + 1

\* The writer numbers its own copy of a record: the one Request sees keeps 0.
NoShard == 0

-----------------------------------------------------------------------------
Init ==
  /\ n \in 1..MaxRecords
  /\ attempt = 0
  /\ opc = "new"
  /\ entries = <<>>
  /\ left = [a \in Attempts |-> [i \in 1..n |-> Chunks]]
  /\ wpc = [a \in Attempts |-> "none"]
  /\ shard = [a \in Attempts |-> 0]
  /\ body = [a \in Attempts |-> <<>>]
  /\ reading = [a \in Attempts |-> FALSE]
  /\ puts = <<>>

\* NewKinesisFormatter, that starts the writer.
NewFormatter ==
  /\ opc = "new"
  /\ attempt' = attempt + 1
  /\ wpc' = [wpc EXCEPT ![attempt + 1] = "key"]
  /\ entries' = <<>>
  /\ Goto("encode")
  /\ UNCHANGED <<n, left, shard, body, reading, puts>>

\* Request: the next record, its partition key first.
EncodeKey ==
  /\ opc = "encode"
  /\ Len(entries) < n
  /\ entries # <<>> => left[attempt][Len(entries)] = 0
  /\ LET i == Len(entries) + 1 IN
     entries' = Append(entries, [record |-> i, shard |-> NoShard, data |-> 0])
  /\ UNCHANGED <<n, attempt, opc, left, writerVars, reading, puts>>

\* Request: the next chunk of the record.
EncodeData ==
  /\ opc = "encode"
  /\ entries # <<>>
  /\ left[attempt][Len(entries)] > 0
  /\ left' = [left EXCEPT ![attempt][Len(entries)] = @ - 1]
  /\ entries' = [entries EXCEPT ![Len(entries)].data = @ + 1]
  /\ UNCHANGED <<n, attempt, opc, writerVars, reading, puts>>

\* The attempt is over: one more after a failure, or the batch is done with.
EndAttempt ==
  \/ attempt < MaxAttempts /\ Goto("new")
  \/ Goto("over")

\* Request fails without a call: there is no HTTP request, or the record just
\* written is not valid JSON or base64.
RequestFails ==
  /\ opc = "encode"
  /\ entries # <<>> => left[attempt][Len(entries)] = 0
  /\ EndAttempt
  /\ UNCHANGED <<n, attempt, entries, left, writerVars, reading, puts>>

\* Request calls PutRecords, which may fail, whether or not it has an effect.
PutRecords ==
  /\ opc = "encode"
  /\ Len(entries) = n
  /\ left[attempt][n] = 0
  /\ puts' = Append(puts, entries)
  /\ \/ Goto("put")
     \/ EndAttempt
  /\ UNCHANGED <<n, attempt, entries, left, writerVars, reading>>

\* The client sends the request and reads its body.
Send ==
  /\ opc = "put"
  /\ reading' = [reading EXCEPT ![attempt] = TRUE]
  /\ Goto("post")
  /\ UNCHANGED <<n, attempt, entries, left, writerVars, puts>>

\* post returns, whether or not the body has been read to its end.
PostReturns ==
  /\ opc = "post"
  /\ EndAttempt
  /\ UNCHANGED <<n, attempt, entries, left, writerVars, reading, puts>>

\* The transport gives the body up, at once or some time after post's return.
StopReading(a) ==
  /\ reading[a]
  /\ reading' = [reading EXCEPT ![a] = FALSE]
  /\ UNCHANGED <<n, outletVars, left, writerVars>>

-----------------------------------------------------------------------------
(***************************************************************************)
(* The writer of attempt a                                                 *)
(***************************************************************************)
\* Mutant of Rendezvous: the pipe has a buffer.
Buffered(a) == TRUE

\* A write into the pipe returns when its bytes have been read.
Rendezvous(a) == reading[a]

WriteKey(a) ==
  /\ wpc[a] = "key"
  /\ Rendezvous(a)
  /\ LET cs == DetermineShard(shard[a], Shards) IN
     /\ shard' = [shard EXCEPT ![a] = cs]
     /\ body' = [body EXCEPT ![a] =
          Append(@, [record |-> Len(@) + 1, shard |-> cs, data |-> 0])]
  /\ wpc' = [wpc EXCEPT ![a] = "data"]
  /\ UNCHANGED <<n, outletVars, left, reading>>

\* Mutant of AfterRecord: the pipe is not closed after the last record.
AfterRecordUnclosed(i) == IF i < n THEN "key" ELSE "data"

\* The next record, or the end of the body.
AfterRecord(i) == IF i < n THEN "key" ELSE "done"

\* io.Copy: what the record has left, and the end of the record.
WriteData(a) ==
  /\ wpc[a] = "data"
  /\ Rendezvous(a)
  /\ LET i == Len(body[a]) IN
     /\ body' = [body EXCEPT ![a][i].data = left[a][i]]
     /\ left' = [left EXCEPT ![a][i] = 0]
     /\ wpc' = [wpc EXCEPT ![a] = AfterRecord(i)]
  /\ UNCHANGED <<n, outletVars, shard, reading>>

WriterStep(a) ==
  \/ WriteKey(a)
  \/ WriteData(a)

OutletStep ==
  \/ NewFormatter
  \/ EncodeKey
  \/ EncodeData
  \/ RequestFails
  \/ PutRecords
  \/ Send
  \/ PostReturns

\* The batch is over; writers that nobody reads from are stuck for good.
Terminated ==
  /\ opc = "over"
  /\ \A a \in Attempts : ~reading[a]
  /\ UNCHANGED vars

Next ==
  \/ OutletStep
  \/ \E a \in Attempts : WriterStep(a) \/ StopReading(a)
  \/ Terminated

\* Goroutines are scheduled, the SDK's call and the post end.
Fairness ==
  /\ WF_vars(OutletStep)
  /\ \A a \in Attempts : WF_vars(WriterStep(a))

Safety == Init /\ [][Next]_vars
Spec == Safety /\ Fairness

-----------------------------------------------------------------------------
(***************************************************************************)
(* Properties                                                              *)
(***************************************************************************)
\* What the variables may hold; among it, that neither side takes more from a
\* record than it has.
TypeOK ==
  /\ n \in 1..MaxRecords
  /\ attempt \in 0..MaxAttempts
  /\ opc \in {"new", "encode", "put", "post", "over"}
  /\ entries \in Seq(Entry)
  /\ left \in [Attempts -> [1..n -> 0..Chunks]]
  /\ wpc \in [Attempts -> {"none", "key", "data", "done"}]
  /\ shard \in [Attempts -> 0..(IF Shards = 0 THEN n ELSE Shards)]
  /\ body \in [Attempts -> Seq(Entry)]
  /\ reading \in [Attempts -> BOOLEAN]
  /\ puts \in Seq(Seq(Entry))

Whole(es) ==
  /\ Len(es) = n
  /\ \A i \in 1..n : es[i].record = i /\ es[i].data = Chunks

\* Every PutRecords call carries all records of the batch, in order, each with
\* all of its data, though the writer reads from the same formatters without a
\* lock: it is stuck in its first write until Request has returned.
PutsWhole == \A k \in DOMAIN puts : Whole(puts[k])

\* The records of one body use the shards in turn: any Shards records in a row
\* have different partition keys, and with one shard none has a number.
ShardsInTurn ==
  \A a \in Attempts : \A i, j \in DOMAIN body[a] :
    /\ i < j /\ j - i < Shards => body[a][i].shard # body[a][j].shard
    /\ Shards = 1 => body[a][i].shard = 0
    /\ Shards > 0 => body[a][i].shard <= Shards

\* The writer returns if the transport goes on reading: it leaks only with a
\* body that was not read to its end.
WriterEnds ==
  \A a \in Attempts : reading[a] ~> (wpc[a] = "done" \/ ~reading[a])

\* The comment of KinesisFormatter, "Kinesis formats the Data using the
\* LogplexLineFormatter": a body that was written to its end has the data of
\* every record.
BodyWhole == \A a \in Attempts : wpc[a] = "done" => Whole(body[a])

-----------------------------------------------------------------------------
(***************************************************************************)
(* The inductive invariant                                                 *)
(***************************************************************************)
\* Attempts to come have touched nothing; there is one to come at "new".
Ahead ==
  /\ opc = "new" => attempt < MaxAttempts
  /\ opc \in {"encode", "put", "post"} => attempt > 0
  /\ \A a \in Attempts : a > attempt =>
       wpc[a] = "none" /\ left[a] = [i \in 1..n |-> Chunks]

\* Until the request is sent the writer of the attempt waits in its first write.
WriterWaits ==
  /\ opc \in {"encode", "put"} => wpc[attempt] = "key" /\ ~reading[attempt]
  /\ \A a \in Attempts : wpc[a] = "none" => ~reading[a] /\ body[a] = <<>>

\* Between them Request and what is left have all of each record's data, and
\* Request goes to the next record when nothing is left of the last.
Encoding ==
  opc = "encode" =>
    /\ Len(entries) <= n
    /\ \A i \in 1..n :
         IF i \in DOMAIN entries
           THEN /\ entries[i].record = i
                /\ entries[i].data + left[attempt][i] = Chunks
                /\ i < Len(entries) => left[attempt][i] = 0
           ELSE left[attempt][i] = Chunks

\* How far a writer is.
BodyGrows ==
  \A a \in Attempts :
    /\ Len(body[a]) <= n
    /\ wpc[a] = "key" => Len(body[a]) < n
    /\ wpc[a] = "data" => body[a] # <<>>

\* A writer's shard is that of its last record; from one record to the next it
\* goes up by one, and from Shards back to 1.
ShardsCycle ==
  \A a \in Attempts :
    /\ shard[a] = IF body[a] = <<>> THEN 0 ELSE body[a][Len(body[a])].shard
    /\ Shards = 0 => shard[a] = Len(body[a])
    /\ Shards = 1 => \A i \in DOMAIN body[a] : body[a][i].shard = 0
    /\ Shards > 1 => \A i \in DOMAIN body[a] :
         /\ body[a][i].shard \in 1..Shards
         /\ \A j \in DOMAIN body[a] : i < j /\ j - i < Shards =>
              \/ body[a][j].shard = body[a][i].shard + (j - i)
              \/ body[a][j].shard + Shards = body[a][i].shard + (j - i)

\* Together these are inductive.
IInv ==
  /\ TypeOK
  /\ Ahead
  /\ WriterWaits
  /\ Encoding
  /\ BodyGrows
  /\ ShardsCycle
  /\ PutsWhole
=============================================================================
