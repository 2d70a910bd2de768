# log-shuttle in TLA+

log-shuttle reads lines from its standard input (or, as a library, from any
`io.ReadCloser`), collects them into batches and posts the batches over HTTP to
logplex, Amazon Kinesis or Amazon CloudWatch Logs. It may lose lines, and then it
has to count them: a batch that finds the queue full is *dropped*, a batch whose
post fails too often is *lost*, and both counts go out with a later batch.

These modules model that program from the flags to the end of the process, TLC
checks them on small instances, and TLAPS proves their safety properties, and that
the composed shuttle implements its abstract specification, for all values of the
constants. Line numbers refer to the files of the
repository.

## The system

```
  input --> LogLineReader --- Batches (channel, BackBuff) ---> HTTPOutlet --> formatter --> endpoint
            (2 goroutines,      Drops, Lost (Counters)         (NumOutlets     (one per
             timer, mu)                                         goroutines)     attempt)
                 ^                                                   ^
                 +---- Launch ------------- Shuttle ---- Land -------+
                                              ^
                       MetricsReporter <--- main
```

| Component | Source | State | Operations | Module |
|---|---|---|---|---|
| LogLineReader, Batch | `reader.go`, `batch.go` | batch under construction, `mu`, timer and its channel, `close` channel | `ReadLines`, `expireBatches`, `deliverOrDropCurrent`, `Close` | `LogLineReader` |
| Counter | `counter.go` | value since the last report, all time value | `Add`, `Read`, `AllTime`, `ReadAndReset` | `Counter` |
| HTTPOutlet | `http_outlet.go` | batch in hand, attempts, counts taken | `Outlet`, `retryPost`, `post` | `HTTPOutlet` |
| Shuttle | `shuttle.go` | readers, two wait groups, the channel | `Launch`, `CloseReaders`, `WaitForReadersToFinish`, `Land` | `Shuttle`, `LineFate` |
| CloudWatchLogsFormatter | `cloudwatchlogs_formatter.go` | channel with one sequence token, shared by all formatters | `Request`, `HandleResponse` | `CloudWatchLogs` |
| KinesisFormatter | `kinesis_formatter.go`, `kinesis_types.go` | records, pipe, writer goroutine | `NewKinesisFormatter`, `Request`, `WriteTo` | `KinesisFormatter` |
| LogplexFormatter | `logplex_formatter.go`, `formatter.go` | sub-formatters, read positions, message count | `NewLogplexBatchFormatter`, `splitLine`, `Read`, `MsgCount` | `LogplexFormatter` |
| GzipFormatter | `gzip_formatter.go` | pipe, compressing goroutine, `once` | `Read`, `writeGzip` | `GzipFormatter` |
| MetricsReporter | `metrics_reporter.go` | last counts, `doneCh` | `Emit`, `emit`, `countDifference`, `Stop` | `MetricsReporter` |
| Command | `cmd/log-shuttle/main.go` | where `main` is | `main`, `parseFlags`, `getConfig` | `Command`; the flags that a body depends on in `LogplexFormatter` |
| Config | `config.go` | the header size computed from other fields | `NewConfig`, `ComputeHeader` | `LogplexFormatter` |
| URLs, choice of the formatter | `cleanurl.go`, `determine.go` | none | `extractCredentials`, `DetermineOutputFormatter` | not modelled |
| Batcher | `batcher.go` | none of its own | `Batch`, `fillBatch` | not modelled: nothing constructs one and `NewBatcher` leaves its input channel nil |

**How they interact.** Readers and outlets share the channel `Batches` and the
counter `Drops`; outlets share `Lost`. A reader's two goroutines share the batch
and the timer under `mu`. `Land` closes the inputs, waits for `ReadLines` to
return (not for `expireBatches`), closes the channel and waits for the outlets.
An outlet makes one formatter per attempt; the HTTP transport reads it in a
goroutine of its own, with `-gzip` through a pipe that a third goroutine fills.
`main` waits for the readers before it calls `Land`, stops the reporter and
returns, which ends every goroutine there is; the reporter reads counters that the
readers go on incrementing.

**What is hard.** Two goroutines replace the same batch; the timer's tick may
arrive for a batch that is gone; a reader blocks on a full channel with `mu` held
while its expirer waits for `mu`; the channel is closed while an expirer may
still run; counts are read and reset by several outlets while others add to them;
`len(inbox)` is read without a lock and decides whether to retry; a failed post may have
stored its batch; the CloudWatch token is taken and put back in different
calls; the Kinesis records are read by two goroutines without a lock; the
compressor holds bytes back that must be out before the pipe is closed; lengths and
counts are fixed before the body they describe is read; the counts of a report are
taken one after the other. The
hazards in `PROJECT.json` name the line of each and the properties against it.

**What makes the parts correct.** Readers: each line read leaves the reader once,
in order, counted, and without waiting for another line. Outlets: each batch
ends in one way and is stored no more often than it is posted, counts are neither
lost nor repeated between outlets, and the channel is empty when they end. Shuttle: what was read before `Land` is settled when `Land`
returns, `Land` returns, and it makes no tracked reader panic. CloudWatch: one
token at most, no event twice through the SDK. Kinesis: whole records in the order of the batch. Logplex: a body
with all the text, whose frames fit their prefixes and their count, however it is
read. Gzip: everything the formatter made is sent, and neither side of the pipe
waits for ever. Reporter: the differences it logs add up to the counts. Command:
it ends, and no line read is without its fate when it does.

## The modules

### LogLineReader

A line is `<<r, n>>`, the n-th line of reader r. `pc[r]` says where the two
goroutines of `r` are. `mu` is not a variable: it is held exactly while one of
them is in `Delivering` with a non-empty batch, since every other critical section is one
step; `MuFree` is the guard of `Lock`. `deliverOrDropCurrent` is therefore several
steps: the stop of the timer belongs to its caller's step (`AddLine`, `Flush`,
`Expire`), then `Enqueue` or `DropBatch` (or, in `Shuttle`, `Panic`), then `Settle` (metrics,
`drops.Add`, new batch, `Unlock`). Between them the rest of the process runs.

`Fire` moves a running timer into its one-slot channel. `Stop` and `Reset` do not
empty that channel: `go.mod` asks for go 1.13, which selects the old timers, so a
tick outlives its batch. `ReadBytes` may return a line together with an error.

`Consume` stands for the outlets when this module is checked alone. `enqueued`
and `dropped` are ghosts.

### Counter

The operators of a mutex protected counter; every method is atomic because it
holds the mutex from beginning to end. Used by the readers and the outlets.

### HTTPOutlet

`opc[o]` walks through `Outlet` and `retryPost`: receive, `ReadAndReset` of Drops,
of Lost, the attempts, `lost.Add`. The endpoint is free: a post is accepted,
refused (a status of 400 or more, which the code treats like success) or fails,
with or without having stored the batch. `Crowded` is the comparison with
`lostMark`, evaluated on the channel as it is at that step. `ReaderFeeds`,
`ReaderDrops` and `Land` stand for the rest of the shuttle.

### Shuttle and LineFate

`Shuttle` composes `LogLineReader` and `HTTPOutlet` (two `INSTANCE`s on the
same channel and counters) and adds their life: `LoadReader`, at any time until
`Land` is called, `Launch`, which starts the outlets and the readers loaded so far,
and `Land`, one step per reader closed, per wait
and for the close of the channel. A reader loaded after `Launch` is never run
(`Runs`); `Land` closes it and does not wait for it. `Tracked` are the readers of `LoadReader`;
other readers are those whose `ReadLines` the owner runs, which the comment of
`Land` warns about. After a panic nothing moves.

`LineFate` is the abstract specification: a line is unread, held, queued, posting
and then acked, refused or lost, or it is dropped from held; lines move in runs of
one reader, are read, queued and taken in the order of the input, never go back
and end once. `Shuttle!fate` is the refinement mapping, and `ImplementsLineFate`
the property.

### CloudWatchLogs

Extends `HTTPOutlet`: a post becomes `TakeToken`, `PutEvents` (through the SDK,
inside `Request`) and the exchange, which sends the same events again and whose
response brings the next token. A token is a number; 0 is the empty token. `EndPost`
is the end of a formatter, which `retryPost` makes for every attempt: a token it
still has goes with it. `logged` are the events that the SDK stored, `copies` of
`HTTPOutlet` counts what the exchange stored.

### KinesisFormatter

One batch under `retryPost`. Every attempt has its own formatter with its own
writer goroutine; a `LogplexLineFormatter` is the number of chunks it has left.
The pipe has no buffer, so a writer moves only while the transport reads the body
(`reading`), which may stop at any time. The outlet's giving up for a deep inbox
is a free choice here. `Request` may fail between two records, where it decodes the
last one, and in `PutRecords`. The format is raw or rfc5424; `AppName` panics for lprfc5424.

### LogplexFormatter

A body is a sequence of units, each a byte of a line or report, a length prefix,
or a part of the syslog header, so that the properties can tell one byte from
another and a prefix from text. The configuration comes first: `ParseFlags`
chooses the format and the names in the header, or refuses what it is given, `ComputeHeader` the header size
that every raw frame's prefix uses. `NewFormatter` makes the list of
sub-formatters and the message count. `ReadBody(size)` is one `Read` of the
`io.MultiReader`: it takes from the first sub-formatter only, header before text,
as much as the buffer has room for, and moves on when the text is at its end. The
batch formatter that a split line becomes is flattened into the list: a
`MultiReader` in a `MultiReader` reads the same.

### GzipFormatter

Extends `LogplexFormatter` with the transport and, when `useGzip`, the writer
goroutine. `AskPipe` is a `Read` of the transport up to the pipe; `Copy` is
`io.Copy`'s read from the formatter, whose bytes the compressor holds (`held`) as
long as it likes; `CopyEnds` adds the end that gzip writes when it is closed;
`WritePipe` is a write that meets the `Read`; `ClosePipe`
follows `gw.Close`, which has written the rest. The transport may give up between
two `Read`s (not in one: nothing interrupts it there), and then nobody closes the
pipe, since `post` and `Request` wrap the body in `NopCloser`. `Writers` has one
element more than the code starts goroutines.

### MetricsReporter and Command

`MetricsReporter` is `Emit`: at a tick it takes the difference of each counter to
the last count, one counter per step, in any order, then logs the line. `count` is
the environment's. `Command` extends `Shuttle` with `main`, which may only call
what `main.go` calls, in its order, and with the reporter, whose `count` is
the sum over the readers of what `Shuttle` counts. Here the `CloseInput` of the
reader is the far end of stdin. When `main` has returned nothing moves.

## The runs

| Run | Instance | What it shows |
|---|---|---|
| `reader_drop` | 2 readers, batches of 2, channel of 1, drop, 3 lines each | the safety properties of the readers and the inductive invariant of their proofs |
| `reader_block` | 1 reader, batches of 2, channel of 2, 5 lines, block | the queue in order, within a batch and between batches, and liveness: every line is sent though the input falls silent, both goroutines return after `Close` |
| `outlet` | 2 outlets, channel of 2 (mark 1), 2 attempts, 4 batches | counts neither lost nor repeated, one outcome per batch, stored only by its posts and as often as they allow, lost lines counted once, the inductive invariant of the proofs; outlets end once the channel is closed |
| `shuttle_drop` | a tracked and an untracked reader, 2 outlets, drop, 1 line each in batches of 2 | implements `LineFate`; what was read is settled when `Land` returns; only the untracked reader can panic; the inductive invariants of both components hold in the composition |
| `shuttle_live` | 1 reader, 3 lines, 1 outlet with a retry, block | implements `LineFate`; lines are accepted in the order read; every line read is settled; `Land` returns, also with a reader loaded too late |
| `cloudwatch` | 2 outlets, faulty service | one token at most; without it nothing is stored any more; the SDK stores no event twice, whichever of the two deliveries fails, and whatever HTTP accepts |
| `kinesis` | up to 3 records of 2 chunks, 2 shards, 2 attempts | records put whole and in order, shards used in turn, the inductive invariant of the proofs; a writer that is read returns |
| `logplex` | up to 2 lines of 1 to 3 bytes, a limit of 1 or 2, headers of 1 or 2 units, buffers of 1 to 3, all formats, both reports, with and without gzip | text whole, frames fit prefixes, counted and within the limit; what is sent is what was made; the body comes to its end unless the transport gives up |
| `command` | 1 reader, 2 lines, 1 outlet, channel of 1, drop, 2 ticks | reports add up to the counts and never run ahead of the lines read; the process ends once stdin has, with every line settled |

Three runs show where the code does not do what the
repository says of it:

| Run | Divergence |
|---|---|
| `cloudwatch_order` | `readme.md` promises the order of the input; with two outlets the later batch may take the token first |
| `cloudwatch_lost_token` | outlets "will finish up their output and exit"; after one failed request the token is gone and the retry waits for ever, and `Land` with it |
| `kinesis_body` | the posted body carries empty records: `Request` has read the formatters to their end |

Seen while modelling, and not run:

- The comment of `lostMark` says that `len(inbox) > lostMark` prevents a retry; the
  code gives up at equality too, so with `BackBuff = 1` (mark 0) nothing is ever
  retried.
- `-kinesis-shards` does not spread what `PutRecords` stores:
  `kinesis_formatter.go:88` sets the shard number on the loop's copy of a record,
  which only the body's writer sees.
- `AppName` of a raw line returns the hostname: the fourth field of a header that
  begins with the length prefix. For lprfc5424 it panics. Kinesis calls it.
- With `-gzip` CloudWatch posts fail: the delegate's body is a `bytes.Reader`, so
  `http.NewRequest` has set its `ContentLength`, and `GzipFormatter` replaces the
  body only. The comment of `LogplexBatchFormatter.Request` says that it sets
  `ContentLength`; it does not, which is why gzip works there.
- `Stop` makes no last report, so what was counted after the last tick is never
  reported, and `main` does not wait for `Emit` to return.

**Bounds.** `MaxLines`, `Feed`, `MaxRecords` and `Chunks` bound the input. Batches
of 2 lines with 3 or 5 lines give full batches, partial batches, and a
batch that the expirer and `ReadLines` both want; the single line of `shuttle_drop`
is a partial batch, delivered by either. A channel of 1 is full after one
batch, so dropping happens; a channel of 2 holds batches that must be in order and
still fills, so a reader blocks, and makes `lostMark` 1, so
retries are both allowed and refused. Two outlets are the least that compete for
batches, counts and the token; two readers are the least that share the channel
and `Drops`. With one tracked reader a late-loaded and a started reader do not meet
under TLC; `LandsSettled` is proved for any number of both. Two attempts are one retry. Readers interact through the channel and
`Drops` only, and outlets are identical, so symmetry is used in runs without
liveness. In `logplex` a line of 3 under a limit of 2 leaves a shorter last
piece, and under a limit of 1 splits evenly; buffers of 1 to 3 end in the header,
at its end, in the text and at its end; two header sizes make a stale one possible;
two lines are what a message count can get wrong between them. In `command`,
`BatchSize` and `BackBuff` of 1 make two lines enough for a batch that is queued
and one that is dropped, and two ticks are two reports with counts moving between
and during them.

**Fairness.** Weak fairness of each goroutine's steps is the Go scheduler.
`Fire` is fair: a running timer expires. An outlet's post ends because the client
has `config.Timeout`. `TakeToken` is fair only as far as it is enabled: nothing
promises a token. An input owes neither a line nor its end until it is closed;
after `Close`, a read returns with an error (`ReadErr` is fair only then). This is
true of pipes and sockets, and is an assumption for `os.Stdin` when it is not
pollable; `main` calls `Land` only after stdin has ended. In `Command` the same
guard says that stdin, once ended at the far end, gives an error. The transport is
fair in that it reads on or gives up; `main` and `Land` are scheduled like any
goroutine, and the reporter needs no fairness, since nobody waits for it. Weak fairness is enough
for `mu`: the holder always releases it when the channel drains, and no liveness
property needs one of two waiting goroutines to win.

## What is proved

Every safety property and every action property of the passing runs is a theorem.
The proofs hold for all numbers of readers, outlets, lines, attempts, records,
shards and buffers, and rest on the named assumptions on constants
(`ReaderAssumption`, `OutletAssumption`, ...), which TLC evaluates in every run.
Where a theorem needs more, its row says so.

| Module | Theorem | Statement |
|---|---|---|
| `LogLineReaderProofs` | `TypeCorrect` | types; a batch never exceeds `BatchSize`, the channel never `BackBuff` |
| | `Accounting` | lines read = batched + dropped + in the batch + pending, at every step |
| | `SettlesOnce` | lines sent and dropped are disjoint and are exactly the first lines read |
| | `NeverStranded` | a batch with lines has a running timer, a tick, or the expirer coming |
| | `LeavesNothing` | when `ReadLines` returns, its lines are settled and the expirer cannot send |
| | `KeepsOrder` | along the channel each reader's lines are in the order of its input |
| | `CountsDrops` | the all time value of `Drops` is the number of lines dropped, those about to be counted aside |
| `HTTPOutletProofs` | `TypeCorrect`, `EndsOnce` | types; a batch ends in one way and is then nowhere else |
| | `StoresBounded` | a line is stored `MaxAttempts` times at most, once less if refused, at least once if accepted, not at all while queued |
| | `CountsKept` | counts of drops and losses are neither lost nor repeated (for finitely many outlets) |
| `ShuttleProofs` | `TypeCorrect`, `PanicsFromOutside` | types; only a reader that `Land` does not know of can send on the closed channel |
| | `LandsSettled` | when `Land` returns, what its readers read is settled (with at least one outlet) |
| | `AcceptsInOrder` | the endpoint accepts lines in the order read (with one outlet; with two it is false) |
| `ShuttleFateProofs` | `Implements` | the shuttle implements `LineFate` |
| `CloudWatchLogsProofs` | `CWTypeCorrect`, `CWEndsOnce` | types; a batch ends in one way here as well |
| | `OneTokenAlways`, `GoneForGood` | at most one token; once it has gone nothing is stored |
| | `LogsOnce` | the SDK stores no event twice and none that is queued, and has stored what HTTP accepted |
| `KinesisFormatterProofs` | `TypeCorrect` | types |
| | `PutsAllWhole`, `ShardsAlternate` | every `PutRecords` has all records, whole and in order; shards are used in turn |
| `GzipFormatterProofs` | `GzipTypes` | types; one writer at most |
| | `GzipSendsAll` | a request that ends by itself has sent all of the body |
| | `TextKept` | the text read is what the batch begins with, and all of it at the end |
| | `BodyIsFramed`, `CountIsFrames` | prefixes lead from frame to frame; `Logplex-Msg-Count` is their number |
| | `LinesWithinLimit` | no frame of a raw line is longer than the limit, none is empty |
| `CommandProofs` | `ReportsAddUp` | the reporter's differences add up to the counts and never run ahead of the lines read |
| | `ExitIsClean` | when the process exits every line is settled, and nothing panicked (with at least one outlet) |

`Invariance`, `CWInvariance`, `GzipInvariance` and `CommandInvariance` state the
inductive invariants. In each module there is one lemma per action, and frame lemmas for
what an action leaves alone.

**Readers.** `CoreInv` is about the two goroutines of one reader; none of its parts
is inductive alone. `SettledOnce` needs to know that the batch holds the last lines
added, in order (`Contiguous`), that one goroutine at most delivers it and that it is
not empty (`MuHeldOnce`). `Contiguous` needs that a batch is never appended to while
it is being delivered. The bound on batches needs `NotFull`: a full batch is
delivered before `mu` is released. `NeverStranded` needs that the expirer exits
only after `ReadLines` (`Emptied`), and `LeavesNothing` that a reader reaches its
end only through a delivery. `IInv` adds what readers share. A batch goes to the end
of the channel, and all that its reader sent before is earlier in the input, since
the lines sent and dropped are the first ones; so the channel stays in order. The
drops counted and those about to be counted are disjoint finite sets.

**Outlets.** A step moves lines from the channel to a hand and from there to one of the ends;
what the outlets have seen (`Seen`) grows only when a batch arrives. With `Apart` no line is in
two places, and `FeedNew` says that what arrives is new. `OutletAssumption` asks
that of the feed, and in `Shuttle` it is not assumed but follows from `SettledOnce` of the
readers. `StoresBounded` counts the posts of a batch that have ended (`Tried`): a line in hand
has been stored no more often, so there is room for the last one, and one that has
ended is stored no more. `CountersAccounted` sums over the hands of the outlets; that a sum over
a finite set moves with the one element that changes is proved by the choice of a
smallest set for which it does not.

**Shuttle.** The proofs of both components are taken through `INSTANCE`. What is
left is where they meet: a batch that arrives is new, a batch taken or counts read
disturb no reader, the two agree on what was sent, and the stages of `Land` order
the end of the readers before the close of the channel (`Stages`). The refinement
goes by the kinds of step that move lines, each a whole run of one reader
(`BatchesAreRuns`): read, sent, dropped, taken, and ended in three ways; any other step is a stutter.

**CloudWatch.** A post leaves the outlets' invariant alone or is one of their
steps; the token is in an outlet's hand exactly while that outlet is inside a post
(`HandInPost`). For the log: a batch in hand has events in it only between its two
deliveries or when the token is gone (`InLog`). After a post that failed it is gone, so
no retry gets as far as a second call; a batch from the channel has no events in the
log, since those are of lines in hand or ended.

**Kinesis.** Until `Request` has put the records, the writer of its own attempt waits
in its first write and earlier writers read formatters of their own
(`WriterWaits`), so no lock is needed. A writer's shards run in a cycle (`ShardsCycle`).

**Bodies.** What has been read and what the formatters would still give are together
one sequence, `Whole`, fixed by `NewFormatter`: `body \o Rest = Whole` is the
invariant, for any buffers. Text, frames, their number and the limit are then properties of `Whole`,
proved by induction over the formatters, the pieces of a line and the lines, and
of whatever `Whole` begins with. Frames need that the header size in the
configuration is that of the names once the formatter is made. The writer and the transport add that what
was sent and what the compressor holds are together the body.

**Command.** `main` is a client of the shuttle, so the invariants of the shuttle hold; `main` adds
that `Land` is called only after the readers have returned (`MainInStep`). The
reports add up because a report takes the difference to the last count, one count
at a time, and no counter ever falls; they do not run ahead because lines are read
before they are counted (`Accounting`).

**Induction.** The provers cannot instantiate the library's induction theorems, whose parameter is an
operator. Where data needs induction, a set takes its place: the set of the numbers,
finite sets or sequences with the property has the first one and each next one
(`GzipFormatterProofs` derives this for sequences from the smallest number outside the set),
and the library's facts about `FlattenSeq`, which are stated for operators, are proved
anew.

**Only model-checked:** liveness, which is out of the provers' reach:
`EveryLineSettled`, `ReadersFinish`, `OutletsFinish`, `EverySettled`,
`LandReturns`, `WriterEnds`, `BodyEnds` and `ProcessEnds`; and the three
divergences, which are counterexamples.

## What is not modelled

- `BackBuff = 0`, a channel without a buffer: a send is then a rendezvous with an
  outlet. `BatchSize = 0` and a `NumOutlets` of 0. `MaxAttempts = 0`, which
  `getConfig` refuses: `retryPost` would return without a post.
- A second `Launch` or `Land`.
- `MaxLineLength = 0`, with which `splitLine` would not end. Errors of `io.Copy`
  in `writeGzip`: reading a logplex body never fails. `Reset` of a line formatter,
  which nothing calls outside tests.
- `determineLogsURL`, `validateURL`, `DetermineOutputFormatter`, `cleanurl.go` and
  `setupLogging`: string matching done once, before anything runs.
- Times: the timestamps of lines, `lastRAR`, sleeps between attempts.
- Metrics other than `lines.read`, `lines.batched` and `lines.dropped`, and of a
  metric everything but its count; logging; the text of requests,
  URLs, credentials and JSON. (`NewKinesisFormatter` clears the path from which
  `Request` takes the stream name; names are not in the model.)
- The events that report drops and losses to CloudWatch.
- Vendored libraries. Channels, timers, pipes and the HTTP client are modelled by
  what the code relies on.

## Plan

Next: the pure functions that surround the core (`determine.go`, `cleanurl.go`) as
operators; the events that report drops to CloudWatch. In the proofs, the parts of
the liveness argument that are not temporal: that a goroutine which the fairness
conditions move is enabled whenever something is left to do.
