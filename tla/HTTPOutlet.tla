----------------------------- MODULE HTTPOutlet -----------------------------
(***************************************************************************)
(* http_outlet.go: the outlets of a shuttle.  Each is a goroutine that     *)
(* receives a batch from the shared channel, takes over the drop and lost  *)
(* counts that nobody has reported yet, and posts both until the post      *)
(* returns no error or it gives up, when it adds the batch to Lost.        *)
(*                                                                         *)
(* The endpoint answers as it likes.  A post whose error is nil is either  *)
(* accepted or refused (a status of 400 or more is only logged); any other *)
(* post failed, whether or not the endpoint has stored the batch.          *)
(*                                                                         *)
(* The readers are seen from here only through the channel and the counter *)
(* Drops: ReaderFeeds, ReaderDrops and Land stand for them when the module *)
(* is checked alone.  Shuttle composes the outlets with the real ones.     *)
(***************************************************************************)
EXTENDS Naturals, Sequences, FiniteSetsExt, Counter

CONSTANTS
  Outlets,      \* the goroutines of startOutlets, config.NumOutlets of them
  BackBuff,     \* config.BackBuff, batches the channel holds
  MaxAttempts,  \* config.MaxAttempts
  Line,         \* the lines that batches are made of
  Feed          \* bound: the batches that the readers send or drop, in order

Lines(s) == {s[i] : i \in DOMAIN s}

\* The readers put each line into one batch, once: see SettledOnce and
\* Contiguous of LogLineReader.
ASSUME OutletAssumption ==
  /\ BackBuff \in Nat \ {0}
  /\ MaxAttempts \in Nat \ {0}  \* getConfig refuses less than 1
  /\ Feed \in Seq(Seq(Line) \ {<<>>})
  /\ \A k, m \in DOMAIN Feed : k # m => Lines(Feed[k]) \cap Lines(Feed[m]) = {}
  /\ \A k \in DOMAIN Feed : \A i, j \in DOMAIN Feed[k] : Feed[k][i] = Feed[k][j] => i = j

VARIABLES
  opc,           \* where each outlet is
  cur,           \* the batch in hand
  attempts,      \* the loop variable of retryPost
  edata,         \* the drop and lost counts taken for the batch in hand
  batches,       \* the channel Shuttle.Batches
  batchesClosed, \* that channel has been closed
  drops,         \* the counter Shuttle.Drops
  lost,          \* the counter Shuttle.Lost
  acked,         \* ghost: the lines of accepted posts
  refused,       \* ghost: the lines of refused posts
  lostLines,     \* ghost: the lines an outlet gave up on
  copies,        \* ghost: how many times the endpoint has stored a line
  told,          \* ghost: the counts that went out in accepted posts
  forgotten,     \* ghost: the counts that were taken and not told
  fed            \* the number of batches of Feed sent or dropped so far

localVars == <<opc, cur, attempts, edata>>
chanVars  == <<batches, batchesClosed>>
ghostVars == <<acked, refused, lostLines, copies, told, forgotten>>
vars      == <<localVars, chanVars, drops, lost, ghostVars, fed>>

Counts == [drops : Nat, lost : Nat]
None   == [drops |-> 0, lost |-> 0]
Plus(c, d) == [drops |-> c.drops + d.drops, lost |-> c.lost + d.lost]

\* NewHTTPOutlet: int(float64(BackBuff) * DepthHighWatermark).
LostMark == (BackBuff * 6) \div 10

Goto(o, loc) == opc' = [opc EXCEPT ![o] = loc]

-----------------------------------------------------------------------------
Init ==
  /\ opc = [o \in Outlets |-> "recv"]
  /\ cur = [o \in Outlets |-> <<>>]
  /\ attempts = [o \in Outlets |-> 0]
  /\ edata = [o \in Outlets |-> None]
  /\ batches = <<>>
  /\ batchesClosed = FALSE
  /\ drops = NewCounter(0)
  /\ lost = NewCounter(0)
  /\ acked = {}
  /\ refused = {}
  /\ lostLines = {}
  /\ copies = [l \in Line |-> 0]
  /\ told = None
  /\ forgotten = None
  /\ fed = 0

\* Outlet: range over the inbox.
Receive(o) ==
  /\ opc[o] = "recv"
  /\ batches # <<>>
  /\ cur' = [cur EXCEPT ![o] = Head(batches)]
  /\ batches' = Tail(batches)
  /\ Goto(o, "drops")
  /\ UNCHANGED <<attempts, edata, batchesClosed, drops, lost, ghostVars, fed>>

\* Mutant of Drained: the outlet takes an empty channel for a closed one.
DrainedOnEmpty == ~batchesClosed /\ batches = <<>>

Drained == batchesClosed /\ batches = <<>>

\* The channel is closed and empty: the goroutine ends, with oWaiter.Done.
Finish(o) ==
  /\ opc[o] = "recv"
  /\ Drained
  /\ Goto(o, "done")
  /\ UNCHANGED <<cur, attempts, edata, chanVars, drops, lost, ghostVars, fed>>

-----------------------------------------------------------------------------
(***************************************************************************)
(* retryPost                                                               *)
(***************************************************************************)
ReadDrops(o) ==
  /\ opc[o] = "drops"
  /\ edata' = [edata EXCEPT ![o].drops = Read(drops)]
  /\ drops' = Reset(drops)
  /\ Goto(o, "lost")
  /\ UNCHANGED <<cur, attempts, chanVars, lost, ghostVars, fed>>

ReadLost(o) ==
  /\ opc[o] = "lost"
  /\ edata' = [edata EXCEPT ![o].lost = Read(lost)]
  /\ lost' = Reset(lost)
  /\ attempts' = [attempts EXCEPT ![o] = 1]
  /\ Goto(o, "post")
  /\ UNCHANGED <<cur, chanVars, drops, ghostVars, fed>>

\* Mutant of Return: the loop is not left, the batch is posted once more.
ReturnNot(o) == UNCHANGED localVars

\* retryPost returns to the range over the inbox.
Return(o) ==
  /\ Goto(o, "recv")
  /\ cur' = [cur EXCEPT ![o] = <<>>]
  /\ edata' = [edata EXCEPT ![o] = None]
  /\ attempts' = [attempts EXCEPT ![o] = 0]

Stored(o) == copies' = [l \in Line |-> copies[l] + IF l \in Lines(cur[o]) THEN 1 ELSE 0]

\* A status below 400, and a formatter that is content with the response.
PostAccepted(o) ==
  /\ opc[o] = "post"
  /\ attempts[o] <= MaxAttempts
  /\ acked' = acked \cup Lines(cur[o])
  /\ told' = Plus(told, edata[o])
  /\ Stored(o)
  /\ Return(o)
  /\ UNCHANGED <<chanVars, drops, lost, refused, lostLines, forgotten, fed>>

\* A status of 400 or more: logged, and no error.
PostRefused(o) ==
  /\ opc[o] = "post"
  /\ attempts[o] <= MaxAttempts
  /\ refused' = refused \cup Lines(cur[o])
  /\ forgotten' = Plus(forgotten, edata[o])
  /\ Return(o)
  /\ UNCHANGED <<chanVars, drops, lost, acked, lostLines, copies, told, fed>>

AttemptsLeft(a) == a < MaxAttempts

\* The inbox is too deep for a retry.
Crowded == ~(Len(batches) < LostMark)

\* Mutant of Retry: the attempt is not counted.
RetryUncounted(o) == UNCHANGED localVars

\* Once more round the loop, after a sleep.
Retry(o) ==
  /\ attempts' = [attempts EXCEPT ![o] = @ + 1]
  /\ UNCHANGED <<opc, cur, edata>>

\* Mutant of PostFailed: the batch goes to the back of the queue.
PostFailedRequeued(o) ==
  /\ opc[o] = "post"
  /\ attempts[o] <= MaxAttempts
  /\ Len(batches) < BackBuff
  /\ batches' = Append(batches, cur[o])
  /\ Return(o)
  /\ UNCHANGED <<batchesClosed, drops, lost, ghostVars, fed>>

\* An error: of Request, of the client (a timeout among them) or of
\* HandleResponse.  The length of the inbox is sampled now, outside any lock.
PostFailed(o) ==
  /\ opc[o] = "post"
  /\ attempts[o] <= MaxAttempts
  /\ \/ Stored(o)
     \/ UNCHANGED copies
  /\ \/ /\ AttemptsLeft(attempts[o])
        /\ ~Crowded
        /\ Retry(o)
     \/ /\ ~AttemptsLeft(attempts[o]) \/ Crowded
        /\ Goto(o, "lose")
        /\ UNCHANGED <<attempts, cur, edata>>
  /\ UNCHANGED <<chanVars, drops, lost, acked, refused, lostLines,
                 told, forgotten, fed>>

\* lost.Add: the batch is given up.
Lose(o) ==
  /\ opc[o] = "lose"
  /\ lost' = Add(lost, Len(cur[o]))
  /\ lostLines' = lostLines \cup Lines(cur[o])
  /\ forgotten' = Plus(forgotten, edata[o])
  /\ Return(o)
  /\ UNCHANGED <<chanVars, drops, acked, refused, copies, told, fed>>

OutletStep(o) ==
  \/ Receive(o)
  \/ Finish(o)
  \/ ReadDrops(o)
  \/ ReadLost(o)
  \/ PostAccepted(o)
  \/ PostRefused(o)
  \/ PostFailed(o)
  \/ Lose(o)

-----------------------------------------------------------------------------
(***************************************************************************)
(* The readers, as the outlets see them                                    *)
(***************************************************************************)
ReaderFeeds ==
  /\ ~batchesClosed
  /\ fed < Len(Feed)
  /\ Len(batches) < BackBuff
  /\ batches' = Append(batches, Feed[fed + 1])
  /\ fed' = fed + 1
  /\ UNCHANGED <<localVars, batchesClosed, drops, lost, ghostVars>>

ReaderDrops ==
  /\ ~batchesClosed
  /\ fed < Len(Feed)
  /\ Len(batches) = BackBuff
  /\ drops' = Add(drops, Len(Feed[fed + 1]))
  /\ fed' = fed + 1
  /\ UNCHANGED <<localVars, chanVars, lost, ghostVars>>

Land ==
  /\ ~batchesClosed
  /\ batchesClosed' = TRUE
  /\ UNCHANGED <<localVars, batches, drops, lost, ghostVars, fed>>

Terminated ==
  /\ \A o \in Outlets : opc[o] = "done"
  /\ UNCHANGED vars

Next ==
  \/ \E o \in Outlets : OutletStep(o)
  \/ ReaderFeeds
  \/ ReaderDrops
  \/ Land
  \/ Terminated

\* The outlets are scheduled and a post ends, config.Timeout sees to it.
Fairness == \A o \in Outlets : WF_vars(OutletStep(o))

Safety == Init /\ [][Next]_vars
Spec == Safety /\ Fairness

-----------------------------------------------------------------------------
(***************************************************************************)
(* Properties                                                              *)
(***************************************************************************)
\* What the variables may hold.
TypeOK ==
  /\ opc \in [Outlets -> {"recv", "drops", "lost", "post", "lose", "done"}]
  /\ cur \in [Outlets -> Seq(Line)]
  /\ attempts \in [Outlets -> Nat]
  /\ edata \in [Outlets -> Counts]
  /\ batches \in Seq(Seq(Line))
  /\ Len(batches) <= BackBuff
  /\ batchesClosed \in BOOLEAN
  /\ drops \in CounterType
  /\ lost \in CounterType
  /\ acked \subseteq Line
  /\ refused \subseteq Line
  /\ lostLines \subseteq Line
  /\ copies \in [Line -> 0..MaxAttempts]
  /\ told \in Counts
  /\ forgotten \in Counts
  /\ fed \in Nat

Holding == UNION {Lines(cur[o]) : o \in Outlets}
Queued == UNION {Lines(batches[i]) : i \in DOMAIN batches}

InHand(f(_)) == MapThenSumSet(f, Outlets)

\* Neither counter loses or repeats a count while several outlets take it in
\* turn and readers and outlets add to it: what was ever added is still there,
\* in the hand of one outlet, told to the endpoint, or forgotten.  Lost was
\* added the lines of the batches given up on, each once.
CountersAccounted ==
  LET dropsOf(o) == edata[o].drops
      lostOf(o) == edata[o].lost
  IN  /\ drops.allTime = drops.value + InHand(dropsOf) + told.drops + forgotten.drops
      /\ lost.allTime = lost.value + InHand(lostOf) + told.lost + forgotten.lost
      /\ lost.allTime = Cardinality(lostLines)

\* Every batch taken from the channel ends in one way: its lines are accepted,
\* refused or lost; a line that has ended is in no outlet's hand and not in the
\* channel any more, and an accepted line is one the endpoint has stored.
OneOutcome ==
  /\ acked \cap refused = {}
  /\ (acked \cup refused) \cap lostLines = {}
  /\ (Queued \cup Holding) \cap (acked \cup refused \cup lostLines) = {}
  /\ Queued \cap Holding = {}
  /\ \A l \in acked : copies[l] > 0

\* A post that failed may have stored its batch, so a retry can store it again:
\* a line is stored at most MaxAttempts times, never before its batch is taken
\* from the channel; the post that is refused after retries stores nothing more,
\* and the one that is accepted stores it.
StoredByPosts ==
  /\ \A l \in Line : copies[l] <= MaxAttempts
  /\ \A l \in Queued : copies[l] = 0
  /\ \A l \in refused : copies[l] < MaxAttempts
  /\ \A l \in acked : copies[l] > 0

\* After the channel is closed every outlet ends, whatever the endpoint does:
\* what Land waits for.
OutletsFinish == batchesClosed ~> \A o \in Outlets : opc[o] = "done"

-----------------------------------------------------------------------------
(***************************************************************************)
(* The inductive invariant                                                 *)
(***************************************************************************)
Ended == acked \cup refused \cup lostLines

\* Every line that has been sent into the channel.
Seen == Queued \cup Holding \cup Ended

\* An outlet has a batch between Receive and Return only, and posts it
\* MaxAttempts times at most.
HandsEmpty ==
  \A o \in Outlets :
    /\ opc[o] \in {"recv", "done"} => cur[o] = <<>>
    /\ opc[o] \in {"post", "lose"} => attempts[o] \in 1..MaxAttempts

\* No line is in two batches.
Apart ==
  /\ \A i, j \in DOMAIN batches : i # j => Lines(batches[i]) \cap Lines(batches[j]) = {}
  /\ \A o, p \in Outlets : o # p => Lines(cur[o]) \cap Lines(cur[p]) = {}

\* The posts of the batch in hand that have ended.
Tried(o) ==
  CASE opc[o] = "post" -> attempts[o] - 1
    [] opc[o] = "lose" -> attempts[o]
    [] OTHER -> 0

\* The endpoint stores a line only when it is posted, once for each post.
StoredWhenPosted ==
  /\ \A o \in Outlets : \A l \in Lines(cur[o]) : copies[l] <= Tried(o)
  /\ \A l \in Line : copies[l] > 0 => l \in Holding \cup Ended

\* What the readers have still to send is new to the outlets.
FeedNew == \A k \in DOMAIN Feed : k > fed => Lines(Feed[k]) \cap Seen = {}

\* Together these are inductive.
IInv ==
  /\ TypeOK
  /\ OneOutcome
  /\ HandsEmpty
  /\ Apart
  /\ StoredWhenPosted
  /\ FeedNew

\* An outlet holds counts from the moment it takes them until it returns.
CountsTaken ==
  \A o \in Outlets :
    /\ opc[o] \in {"recv", "drops", "done"} => edata[o] = None
    /\ opc[o] = "lost" => edata[o].lost = 0

\* No line is in a batch twice: what is lost is as many lines as the batch is long.
Once(s) == \A i, j \in DOMAIN s : s[i] = s[j] => i = j

OnceEach ==
  /\ \A i \in DOMAIN batches : Once(batches[i])
  /\ \A o \in Outlets : Once(cur[o])

\* Inductive together with IInv.
CountsInv ==
  /\ CountersAccounted
  /\ CountsTaken
  /\ OnceEach
  /\ IsFiniteSet(lostLines)
=============================================================================
