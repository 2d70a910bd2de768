--------------------------- MODULE CloudWatchLogs ---------------------------
(***************************************************************************)
(* cloudwatchlogs_formatter.go under http_outlet.go: outlets whose batches *)
(* go to Amazon CloudWatch Logs.  All formatters of a shuttle share one    *)
(* channel of one sequence token.  Request takes the token, puts the       *)
(* events through the SDK's client, and returns an HTTP request with the   *)
(* same events that post sends as well; HandleResponse puts the next token *)
(* back, if the response to that request brings one.                       *)
(*                                                                         *)
(* Here one post of HTTPOutlet is the steps TakeToken, PutEvents and the   *)
(* exchange; all other steps are those of HTTPOutlet.  A token is a        *)
(* number, 0 being the empty token that DescribeLogStreams yields for a    *)
(* stream without one.                                                     *)
(***************************************************************************)
EXTENDS HTTPOutlet

CONSTANTS
  FirstTokens,  \* the upload tokens that DescribeLogStreams may find
  Faulty        \* whether the service may fail, refuse or withhold a token

ASSUME CloudWatchAssumption ==
  /\ FirstTokens \subseteq {0, 1}
  /\ Faulty \in BOOLEAN

VARIABLES
  tokens,   \* the channel tokens
  hand,     \* the tokens each outlet has taken and not put back
  fpc,      \* inside a post: "idle", "put" with a token, "sent" by the SDK
  issued,   \* the number of the last token the service has issued
  logged    \* ghost: the events stored through the SDK, in order

formatterVars == <<tokens, hand, fpc, issued, logged>>
cwVars == <<vars, formatterVars>>

NoToken == {}
Empty   == 0

-----------------------------------------------------------------------------
\* NewCloudWatchLogsFormatterFunc: the stream has an upload token or none.
CWInit ==
  /\ Init
  /\ issued = 1
  /\ \E first \in FirstTokens : tokens = <<first>>
  /\ hand = [o \in Outlets |-> NoToken]
  /\ fpc = [o \in Outlets |-> "idle"]
  /\ logged = <<>>

\* Mutant of RemoveToken: the token is looked at and left for the others.
PeekToken == UNCHANGED tokens

RemoveToken == tokens' = Tail(tokens)

\* Request: receive from tokens, or block.
TakeToken(o) ==
  /\ opc[o] = "post"
  /\ attempts[o] <= MaxAttempts
  /\ fpc[o] = "idle"
  /\ tokens # <<>>
  /\ hand' = [hand EXCEPT ![o] = {Head(tokens)}]
  /\ RemoveToken
  /\ fpc' = [fpc EXCEPT ![o] = "put"]
  /\ UNCHANGED <<vars, issued, logged>>

\* Mutant of EndPost: a retry goes on with the request of the last attempt.
EndPostReused(o) ==
  /\ hand' = [hand EXCEPT ![o] = NoToken]
  /\ UNCHANGED fpc

\* The post is over; what the outlet holds still is lost with its formatter.
EndPost(o) ==
  /\ hand' = [hand EXCEPT ![o] = NoToken]
  /\ fpc' = [fpc EXCEPT ![o] = "idle"]

\* Mutant of RequestFails: the token is put back for the retry.
RequestFailsReturning(o) ==
  /\ fpc[o] = "put"
  /\ hand[o] # {Empty}
  /\ Faulty
  /\ logged' \in {logged, logged \o cur[o]}
  /\ UNCHANGED copies
  /\ PostFailed(o)
  /\ EndPost(o)
  /\ tokens' = Append(tokens, CHOOSE t \in hand[o] : TRUE)
  /\ UNCHANGED issued

\* Request returns an error: the token is empty, or PutLogEvents failed,
\* whether or not the service has stored the events.
RequestFails(o) ==
  /\ fpc[o] = "put"
  /\ \/ /\ hand[o] = {Empty}
        /\ UNCHANGED logged
     \/ /\ hand[o] # {Empty}
        /\ Faulty
        /\ logged' \in {logged, logged \o cur[o]}
  /\ UNCHANGED copies
  /\ PostFailed(o)
  /\ EndPost(o)
  /\ UNCHANGED <<tokens, issued>>

\* PutLogEvents succeeds; the next token in its output is discarded.
PutEvents(o) ==
  /\ fpc[o] = "put"
  /\ hand[o] # {Empty}
  /\ logged' = logged \o cur[o]
  /\ fpc' = [fpc EXCEPT ![o] = "sent"]
  /\ UNCHANGED <<vars, tokens, hand, issued>>

\* Mutant of PutBack: the token of the SDK's output goes back as well.
PutBackTwice ==
  /\ issued' = issued + 2
  /\ tokens' = tokens \o <<issued + 1, issued + 2>>

\* HandleResponse sends the next token into the channel.
PutBack ==
  /\ Len(tokens) < 1
  /\ issued' = issued + 1
  /\ tokens' = Append(tokens, issued + 1)

\* post without an error; the response may bring no token.
ExchangeAccepted(o) ==
  /\ fpc[o] = "sent"
  /\ PostAccepted(o)
  /\ \/ PutBack
     \/ Faulty /\ UNCHANGED <<tokens, issued>>
  /\ EndPost(o)
  /\ UNCHANGED logged

\* A status of 400 or more: HandleResponse is not called.
ExchangeRefused(o) ==
  /\ fpc[o] = "sent"
  /\ Faulty
  /\ PostRefused(o)
  /\ EndPost(o)
  /\ UNCHANGED <<tokens, issued, logged>>

\* The client fails, the status is not 200, or the body cannot be decoded.
ExchangeFails(o) ==
  /\ fpc[o] = "sent"
  /\ Faulty
  /\ PostFailed(o)
  /\ EndPost(o)
  /\ UNCHANGED <<tokens, issued, logged>>

CWStep(o) ==
  \/ TakeToken(o)
  \/ RequestFails(o)
  \/ PutEvents(o)
  \/ ExchangeAccepted(o)
  \/ ExchangeRefused(o)
  \/ ExchangeFails(o)
  \/ /\ Receive(o) \/ Finish(o) \/ ReadDrops(o) \/ ReadLost(o) \/ Lose(o)
     /\ UNCHANGED formatterVars

CWNext ==
  \/ \E o \in Outlets : CWStep(o)
  \/ (ReaderFeeds \/ ReaderDrops \/ Land \/ Terminated) /\ UNCHANGED formatterVars

\* The outlets are scheduled, and the SDK's call and the post end.
CWFairness == \A o \in Outlets : WF_cwVars(CWStep(o))

CWSafety == CWInit /\ [][CWNext]_cwVars
CWSpec == CWSafety /\ CWFairness

-----------------------------------------------------------------------------
(***************************************************************************)
(* Properties                                                              *)
(***************************************************************************)
\* What the variables may hold.
CWTypeOK ==
  /\ tokens \in Seq(Nat) /\ Len(tokens) <= 1
  /\ hand \in [Outlets -> SUBSET Nat]
  /\ fpc \in [Outlets -> {"idle", "put", "sent"}]
  /\ issued \in Nat
  /\ logged \in Seq(Line)

\* The sequence token exists once: in the channel or in the hand of the one
\* outlet that is posting.  It keeps two outlets from putting events at the same
\* time, and HandleResponse from blocking on a full channel.
OneToken ==
  /\ \A o, p \in Outlets : hand[o] # NoToken /\ hand[p] # NoToken => o = p
  /\ tokens # <<>> => \A o \in Outlets : hand[o] = NoToken
  /\ \A o \in Outlets : fpc[o] # "idle" => hand[o] # NoToken

\* Once the token has gone without coming back no event is ever stored again.
TokenGone == tokens = <<>> /\ \A o \in Outlets : hand[o] = NoToken
NoTokenNoEvents == [][TokenGone => UNCHANGED <<tokens, logged>>]_cwVars

\* A post is two deliveries, through the SDK and over HTTP, and either may fail
\* after the other has succeeded, or after storing its events.  The SDK stores no
\* event twice all the same, for the retry waits for a token that is gone; it has
\* stored whatever is accepted over HTTP, and nothing that is still queued.
LoggedOnce ==
  /\ \A i, j \in DOMAIN logged : i # j => logged[i] # logged[j]
  /\ acked \subseteq Lines(logged)
  /\ Lines(logged) \cap Queued = {}

\* readme.md of CloudWatch Logs, "Each log line is a seperate event and delivered
\* in the same order received by log-shuttle": what PutLogEvents stores follows
\* the order of the input, without repetition.
LoggedInOrder == \A i, j \in DOMAIN logged : i < j => logged[i] < logged[j]
=============================================================================
