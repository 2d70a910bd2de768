------------------------- MODULE CloudWatchLogsProofs -------------------------
(***************************************************************************)
(* Proofs about the outlets that post to CloudWatch Logs.  A post is a     *)
(* step of HTTPOutlet or leaves it alone, so the outlets' invariant holds  *)
(* here as well; the token is in the hand of an outlet exactly while that  *)
(* outlet is inside a post, which makes OneToken inductive.                *)
(***************************************************************************)
EXTENDS CloudWatchLogs, HTTPOutletProofs, SequenceTheorems

\* An outlet has a token between TakeToken and EndPost only.
HandInPost == \A o \in Outlets : hand[o] # NoToken <=> fpc[o] # "idle"

\* Together these are inductive.
CWInv ==
  /\ IInv
  /\ CWTypeOK
  /\ OneToken
  /\ HandInPost

\* The log and the batches in hand: a batch has events in the log when it is
\* between the two deliveries, or when the token is gone; and then all of them,
\* in the first case.
InLog ==
  /\ \A o \in Outlets : fpc[o] # "idle" => opc[o] = "post"
  /\ Lines(logged) \subseteq Holding \cup Ended
  /\ \A o \in Outlets :
       Lines(cur[o]) \cap Lines(logged) # {} => fpc[o] = "sent" \/ TokenGone
  /\ \A o \in Outlets : fpc[o] = "sent" => Lines(cur[o]) \subseteq Lines(logged)
  /\ acked \subseteq Lines(logged)

\* Inductive together with CWInv.
LogInv ==
  /\ InLog
  /\ Once(logged)
  /\ OnceEach

-----------------------------------------------------------------------------
\* A step of an outlet is one of HTTPOutlet, or touches the formatter only.
LEMMA OutletPart ==
  ASSUME NEW o \in Outlets, CWStep(o)
  PROVE  OutletStep(o) \/ UNCHANGED vars
BY DEF CWStep, TakeToken, RequestFails, PutEvents, ExchangeAccepted, ExchangeRefused,
   ExchangeFails, OutletStep

\* So is every step.
LEMMA NextPart == [CWNext]_cwVars => [Next]_vars
BY OutletPart DEF CWNext, cwVars, Next

\* Every step keeps the outlets' invariant.
LEMMA OutletInvKept ==
  ASSUME CWInv, [CWNext]_cwVars
  PROVE  IInv'
BY NextPart, NextIInv DEF CWInv

\* No more than one token, and room for it.
LEMMA TokensType ==
  ASSUME CWInv
  PROVE  /\ tokens \in Seq(Nat) /\ Len(tokens) \in Nat /\ Len(tokens) <= 1
         /\ tokens # <<>> => /\ Len(tokens) = 1 /\ Head(tokens) \in Nat
                             /\ Tail(tokens) = <<>>
<1>1. tokens \in Seq(Nat) /\ Len(tokens) \in Nat /\ Len(tokens) <= 1
  BY DEF CWInv, CWTypeOK
<1>2. ASSUME tokens # <<>>
      PROVE  Len(tokens) = 1 /\ Head(tokens) \in Nat /\ Tail(tokens) = <<>>
  <2>1. /\ Head(tokens) \in Nat
        /\ Tail(tokens) \in Seq(Nat) /\ Len(Tail(tokens)) = Len(tokens) - 1
    BY <1>1, <1>2, HeadTail
  <2>2. Len(tokens) # 0
    BY <1>1, <1>2
  <2>3. Len(tokens) = 1 /\ Len(Tail(tokens)) = 0
    BY <1>1, <2>1, <2>2
  <2> QED
    BY <2>1, <2>3, EmptySeq
<1> QED
  BY <1>1, <1>2

-----------------------------------------------------------------------------
(***************************************************************************)
(* The steps of a post                                                     *)
(***************************************************************************)
\* Request takes the token: nobody else has one then.
LEMMA TakeTokenStep ==
  ASSUME CWInv, NEW o \in Outlets, TakeToken(o)
  PROVE  CWTypeOK' /\ OneToken' /\ HandInPost'
<1>1. /\ tokens # <<>> /\ tokens' = <<>>
      /\ hand' = [hand EXCEPT ![o] = {Head(tokens)}]
      /\ fpc' = [fpc EXCEPT ![o] = "put"]
      /\ issued' = issued /\ logged' = logged
      /\ Head(tokens) \in Nat
  BY TokensType DEF TakeToken, RemoveToken
<1>2. CWTypeOK'
  BY <1>1 DEF CWInv, CWTypeOK
<1>3. \A p \in Outlets \ {o} : hand'[p] = NoToken
  BY <1>1 DEF CWInv, OneToken, CWTypeOK
<1>4. hand'[o] # NoToken /\ fpc'[o] # "idle"
  BY <1>1 DEF CWInv, CWTypeOK, NoToken
<1>5. OneToken' /\ HandInPost'
  BY <1>1, <1>3, <1>4 DEF CWInv, CWTypeOK, OneToken, HandInPost, NoToken
<1> QED
  BY <1>2, <1>5

\* The events are put through the SDK: the token stays in hand.
LEMMA PutEventsStep ==
  ASSUME CWInv, NEW o \in Outlets, PutEvents(o)
  PROVE  CWTypeOK' /\ OneToken' /\ HandInPost'
<1>1. /\ fpc[o] = "put" /\ fpc' = [fpc EXCEPT ![o] = "sent"]
      /\ logged' = logged \o cur[o]
      /\ UNCHANGED <<tokens, hand, issued>>
  BY DEF PutEvents
<1>2. logged' \in Seq(Line)
  BY <1>1 DEF CWInv, CWTypeOK, IInv, TypeOK
<1>3. CWTypeOK'
  BY <1>1, <1>2 DEF CWInv, CWTypeOK
<1>4. OneToken' /\ HandInPost'
  BY <1>1 DEF CWInv, CWTypeOK, OneToken, HandInPost
<1> QED
  BY <1>3, <1>4

\* A post that ends without a token going back: the token is gone.
LEMMA EndPostStep ==
  ASSUME CWInv, NEW o \in Outlets, EndPost(o), UNCHANGED <<tokens, issued>>,
         logged' \in Seq(Line)
  PROVE  CWTypeOK' /\ OneToken' /\ HandInPost'
<1>1. /\ hand' = [hand EXCEPT ![o] = {}]
      /\ fpc' = [fpc EXCEPT ![o] = "idle"]
  BY DEF EndPost, NoToken
<1>2. CWTypeOK'
  BY <1>1 DEF CWInv, CWTypeOK
<1>3. OneToken' /\ HandInPost'
  BY <1>1 DEF CWInv, CWTypeOK, OneToken, HandInPost, NoToken
<1> QED
  BY <1>2, <1>3

\* A post that ends with the next token going back: the channel is empty, for
\* the outlet had the only token.
LEMMA PutBackStep ==
  ASSUME CWInv, NEW o \in Outlets, fpc[o] = "sent", EndPost(o), PutBack, logged' = logged
  PROVE  CWTypeOK' /\ OneToken' /\ HandInPost'
<1>1. /\ hand' = [hand EXCEPT ![o] = {}]
      /\ fpc' = [fpc EXCEPT ![o] = "idle"]
      /\ issued' = issued + 1 /\ tokens' = Append(tokens, issued + 1)
  BY DEF EndPost, PutBack, NoToken
<1>2. tokens = <<>> /\ issued + 1 \in Nat
  BY TokensType DEF PutBack, CWInv, CWTypeOK
<1>3. tokens' = <<issued + 1>> /\ tokens' \in Seq(Nat) /\ Len(tokens') = 1
  BY <1>1, <1>2
<1>4. CWTypeOK'
  BY <1>1, <1>2, <1>3 DEF CWInv, CWTypeOK
<1>5. hand[o] # NoToken
  BY DEF CWInv, HandInPost
<1>6. \A p \in Outlets : hand'[p] = NoToken
  BY <1>1, <1>5 DEF CWInv, CWTypeOK, OneToken, NoToken
<1>7. \A p \in Outlets : fpc'[p] = "idle"
  BY <1>1, <1>5, <1>6 DEF CWInv, CWTypeOK, OneToken, HandInPost
<1> QED
  BY <1>4, <1>6, <1>7 DEF OneToken, HandInPost

\* Every step of an outlet.
LEMMA CWStepKeeps ==
  ASSUME CWInv, NEW o \in Outlets, CWStep(o)
  PROVE  CWTypeOK' /\ OneToken' /\ HandInPost'
<1>1. CASE TakeToken(o) \/ PutEvents(o)
  BY <1>1, TakeTokenStep, PutEventsStep
<1>2. CASE RequestFails(o)
  <2>1. logged' \in {logged, logged \o cur[o]}
    BY <1>2 DEF RequestFails
  <2>2. logged \in Seq(Line) /\ cur[o] \in Seq(Line)
    BY DEF CWInv, CWTypeOK, IInv, TypeOK
  <2>3. logged' \in Seq(Line)
    BY <2>1, <2>2, ConcatProperties
  <2> QED
    BY <1>2, <2>3, EndPostStep DEF RequestFails
<1>3. CASE ExchangeAccepted(o) \/ ExchangeRefused(o) \/ ExchangeFails(o)
  <2>1. logged' = logged /\ logged \in Seq(Line) /\ fpc[o] = "sent" /\ EndPost(o)
    BY <1>3 DEF ExchangeAccepted, ExchangeRefused, ExchangeFails, CWInv, CWTypeOK
  <2>2. PutBack \/ UNCHANGED <<tokens, issued>>
    BY <1>3 DEF ExchangeAccepted, ExchangeRefused, ExchangeFails
  <2> QED
    BY <2>1, <2>2, EndPostStep, PutBackStep
<1>4. CASE UNCHANGED formatterVars
  BY <1>4 DEF formatterVars, CWInv, CWTypeOK, OneToken, HandInPost
<1> QED
  BY <1>1, <1>2, <1>3, <1>4 DEF CWStep

-----------------------------------------------------------------------------
(***************************************************************************)
(* The theorems                                                            *)
(***************************************************************************)
\* The initial states.
LEMMA InitCWInv == CWInit => CWInv
<1> SUFFICES ASSUME CWInit PROVE CWInv
  OBVIOUS
<1>1. IInv
  BY InitIInv DEF CWInit
<1>2. PICK first \in FirstTokens : tokens = <<first>>
  BY DEF CWInit
<1>3. first \in Nat
  BY CloudWatchAssumption
<1>4. CWTypeOK
  BY <1>2, <1>3 DEF CWInit, CWTypeOK, NoToken
<1>5. OneToken /\ HandInPost
  BY DEF CWInit, OneToken, HandInPost
<1> QED
  BY <1>1, <1>4, <1>5 DEF CWInv

\* Every step.
LEMMA NextCWInv == CWInv /\ [CWNext]_cwVars => CWInv'
<1> SUFFICES ASSUME CWInv, [CWNext]_cwVars PROVE CWInv'
  OBVIOUS
<1>1. UNCHANGED formatterVars => CWTypeOK' /\ OneToken' /\ HandInPost'
  BY DEF formatterVars, CWInv, CWTypeOK, OneToken, HandInPost
<1>2. CWTypeOK' /\ OneToken' /\ HandInPost'
  BY <1>1, CWStepKeeps DEF CWNext, cwVars, CWInv
<1> QED
  BY <1>2, OutletInvKept DEF CWInv

\* The invariant holds in every state of every behaviour.
THEOREM CWInvariance == CWSafety => []CWInv
<1> QED
  BY InitCWInv, NextCWInv, PTL DEF CWSafety

\* Type correctness: in particular the channel of tokens never holds two.
THEOREM CWTypeCorrect == CWSafety => []CWTypeOK
<1>1. CWInv => CWTypeOK
  BY DEF CWInv
<1> QED
  BY <1>1, CWInvariance, PTL

\* There is one token, in the channel or in one hand, whatever the service does:
\* no two outlets put events at once, and HandleResponse never blocks.
THEOREM OneTokenAlways == CWSafety => []OneToken
<1>1. CWInv => OneToken
  BY DEF CWInv
<1> QED
  BY <1>1, CWInvariance, PTL

\* What the outlets promise of a batch (OneOutcome) they promise with this
\* formatter too.
THEOREM CWEndsOnce == CWSafety => []OneOutcome
<1>1. CWInv => OneOutcome
  BY DEF CWInv, IInv
<1> QED
  BY <1>1, CWInvariance, PTL

\* Once the token has gone no outlet stores an event ever again: every outlet
\* that reaches Request blocks there.
THEOREM GoneForGood == CWSafety => NoTokenNoEvents
<1>1. CWInv /\ [CWNext]_cwVars => [TokenGone => UNCHANGED <<tokens, logged>>]_cwVars
  <2> SUFFICES ASSUME CWInv, CWNext, TokenGone PROVE UNCHANGED <<tokens, logged>>
    OBVIOUS
  <2>1. /\ tokens = <<>>
        /\ \A o \in Outlets : fpc[o] = "idle"
    BY DEF TokenGone, CWInv, HandInPost
  <2>2. ASSUME NEW o \in Outlets, CWStep(o) PROVE UNCHANGED <<tokens, logged>>
    BY <2>1, <2>2 DEF CWStep, TakeToken, RequestFails, PutEvents, ExchangeAccepted,
       ExchangeRefused, ExchangeFails, formatterVars
  <2> QED
    BY <2>2 DEF CWNext, formatterVars
<1> QED
  BY <1>1, CWInvariance, PTL DEF CWSafety, NoTokenNoEvents

-----------------------------------------------------------------------------
(***************************************************************************)
(* What the SDK has stored                                                 *)
(***************************************************************************)
\* The lines of two sequences one after the other, and when none comes twice.
LEMMA LinesOfBoth ==
  ASSUME NEW s \in Seq(Line), NEW t \in Seq(Line)
  PROVE  /\ Lines(s \o t) = Lines(s) \cup Lines(t)
         /\ Once(s) /\ Once(t) /\ Lines(s) \cap Lines(t) = {} => Once(s \o t)
<1>1. /\ Len(s) \in Nat /\ Len(t) \in Nat
      /\ DOMAIN s = 1..Len(s) /\ DOMAIN t = 1..Len(t)
      /\ DOMAIN (s \o t) = 1..(Len(s) + Len(t))
      /\ \A i \in 1..(Len(s) + Len(t)) :
           (s \o t)[i] = IF i <= Len(s) THEN s[i] ELSE t[i - Len(s)]
  BY ConcatProperties
<1>2. \A i \in DOMAIN (s \o t) :
        \/ i \in DOMAIN s /\ (s \o t)[i] = s[i]
        \/ i - Len(s) \in DOMAIN t /\ (s \o t)[i] = t[i - Len(s)]
  BY <1>1
<1>3. /\ \A i \in DOMAIN s : i \in DOMAIN (s \o t) /\ (s \o t)[i] = s[i]
      /\ \A i \in DOMAIN t : i + Len(s) \in DOMAIN (s \o t) /\ (s \o t)[i + Len(s)] = t[i]
  BY <1>1
<1>4. Lines(s \o t) = Lines(s) \cup Lines(t)
  <2>1. Lines(s \o t) \subseteq Lines(s) \cup Lines(t)
    BY <1>2 DEF Lines
  <2>2. Lines(s) \cup Lines(t) \subseteq Lines(s \o t)
    BY <1>3 DEF Lines
  <2> QED
    BY <2>1, <2>2
<1>5. ASSUME Once(s), Once(t), Lines(s) \cap Lines(t) = {}
      PROVE  Once(s \o t)
  <2> SUFFICES ASSUME NEW i \in DOMAIN (s \o t), NEW j \in DOMAIN (s \o t),
                      (s \o t)[i] = (s \o t)[j]
               PROVE  i = j
    BY DEF Once
  <2>1. CASE i \in DOMAIN s /\ (s \o t)[i] = s[i] /\ j \in DOMAIN s /\ (s \o t)[j] = s[j]
    BY <1>5, <2>1 DEF Once
  <2>2. CASE /\ i - Len(s) \in DOMAIN t /\ (s \o t)[i] = t[i - Len(s)]
             /\ j - Len(s) \in DOMAIN t /\ (s \o t)[j] = t[j - Len(s)]
    <3>1. i - Len(s) = j - Len(s)
      BY <1>5, <2>2 DEF Once
    <3> QED
      BY <1>1, <3>1
  <2>3. ASSUME NEW k \in DOMAIN s, NEW m \in DOMAIN t PROVE s[k] # t[m]
    BY <1>5 DEF Lines
  <2> QED
    BY <1>2, <2>1, <2>2, <2>3
<1> QED
  BY <1>4, <1>5

\* While an outlet has the token no other outlet is in a post and no batch in
\* another hand has events in the log.
LEMMA OthersOut ==
  ASSUME CWInv, InLog, NEW o \in Outlets, fpc[o] # "idle"
  PROVE  /\ tokens = <<>> /\ hand[o] # NoToken /\ ~TokenGone
         /\ \A p \in Outlets \ {o} :
              /\ hand[p] = NoToken /\ fpc[p] = "idle"
              /\ Lines(cur[p]) \cap Lines(logged) = {}
<1>1. hand[o] # NoToken
  BY DEF CWInv, HandInPost
<1>2. tokens = <<>> /\ \A p \in Outlets \ {o} : hand[p] = NoToken /\ fpc[p] = "idle"
  BY <1>1 DEF CWInv, OneToken, HandInPost
<1>3. ~TokenGone
  BY <1>1 DEF TokenGone
<1> QED
  BY <1>1, <1>2, <1>3 DEF InLog

\* The token is taken: no batch in hand has events in the log.
LEMMA TakeTokenLog ==
  ASSUME CWInv, LogInv, NEW o \in Outlets, TakeToken(o)
  PROVE  InLog' /\ Once(logged)'
<1>1. /\ opc[o] = "post" /\ tokens # <<>> /\ logged' = logged
      /\ fpc' = [fpc EXCEPT ![o] = "put"]
      /\ UNCHANGED <<opc, cur, acked, refused, lostLines>>
      /\ fpc \in [Outlets -> {"idle", "put", "sent"}]
  BY DEF TakeToken, vars, localVars, ghostVars, CWInv, CWTypeOK
<1>2. ~TokenGone /\ \A p \in Outlets : fpc[p] = "idle"
  BY <1>1 DEF TokenGone, CWInv, OneToken
<1>3. \A p \in Outlets : Lines(cur[p]) \cap Lines(logged) = {}
  BY <1>2 DEF LogInv, InLog
<1>4. Holding' = Holding /\ Ended' = Ended
  BY <1>1 DEF Holding, Ended
<1>5. \A p \in Outlets : fpc'[p] # "sent" /\ (fpc'[p] # "idle" => opc'[p] = "post")
  BY <1>1, <1>2
<1> QED
  BY <1>1, <1>3, <1>4, <1>5 DEF LogInv, InLog, Once

\* The events of the batch in hand are appended to the log, by a call that
\* succeeds or by one that fails: none of them has been there before.
LEMMA AppendLog ==
  ASSUME CWInv, LogInv, NEW o \in Outlets, fpc[o] = "put", logged' = logged \o cur[o]
  PROVE  /\ Lines(logged') = Lines(logged) \cup Lines(cur[o])
         /\ Once(logged)'
         /\ \A p \in Outlets \ {o} : Lines(cur[p]) \cap Lines(logged') = {}
         /\ Lines(logged') \subseteq Holding \cup Ended
<1>1. logged \in Seq(Line) /\ cur[o] \in Seq(Line)
  BY DEF CWInv, CWTypeOK, IInv, TypeOK
<1>2. Lines(cur[o]) \cap Lines(logged) = {}
  BY OthersOut DEF LogInv, InLog
<1>3. Once(logged) /\ Once(cur[o])
  BY DEF LogInv, OnceEach
<1>4. Lines(logged') = Lines(logged) \cup Lines(cur[o]) /\ Once(logged')
  BY <1>1, <1>2, <1>3, LinesOfBoth
<1>5. \A p \in Outlets \ {o} : Lines(cur[p]) \cap Lines(cur[o]) = {}
  BY DEF CWInv, IInv, Apart
<1>6. \A p \in Outlets \ {o} : Lines(cur[p]) \cap Lines(logged) = {}
  BY OthersOut DEF LogInv
<1>7. Lines(cur[o]) \subseteq Holding
  BY HoldingIs
<1> QED
  BY <1>4, <1>5, <1>6, <1>7 DEF LogInv, InLog, Once

\* PutLogEvents succeeds.
LEMMA PutEventsLog ==
  ASSUME CWInv, LogInv, NEW o \in Outlets, PutEvents(o)
  PROVE  InLog' /\ Once(logged)'
<1>1. /\ fpc[o] = "put" /\ logged' = logged \o cur[o]
      /\ fpc' = [fpc EXCEPT ![o] = "sent"]
      /\ UNCHANGED <<opc, cur, acked, refused, lostLines>>
      /\ fpc \in [Outlets -> {"idle", "put", "sent"}]
  BY DEF PutEvents, vars, localVars, ghostVars, CWInv, CWTypeOK
<1>2. /\ Lines(logged') = Lines(logged) \cup Lines(cur[o])
      /\ Once(logged)'
      /\ \A p \in Outlets \ {o} : Lines(cur[p]) \cap Lines(logged') = {}
      /\ Lines(logged') \subseteq Holding \cup Ended
  BY <1>1, AppendLog
<1>3. opc[o] = "post" /\ \A p \in Outlets \ {o} : fpc[p] = "idle"
  BY <1>1, OthersOut DEF LogInv, InLog
<1>4. fpc'[o] = "sent" /\ \A p \in Outlets \ {o} : fpc'[p] = "idle"
  BY <1>1, <1>3
<1>5. Holding' = Holding /\ Ended' = Ended
  BY <1>1 DEF Holding, Ended
<1>6. /\ \A p \in Outlets : fpc'[p] # "idle" => opc'[p] = "post"
      /\ \A p \in Outlets : fpc'[p] = "sent" => Lines(cur'[p]) \subseteq Lines(logged')
      /\ \A p \in Outlets :
           Lines(cur'[p]) \cap Lines(logged') # {} => fpc'[p] = "sent"
  BY <1>1, <1>2, <1>3, <1>4
<1> QED
  BY <1>1, <1>2, <1>5, <1>6 DEF LogInv, InLog

\* A post fails: the token is gone, and the batch stays in hand.
LEMMA FailLog ==
  ASSUME CWInv, LogInv, NEW o \in Outlets, RequestFails(o) \/ ExchangeFails(o)
  PROVE  InLog' /\ Once(logged)'
<1>1. /\ fpc[o] # "idle" /\ fpc' = [fpc EXCEPT ![o] = "idle"]
      /\ hand' = [hand EXCEPT ![o] = NoToken] /\ tokens' = tokens
      /\ UNCHANGED <<cur, acked, refused, lostLines>>
      /\ logged' = logged \/ (fpc[o] = "put" /\ logged' = logged \o cur[o])
      /\ fpc \in [Outlets -> {"idle", "put", "sent"}] /\ hand \in [Outlets -> SUBSET Nat]
  BY DEF RequestFails, ExchangeFails, EndPost, PostFailed, Retry, CWInv, CWTypeOK
<1>2. /\ tokens = <<>>
      /\ \A p \in Outlets \ {o} : hand[p] = NoToken /\ fpc[p] = "idle"
  BY <1>1, OthersOut DEF LogInv
<1>3. TokenGone' /\ \A p \in Outlets : fpc'[p] = "idle"
  BY <1>1, <1>2 DEF TokenGone
<1>4. Holding' = Holding /\ Ended' = Ended
  BY <1>1 DEF Holding, Ended
<1>5. /\ Lines(logged') \subseteq Holding \cup Ended
      /\ Lines(logged) \subseteq Lines(logged')
      /\ Once(logged)'
  <2>1. CASE logged' = logged
    BY <2>1 DEF LogInv, InLog, Once
  <2>2. CASE fpc[o] = "put" /\ logged' = logged \o cur[o]
    BY <2>2, AppendLog
  <2> QED
    BY <1>1, <2>1, <2>2
<1> QED
  BY <1>1, <1>3, <1>4, <1>5 DEF LogInv, InLog

\* The exchange succeeds or is refused: the batch has ended, and its events are
\* in the log.
LEMMA EndLog ==
  ASSUME CWInv, LogInv, NEW o \in Outlets, ExchangeAccepted(o) \/ ExchangeRefused(o)
  PROVE  InLog' /\ Once(logged)'
<1>1. /\ fpc[o] = "sent" /\ fpc' = [fpc EXCEPT ![o] = "idle"]
      /\ logged' = logged
      /\ cur' = [cur EXCEPT ![o] = <<>>]
      /\ acked \cup refused \cup Lines(cur[o]) = acked' \cup refused'
      /\ acked' \subseteq acked \cup Lines(cur[o])
      /\ lostLines' = lostLines
      /\ fpc \in [Outlets -> {"idle", "put", "sent"}] /\ cur \in [Outlets -> Seq(Line)]
  BY DEF ExchangeAccepted, ExchangeRefused, EndPost, PostAccepted, PostRefused, Return,
     CWInv, CWTypeOK, IInv, TypeOK
<1>2. /\ Lines(cur[o]) \subseteq Lines(logged)
      /\ \A p \in Outlets \ {o} : fpc[p] = "idle" /\ Lines(cur[p]) \cap Lines(logged) = {}
  BY <1>1, OthersOut DEF LogInv, InLog
<1>3. \A p \in Outlets : fpc'[p] = "idle" /\ Lines(cur'[p]) \cap Lines(logged) = {}
  <2>1. Lines(cur'[o]) = {} /\ \A p \in Outlets \ {o} : cur'[p] = cur[p]
    BY <1>1, NoLines
  <2> QED
    BY <1>1, <1>2, <2>1
<1>4. Holding = Holding' \cup Lines(cur[o])
  BY <1>1, ReturnMoves DEF CWInv
<1>5. Ended' = Ended \cup Lines(cur[o])
  BY <1>1 DEF Ended
<1>6. Lines(logged) \subseteq Holding' \cup Ended' /\ acked' \subseteq Lines(logged)
  BY <1>1, <1>2, <1>4, <1>5 DEF LogInv, InLog
<1> QED
  BY <1>1, <1>3, <1>6 DEF LogInv, InLog, Once

\* The steps before and after the posts: a batch from the channel has no event
\* in the log yet.
LEMMA OtherLog ==
  ASSUME CWInv, LogInv, UNCHANGED formatterVars,
         \/ \E o \in Outlets :
              Receive(o) \/ Finish(o) \/ ReadDrops(o) \/ ReadLost(o) \/ Lose(o)
         \/ ReaderFeeds \/ ReaderDrops \/ Land \/ UNCHANGED vars
  PROVE  InLog' /\ Once(logged)'
<1>1. UNCHANGED <<tokens, hand, fpc, logged>> /\ TokenGone' = TokenGone
  BY DEF formatterVars, TokenGone
<1>2. Once(logged)'
  BY <1>1 DEF LogInv, Once
<1>3. ASSUME NEW o \in Outlets, opc[o] # "post",
             opc' = [opc EXCEPT ![o] = opc'[o]],
             cur' = [cur EXCEPT ![o] = cur'[o]],
             Lines(cur'[o]) \cap Lines(logged) # {} =>
               Lines(cur[o]) \cap Lines(logged) # {},
             Holding \cup Ended \subseteq Holding' \cup Ended',
             acked' = acked
      PROVE  InLog'
  <2>1. fpc[o] = "idle"
    BY <1>3 DEF LogInv, InLog
  <2>2. \A p \in Outlets \ {o} : opc'[p] = opc[p] /\ cur'[p] = cur[p]
    BY <1>3 DEF CWInv, IInv, TypeOK
  <2>3. /\ \A p \in Outlets : fpc[p] # "idle" => opc'[p] = "post"
        /\ \A p \in Outlets : fpc[p] = "sent" => Lines(cur'[p]) \subseteq Lines(logged)
    BY <2>1, <2>2 DEF LogInv, InLog
  <2>4. \A p \in Outlets :
          Lines(cur'[p]) \cap Lines(logged) # {} => fpc[p] = "sent" \/ TokenGone
    BY <1>3, <2>2 DEF LogInv, InLog
  <2> QED
    BY <1>1, <1>3, <2>3, <2>4 DEF LogInv, InLog
<1>4. ASSUME NEW o \in Outlets, Receive(o) PROVE InLog'
  <2>1. /\ opc[o] = "recv" /\ opc' = [opc EXCEPT ![o] = "drops"]
        /\ cur' = [cur EXCEPT ![o] = Head(batches)] /\ batches # <<>>
        /\ UNCHANGED <<acked, refused, lostLines>>
        /\ cur \in [Outlets -> Seq(Line)]
        /\ opc \in [Outlets -> {"recv", "drops", "lost", "post", "lose", "done"}]
    BY <1>4 DEF Receive, Goto, ghostVars, CWInv, IInv, TypeOK
  <2>2. /\ Lines(Head(batches)) \subseteq Queued
        /\ Holding' = Holding \cup Lines(Head(batches)) /\ Ended' = Ended
    BY <1>4, <2>1, ReceiveMoves DEF CWInv, Ended
  <2>3. Lines(Head(batches)) \cap Lines(logged) = {}
    BY <2>2 DEF LogInv, InLog, CWInv, IInv, OneOutcome, Ended
  <2>4. cur'[o] = Head(batches) /\ opc'[o] = "drops"
    BY <2>1
  <2> QED
    BY <1>3, <2>1, <2>2, <2>3, <2>4
<1>5. ASSUME NEW o \in Outlets, Finish(o) \/ ReadDrops(o) \/ ReadLost(o)
      PROVE  InLog'
  <2>1. /\ opc[o] # "post" /\ opc' = [opc EXCEPT ![o] = opc'[o]]
        /\ UNCHANGED <<cur, acked, refused, lostLines>>
        /\ cur \in [Outlets -> Seq(Line)]
        /\ opc \in [Outlets -> {"recv", "drops", "lost", "post", "lose", "done"}]
    BY <1>5 DEF Finish, ReadDrops, ReadLost, Goto, ghostVars, CWInv, IInv, TypeOK
  <2>2. Holding' = Holding /\ Ended' = Ended /\ cur' = [cur EXCEPT ![o] = cur'[o]]
    BY <2>1 DEF Holding, Ended
  <2> QED
    BY <1>3, <2>1, <2>2
<1>6. ASSUME NEW o \in Outlets, Lose(o) PROVE InLog'
  <2>1. /\ opc[o] = "lose" /\ opc' = [opc EXCEPT ![o] = "recv"]
        /\ cur' = [cur EXCEPT ![o] = <<>>]
        /\ lostLines' = lostLines \cup Lines(cur[o])
        /\ UNCHANGED <<acked, refused>>
        /\ cur \in [Outlets -> Seq(Line)]
        /\ opc \in [Outlets -> {"recv", "drops", "lost", "post", "lose", "done"}]
    BY <1>6 DEF Lose, Return, Goto, CWInv, IInv, TypeOK
  <2>2. Holding = Holding' \cup Lines(cur[o])
    BY <2>1, ReturnMoves DEF CWInv
  <2>3. Ended' = Ended \cup Lines(cur[o])
    BY <2>1 DEF Ended
  <2>4. cur'[o] = <<>> /\ opc'[o] = "recv" /\ Lines(cur'[o]) = {}
    BY <2>1, NoLines
  <2> QED
    BY <1>3, <2>1, <2>2, <2>3, <2>4
<1>7. CASE ReaderFeeds \/ ReaderDrops \/ Land \/ UNCHANGED vars
  <2>1. UNCHANGED <<opc, cur, acked, refused, lostLines>>
    BY <1>7 DEF ReaderFeeds, ReaderDrops, Land, vars, localVars, ghostVars
  <2>2. Holding' = Holding /\ Ended' = Ended
    BY <2>1 DEF Holding, Ended
  <2> QED
    BY <1>1, <2>1, <2>2 DEF LogInv, InLog
<1> QED
  BY <1>2, <1>4, <1>5, <1>6, <1>7

\* Every step.
LEMMA NextLogInv ==
  ASSUME CWInv, LogInv, [CWNext]_cwVars
  PROVE  LogInv'
<1>1. OnceEach'
  BY NextPart, OnceEachKept DEF CWInv, LogInv
<1>2. InLog' /\ Once(logged)'
  <2>1. ASSUME NEW o \in Outlets, CWStep(o) PROVE InLog' /\ Once(logged)'
    BY <2>1, TakeTokenLog, PutEventsLog, FailLog, EndLog, OtherLog DEF CWStep
  <2>2. CASE (ReaderFeeds \/ ReaderDrops \/ Land \/ Terminated) /\ UNCHANGED formatterVars
    BY <2>2, OtherLog DEF Terminated
  <2>3. CASE UNCHANGED cwVars
    BY <2>3, OtherLog DEF cwVars
  <2> QED
    BY <2>1, <2>2, <2>3 DEF CWNext
<1> QED
  BY <1>1, <1>2 DEF LogInv

\* The SDK stores no event twice and nothing that is still queued, and it has
\* stored what is accepted, whatever fails and however often it is tried again.
THEOREM LogsOnce == CWSafety => []LoggedOnce
<1>1. CWInit => LogInv
  BY NoLines DEF CWInit, Init, LogInv, InLog, Once, OnceEach
<1>2. CWInv /\ LogInv /\ [CWNext]_cwVars => LogInv'
  BY NextLogInv
<1>3. CWInv /\ LogInv => LoggedOnce
  BY DEF CWInv, IInv, OneOutcome, LogInv, InLog, Ended, Once, LoggedOnce
<1> QED
  BY <1>1, <1>2, <1>3, CWInvariance, PTL DEF CWSafety
=============================================================================
