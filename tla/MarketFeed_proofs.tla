-------------------------- MODULE MarketFeed_proofs --------------------------
(***************************************************************************)
(* Theorems about MarketFeed, for every batch size, list capacity, number  *)
(* of retries and set of failing stores.                                   *)
(***************************************************************************)
EXTENDS MarketFeed, SequenceTheorems, FiniteSetTheorems, FunctionTheorems, TLAPS

Waiting == {"early", "late", "bar"}

\* OnTick waits in a Post exactly when there is one, and the kind fits.
PostFits ==
  /\ post = NoPost <=> pc \notin Waiting
  /\ pc = "bar" => post.kind = "candle"
  /\ pc \in {"early", "late"} => post.kind = "tick"

\* Between flushes there is room for one more tick.
BatchHasRoom == pc \notin {"early", "late"} => Len(batch) < BatchSize

\* Only a candle has a second await.
StagesFit == \A r \in requests : r.at # "sent" => r.id.kind = "candle"

IInv ==
  /\ TypeOK
  /\ PostFits
  /\ BatchHasRoom
  /\ StagesFit
  /\ pc \in {"early", "collect"} => ticks >= 1
  /\ lastBar <= bar

USE DEF Waiting

\* The bounds are used as numbers.
LEMMA Numbers ==
  /\ BatchSize \in Nat \ {0} /\ Capacity \in Nat \ {0} /\ MaxRetries \in Nat
  /\ MaxBars \in Nat \ {0} /\ MaxTicks \in Nat
BY BatchAssumption, CapacityAssumption, RetriesAssumption, BoundsAssumption

\* The first attempt of a Post is an attempt, and no attempt is NoPost.
LEMMA FirstAttempt ==
  ASSUME NEW kind \in {"tick", "candle"}, NEW item,
         item \in IF kind = "tick" THEN 1..MaxTicks ELSE 1..MaxBars
  PROVE  LET first == [kind |-> kind, item |-> item, attempt |-> 0]
         IN  first \in Attempt /\ Sent(first) \in Request
<1> DEFINE first == [kind |-> kind, item |-> item, attempt |-> 0]
<1>1. 0 \in 0..MaxRetries
  BY Numbers
<1>2. first \in Attempt
  <2>1. CASE kind = "tick"
    BY <1>1, <2>1 DEF Attempt
  <2>2. CASE kind = "candle"
    BY <1>1, <2>2 DEF Attempt
  <2> QED
    BY <2>1, <2>2
<1> QED
  BY <1>2 DEF Request, Sent, Stage

\* What is known of an attempt.
LEMMA AttemptFields ==
  ASSUME NEW a \in Attempt
  PROVE  /\ a # NoPost /\ a.kind \in {"tick", "candle"}
         /\ a.attempt \in 0..MaxRetries
         /\ a.kind = "tick" => a.item \in 1..MaxTicks
         /\ a.kind = "candle" => a.item \in 1..MaxBars
BY DEF Attempt, NoPost

\* The next attempt of a Post differs in its number only.
LEMMA NextAttempt ==
  ASSUME NEW a \in Attempt, ShouldRetry(a.attempt)
  PROVE  LET next == [a EXCEPT !.attempt = @ + 1]
         IN  /\ next \in Attempt /\ next.kind = a.kind /\ next.item = a.item
             /\ Sent(next) \in Request
<1>1. a.attempt + 1 \in 0..MaxRetries
  BY AttemptFields, Numbers DEF ShouldRetry
<1> QED
  BY <1>1 DEF Attempt, Request, Sent, Stage
-----------------------------------------------------------------------------
(***************************************************************************)
(* What the parts that the actions share do to the invariant.              *)
(***************************************************************************)
HandlerOK(c, b, p) ==
  /\ c \in {"idle", "early", "collect", "late", "newbar", "bar"}
  /\ b \in Seq(1..MaxTicks) /\ Len(b) <= BatchSize
  /\ p \in Attempt \cup {NoPost}
  /\ p = NoPost <=> c \notin Waiting
  /\ c = "bar" => p.kind = "candle"
  /\ c \in {"early", "late"} => p.kind = "tick"
  /\ c \notin {"early", "late"} => Len(b) < BatchSize

\* When Post returns, OnTick goes on with a batch that has room.
LEMMA PostReturnsEffect ==
  ASSUME IInv, post # NoPost, PostReturns
  PROVE  /\ HandlerOK(pc', batch', post')
         /\ pc' # "early"
         /\ pc' = "collect" => pc = "early"
<1>1. pc \in Waiting
  BY DEF IInv, PostFits
<1>2. <<>> \in Seq(1..MaxTicks) /\ Len(<<>>) = 0
  OBVIOUS
<1>3. batch' \in Seq(1..MaxTicks) /\ Len(batch') < BatchSize
  <2>1. CASE pc = "bar"
    BY <2>1 DEF IInv, TypeOK, BatchHasRoom, PostReturns
  <2>2. CASE pc \in {"early", "late"}
    BY <2>2, <1>2, Numbers DEF PostReturns
  <2> QED
    BY <1>1, <2>1, <2>2
<1>4. Len(batch') <= BatchSize
  BY <1>3, Numbers
<1>5. pc' = [early |-> "collect", late |-> "newbar", bar |-> "idle"][pc]
  BY DEF PostReturns
<1>6. post' = NoPost
  BY DEF PostReturns
<1> QED
  BY <1>1, <1>3, <1>4, <1>5, <1>6 DEF HandlerOK

\* The end of a request, whatever the EA makes of it.
LEMMA AnswerEffect ==
  ASSUME IInv, NEW r \in requests, NEW ok \in BOOLEAN, Answer(r, ok)
  PROVE  /\ HandlerOK(pc', batch', post')
         /\ requests' \subseteq Request /\ StagesFit'
         /\ pc' \in {"early", "collect"} => pc \in {"early", "collect"}
<1>1. r \in Request /\ r.id \in Attempt
  BY DEF IInv, TypeOK, Request
<1>2. HandlerOK(pc, batch, post)
  BY DEF IInv, TypeOK, PostFits, BatchHasRoom, HandlerOK
<1>3. ASSUME requests' = requests \ {r}
      PROVE  requests' \subseteq Request /\ StagesFit'
  BY <1>3 DEF IInv, TypeOK, StagesFit
<1>4. CASE r.id # post
  BY <1>2, <1>3, <1>4 DEF Answer
<1>5. CASE r.id = post /\ (ok \/ ~ShouldRetry(post.attempt))
  <2>1. post # NoPost
    BY <1>1, <1>5, AttemptFields
  <2>2. PostReturns /\ requests' = requests \ {r}
    BY <1>5 DEF Answer
  <2> QED
    BY <2>1, <2>2, <1>3, PostReturnsEffect
<1>6. CASE r.id = post /\ ~ok /\ ShouldRetry(post.attempt)
  <2> DEFINE next == [post EXCEPT !.attempt = @ + 1]
  <2>1. post' = next /\ requests' = (requests \ {r}) \cup {Sent(next)}
        /\ UNCHANGED <<pc, batch>>
    BY <1>6 DEF Answer
  <2>2. post \in Attempt
    BY <1>1, <1>6
  <2>3. next \in Attempt /\ next.kind = post.kind /\ Sent(next) \in Request
    BY <2>2, <1>6, NextAttempt
  <2>4. Sent(next).at = "sent"
    BY DEF Sent
  <2>5. requests' \subseteq Request /\ StagesFit'
    BY <2>1, <2>3, <2>4 DEF IInv, TypeOK, StagesFit
  <2>6. post # NoPost /\ post' # NoPost
    BY <2>1, <2>2, <2>3, AttemptFields
  <2>7. HandlerOK(pc', batch', post')
    BY <1>2, <2>1, <2>3, <2>6 DEF HandlerOK
  <2> QED
    BY <2>1, <2>5, <2>7
<1> QED
  BY <1>4, <1>5, <1>6

\* A request that goes on to its next await.
LEMMA GoesOnEffect ==
  ASSUME IInv, NEW r \in requests, NEW at \in Stage, r.id.kind = "candle", GoesOn(r, at)
  PROVE  /\ HandlerOK(pc', batch', post')
         /\ requests' \subseteq Request /\ StagesFit'
         /\ UNCHANGED pc
<1> DEFINE q == [r EXCEPT !.at = at]
<1>1. r \in Request
  BY DEF IInv, TypeOK
<1>2. q \in Request /\ q.id = r.id
  BY <1>1 DEF Request
<1>3. requests' = (requests \ {r}) \cup {q} /\ UNCHANGED <<post, pc, batch>>
  BY DEF GoesOn
<1>4. requests' \subseteq Request /\ StagesFit'
  BY <1>2, <1>3 DEF IInv, TypeOK, StagesFit
<1>5. HandlerOK(pc, batch, post)
  BY DEF IInv, TypeOK, PostFits, BatchHasRoom, HandlerOK
<1> QED
  BY <1>3, <1>4, <1>5

\* The begin of a Post.
LEMMA StartPostEffect ==
  ASSUME IInv, NEW kind \in {"tick", "candle"}, NEW item, StartPost(kind, item),
         item \in IF kind = "tick" THEN 1..MaxTicks ELSE 1..MaxBars
  PROVE  /\ post' \in Attempt /\ post' # NoPost /\ post'.kind = kind
         /\ requests' \subseteq Request /\ StagesFit'
<1> DEFINE first == [kind |-> kind, item |-> item, attempt |-> 0]
<1>1. first \in Attempt /\ Sent(first) \in Request
  BY FirstAttempt
<1>2. post' = first /\ requests' = requests \cup {Sent(first)}
  BY DEF StartPost
<1>3. Sent(first).at = "sent"
  BY DEF Sent
<1>4. requests' \subseteq Request /\ StagesFit'
  BY <1>1, <1>2, <1>3 DEF IInv, TypeOK, StagesFit
<1>5. first # NoPost /\ first.kind = kind
  BY <1>1, AttemptFields
<1> QED
  BY <1>1, <1>2, <1>4, <1>5
-----------------------------------------------------------------------------
\* IInv holds at the start.
LEMMA InitInvariant == Init => IInv
<1> SUFFICES ASSUME Init PROVE IInv
  OBVIOUS
<1>1. /\ <<>> \in Seq(1..MaxTicks) /\ <<>> \in Seq(1..MaxBars)
      /\ Len(<<>>) = 0
  OBVIOUS
<1>2. outlived \in BOOLEAN
  BY DEF Init
<1> QED
  BY <1>1, <1>2, Numbers DEF Init, IInv, TypeOK, PostFits, BatchHasRoom, StagesFit, NoPost

\* IInv from its parts in the next state.
LEMMA Assemble ==
  ASSUME HandlerOK(pc, batch, post)', requests' \subseteq Request, StagesFit',
         bar' \in 1..MaxBars, ticks' \in 0..MaxTicks, collecting' \in BOOLEAN,
         lastBar' \in 0..MaxBars, lastBar' <= bar',
         pc' \in {"early", "collect"} => ticks' >= 1,
         candles' \in Seq(1..MaxBars), tick' \in 0..MaxTicks, stored' \subseteq 1..MaxBars,
         outlived' \in BOOLEAN
  PROVE  IInv'
BY DEF IInv, TypeOK, PostFits, BatchHasRoom, HandlerOK

\* Each action preserves IInv.
LEMMA NextInvariant == IInv /\ [Next]_vars => IInv'
<1> SUFFICES ASSUME IInv, [Next]_vars PROVE IInv'
  OBVIOUS
<1> USE Numbers
<1>t. TypeOK
  BY DEF IInv
<1>h. HandlerOK(pc, batch, post)
  BY DEF IInv, TypeOK, PostFits, BatchHasRoom, HandlerOK
<1>s. StagesFit
  BY DEF IInv
<1>z. outlived' \in BOOLEAN
  BY <1>t DEF TypeOK, Next, Timeout, Restart, vars
<1>b. lastBar <= bar /\ (pc \in {"early", "collect"} => ticks >= 1)
  BY DEF IInv
<1>l. \A b \in Seq(1..MaxTicks) : b # <<>> => b[Len(b)] \in 1..MaxTicks
  OBVIOUS
<1>1. CASE OnTick
  <2>1. /\ pc = "idle" /\ ticks' = ticks + 1 /\ ticks < MaxTicks
        /\ UNCHANGED <<bar, collecting, batch, lastBar, storeVars>>
    BY <1>1 DEF OnTick
  <2>2. CASE batch # <<>> /\ pc' = "early" /\ StartPost("tick", batch[Len(batch)])
    <3>1. batch[Len(batch)] \in 1..MaxTicks
      BY <1>t, <1>l, <2>2 DEF TypeOK
    <3>2. post' \in Attempt /\ post' # NoPost /\ post'.kind = "tick"
          /\ requests' \subseteq Request /\ StagesFit'
      BY <3>1, <2>2, StartPostEffect
    <3>3. HandlerOK(pc, batch, post)'
      BY <1>h, <2>1, <2>2, <3>2 DEF HandlerOK
    <3> QED
      BY <1>t, <1>b, <2>1, <3>2, <3>3, <1>z, Assemble DEF TypeOK, storeVars
  <2>3. CASE pc' \in {"collect", "newbar"} /\ UNCHANGED <<post, requests>>
    <3>1. HandlerOK(pc, batch, post)'
      BY <1>h, <2>1, <2>3 DEF HandlerOK
    <3>2. StagesFit'
      BY <1>s, <2>3 DEF StagesFit
    <3> QED
      BY <1>t, <1>b, <2>1, <2>3, <3>1, <3>2, <1>z, Assemble DEF TypeOK, storeVars
  <2> QED
    BY <1>1, <2>2, <2>3 DEF OnTick
<1>2. CASE Collect
  <2>1. /\ pc = "collect" /\ UNCHANGED <<bar, ticks, collecting, lastBar, storeVars>>
        /\ batch' = IF Len(batch) < BatchSize THEN Append(batch, ticks) ELSE batch
    BY <1>2 DEF Collect
  <2>2. Len(batch) < BatchSize /\ ticks \in 1..MaxTicks /\ batch \in Seq(1..MaxTicks)
    BY <1>t, <1>h, <1>b, <2>1 DEF TypeOK, HandlerOK
  <2>3. /\ batch' \in Seq(1..MaxTicks) /\ batch' # <<>>
        /\ Len(batch') = Len(batch) + 1 /\ Len(batch') <= BatchSize
    BY <2>1, <2>2
  <2>4. CASE pc' = "late" /\ StartPost("tick", batch'[Len(batch')])
    <3>1. batch'[Len(batch')] \in 1..MaxTicks
      BY <1>l, <2>3
    <3>2. post' \in Attempt /\ post' # NoPost /\ post'.kind = "tick"
          /\ requests' \subseteq Request /\ StagesFit'
      BY <3>1, <2>4, StartPostEffect
    <3>3. HandlerOK(pc, batch, post)'
      BY <2>3, <2>4, <3>2 DEF HandlerOK
    <3> QED
      BY <1>t, <1>b, <2>1, <2>4, <3>2, <3>3, <1>z, Assemble DEF TypeOK, storeVars
  <2>5. CASE /\ pc' = "newbar" /\ UNCHANGED <<post, requests>>
             /\ \E elapsed \in BOOLEAN : ~ShouldFlushBatch(batch', elapsed)
    <3>1. Len(batch') < BatchSize
      BY <2>3, <2>5 DEF ShouldFlushBatch
    <3>2. HandlerOK(pc, batch, post)'
      BY <1>h, <2>1, <2>3, <2>5, <3>1 DEF HandlerOK
    <3>3. StagesFit'
      BY <1>s, <2>5 DEF StagesFit
    <3> QED
      BY <1>t, <1>b, <2>1, <2>5, <3>2, <3>3, <1>z, Assemble DEF TypeOK, storeVars
  <2> QED
    BY <1>2, <2>4, <2>5 DEF Collect
<1>3. CASE DetectNewBar
  <2>1. /\ pc = "newbar" /\ lastBar' = bar
        /\ UNCHANGED <<bar, ticks, collecting, batch, storeVars>>
    BY <1>3 DEF DetectNewBar, LastBarAfter
  <2>2. CASE bar # lastBar /\ lastBar # 0 /\ pc' = "bar" /\ StartPost("candle", bar - 1)
    <3>1. bar - 1 \in 1..MaxBars
      BY <1>t, <1>b, <2>2 DEF TypeOK
    <3>2. post' \in Attempt /\ post' # NoPost /\ post'.kind = "candle"
          /\ requests' \subseteq Request /\ StagesFit'
      BY <3>1, <2>2, StartPostEffect
    <3>3. HandlerOK(pc, batch, post)'
      BY <1>h, <2>1, <2>2, <3>2 DEF HandlerOK
    <3> QED
      BY <1>t, <1>b, <2>1, <2>2, <3>2, <3>3, <1>z, Assemble DEF TypeOK, storeVars
  <2>3. CASE pc' = "idle" /\ UNCHANGED <<post, requests>>
    <3>1. HandlerOK(pc, batch, post)'
      BY <1>h, <2>1, <2>3 DEF HandlerOK
    <3>2. StagesFit'
      BY <1>s, <2>3 DEF StagesFit
    <3> QED
      BY <1>t, <1>b, <2>1, <2>3, <3>1, <3>2, <1>z, Assemble DEF TypeOK, storeVars
  <2> QED
    BY <1>3, <2>2, <2>3 DEF DetectNewBar
<1>4. CASE Timeout
  <2>1. HandlerOK(pc', batch', post') /\ (pc' \in {"early", "collect"} => pc = "early")
    BY <1>4, PostReturnsEffect DEF Timeout
  <2>2. UNCHANGED <<bar, ticks, collecting, lastBar, requests, storeVars>>
    BY <1>4 DEF Timeout
  <2>3. StagesFit'
    BY <1>s, <2>2 DEF StagesFit
  <2> QED
    BY <1>t, <1>b, <2>1, <2>2, <2>3, <1>z, Assemble DEF TypeOK, storeVars
<1>5. CASE Restart
  <2>1. /\ pc' = "idle" /\ batch' = <<>> /\ post' = NoPost
        /\ lastBar' \in {lastBar, 0} /\ collecting' \in BOOLEAN
        /\ UNCHANGED <<bar, ticks, requests, storeVars>>
    BY <1>5 DEF Restart
  <2>2. <<>> \in Seq(1..MaxTicks) /\ Len(<<>>) = 0
    OBVIOUS
  <2>3. HandlerOK(pc, batch, post)'
    BY <2>1, <2>2 DEF HandlerOK
  <2>4. StagesFit'
    BY <1>s, <2>1 DEF StagesFit
  <2> QED
    BY <1>t, <1>b, <2>1, <2>3, <2>4, <1>z, Assemble DEF TypeOK, storeVars
<1>6. CASE Connect \/ Lose \/ TickExpires \/ BarCloses \/ UNCHANGED vars
  <2>1. /\ UNCHANGED <<ticks, pc, batch, lastBar, post, candles, stored>>
        /\ bar' \in 1..MaxBars /\ bar' >= bar /\ tick' \in 0..MaxTicks
        /\ collecting' \in BOOLEAN /\ requests' \subseteq requests
    <3>1. CASE Connect
      BY <3>1, <1>t DEF Connect, storeVars, TypeOK
    <3>2. CASE Lose
      BY <3>2, <1>t DEF Lose, eaVars, storeVars, TypeOK
    <3>3. CASE TickExpires
      BY <3>3, <1>t DEF TickExpires, eaVars, TypeOK
    <3>4. CASE BarCloses
      BY <3>4, <1>t DEF BarCloses, eaVars, storeVars, TypeOK
    <3>5. CASE UNCHANGED vars
      BY <3>5, <1>t DEF vars, eaVars, storeVars, TypeOK
    <3> QED
      BY <1>6, <3>1, <3>2, <3>3, <3>4, <3>5
  <2>2. HandlerOK(pc, batch, post)'
    BY <1>h, <2>1 DEF HandlerOK
  <2>3. StagesFit' /\ requests' \subseteq Request
    BY <1>s, <1>t, <2>1 DEF StagesFit, TypeOK
  <2> QED
    BY <1>t, <1>b, <2>1, <2>2, <2>3, <1>z, Assemble DEF TypeOK
<1>7. CASE Serve
  <2>1. PICK r \in requests :
          \/ SetTick(r) \/ PushCandle(r) \/ TrimCandles(r)
          \/ InsertCandle(r) \/ Commit(r) \/ AwaitFails(r)
    BY <1>7 DEF Serve
  <2>2. r \in Request /\ r.id \in Attempt /\ (r.at # "sent" => r.id.kind = "candle")
    BY <1>t, <1>s DEF TypeOK, Request, StagesFit
  <2>3. UNCHANGED <<bar, ticks, collecting, lastBar>>
    BY <2>1 DEF SetTick, PushCandle, TrimCandles, InsertCandle, Commit, AwaitFails, worldVars
  <2>4. /\ HandlerOK(pc', batch', post') /\ requests' \subseteq Request /\ StagesFit'
        /\ pc' \in {"early", "collect"} => pc \in {"early", "collect"}
    <3>1. CASE \E ok \in BOOLEAN : Answer(r, ok)
      BY <3>1, AnswerEffect
    <3>2. CASE r.id.kind = "candle" /\ \E at \in Stage : GoesOn(r, at)
      BY <3>2, GoesOnEffect
    <3>3. {"trim", "flush", "commit"} \subseteq Stage
      BY DEF Stage
    <3> QED
      BY <2>1, <2>2, <3>1, <3>2, <3>3
         DEF SetTick, PushCandle, TrimCandles, InsertCandle, Commit, AwaitFails
  <2>5. r.id.kind = "candle" => r.id.item \in 1..MaxBars
    BY <2>2, AttemptFields
  <2>6. candles' \in Seq(1..MaxBars)
    <3>1. Trimmed(candles) \in Seq(1..MaxBars)
      <4>1. CASE Len(candles) <= Capacity
        BY <4>1, <1>t DEF TypeOK, Trimmed
      <4>2. CASE Len(candles) > Capacity
        <5>1. candles \in Seq(1..MaxBars)
          BY <1>t DEF TypeOK
        <5>2. Len(candles) - Capacity + 1 \in 1..Len(candles) /\ Len(candles) \in 1..Len(candles)
          BY <4>2, <5>1
        <5>3. SubSeq(candles, Len(candles) - Capacity + 1, Len(candles)) \in Seq(1..MaxBars)
          BY <5>1, <5>2, SubSeqProperties
        <5> QED
          BY <4>2, <5>1, <5>3 DEF Trimmed
      <4> QED
        BY <1>t, <4>1, <4>2 DEF TypeOK
    <3>2. r.id.kind = "candle" => Append(candles, r.id.item) \in Seq(1..MaxBars)
      BY <1>t, <2>5 DEF TypeOK
    <3> QED
      BY <1>t, <2>1, <3>1, <3>2
         DEF TypeOK, SetTick, PushCandle, Pushed, TrimCandles, InsertCandle, Commit, AwaitFails,
             storeVars
  <2>7. tick' \in 0..MaxTicks
    <3>1. r.id.kind = "tick" => r.id.item \in 0..MaxTicks
      BY <2>2, AttemptFields
    <3> QED
      BY <1>t, <2>1, <3>1
         DEF TypeOK, SetTick, PushCandle, TrimCandles, InsertCandle, Commit, AwaitFails, storeVars
  <2>8. stored' \subseteq 1..MaxBars
    <3>1. stored \subseteq 1..MaxBars
      BY <1>t DEF TypeOK
    <3> QED
      BY <2>1, <2>2, <2>5, <3>1
         DEF SetTick, PushCandle, TrimCandles, InsertCandle, Commit, AwaitFails, storeVars
  <2>9. /\ bar' \in 1..MaxBars /\ ticks' \in 0..MaxTicks /\ collecting' \in BOOLEAN
        /\ lastBar' \in 0..MaxBars /\ lastBar' <= bar'
        /\ pc' \in {"early", "collect"} => ticks' >= 1
    BY <1>t, <1>b, <2>3, <2>4 DEF TypeOK
  <2> QED
    BY <2>4, <2>6, <2>7, <2>8, <2>9, <1>z, Assemble
<1> QED
  BY <1>1, <1>2, <1>3, <1>4, <1>5, <1>6, <1>7 DEF Next

\* IInv holds in every reachable state.
LEMMA Invariance == Spec => []IInv
<1> QED
  BY InitInvariant, NextInvariant, PTL DEF Spec

\* Every variable keeps its type.
THEOREM FeedTypeCorrect == Spec => []TypeOK
<1>1. IInv => TypeOK
  BY DEF IInv
<1> QED
  BY <1>1, Invariance, PTL

\* The tick buffer of CMarketCollector always has room for the tick that OnTick
\* collects, so that no tick is dropped.
THEOREM TicksAreKept == Spec => []NoTickDropped
<1>1. IInv => NoTickDropped
  BY DEF IInv, BatchHasRoom, NoTickDropped
<1> QED
  BY <1>1, Invariance, PTL
-----------------------------------------------------------------------------
(***************************************************************************)
(* How often a bar gets into the Redis list.  The Posts of candles are in  *)
(* the order of the bars, so a bar has one Post; each attempt of it makes  *)
(* at most one entry.  The invariant counts the entries and the requests   *)
(* that may still make one against the attempts begun.                     *)
(***************************************************************************)
Coming(b) ==
  {r \in requests : r.at = "sent" /\ r.id.kind = "candle" /\ r.id.item = b}

Begun(b) ==
  IF post.kind = "candle" /\ post.item = b THEN post.attempt + 1 ELSE MaxRetries + 1

\* Bar b is one that DetectNewBar will not send any more.
Past(b) == b < bar /\ (lastBar # 0 => b < lastBar)

PostsInOrder ==
  /\ \A i \in DOMAIN candles : Past(candles[i])
  /\ \A r \in requests : r.id.kind = "candle" => Past(r.id.item)
  /\ post.kind = "candle" => Past(post.item)

Counted(b) == Cardinality(Copies(b)) + Cardinality(Coming(b)) <= Begun(b)

CountsKept ==
  /\ IsFiniteSet(requests)
  /\ PostsInOrder
  /\ \A b \in 1..MaxBars : Counted(b)

CInv == IInv /\ CountsKept

\* Both sets that are counted are finite.
LEMMA FiniteCounts ==
  ASSUME CInv, NEW b
  PROVE  /\ IsFiniteSet(Copies(b)) /\ Cardinality(Copies(b)) \in Nat
         /\ IsFiniteSet(Coming(b)) /\ Cardinality(Coming(b)) \in Nat
<1>1. candles \in Seq(1..MaxBars) /\ IsFiniteSet(requests)
  BY DEF CInv, CountsKept, IInv, TypeOK
<1>2. Copies(b) \in SUBSET (1..Len(candles)) /\ Len(candles) \in Nat
  BY <1>1 DEF Copies
<1>3. IsFiniteSet(Copies(b))
  <2>1. 1 \in Int /\ Len(candles) \in Int
    BY <1>2
  <2>2. IsFiniteSet(1..Len(candles))
    BY <2>1, FS_Interval
  <2> QED
    BY <1>2, <2>2, FS_Subset
<1>4. IsFiniteSet(Coming(b))
  BY <1>1, FS_Subset DEF Coming
<1> QED
  BY <1>3, <1>4, FS_CardinalityType

\* The attempts begun for a bar, in numbers.
LEMMA BegunRange ==
  ASSUME CInv, NEW b
  PROVE  Begun(b) \in 1..(MaxRetries + 1)
<1>1. CASE post.kind = "candle"
  <2>1. post \in Attempt
    BY <1>1 DEF CInv, CountsKept, IInv, TypeOK, NoPost
  <2> QED
    BY <2>1, AttemptFields, Numbers DEF Begun
<1>2. CASE post.kind # "candle"
  BY <1>2, Numbers DEF Begun
<1> QED
  BY <1>1, <1>2

\* The count survives if no entry is made and no attempt begun.
LEMMA NothingBegun ==
  ASSUME CInv, NEW b \in 1..MaxBars, UNCHANGED candles,
         Coming(b)' \subseteq Coming(b), Begun(b)' \in Nat, Begun(b)' >= Begun(b)
  PROVE  Counted(b)'
<1>1. Counted(b)
  BY DEF CInv, CountsKept
<1>2. Copies(b)' = Copies(b)
  BY DEF Copies
<1>3. Coming(b)' \in SUBSET Coming(b)
  OBVIOUS
<1>4. IsFiniteSet(Coming(b)') /\ Cardinality(Coming(b)') <= Cardinality(Coming(b))
  BY <1>3, FiniteCounts, FS_Subset
<1>5. Cardinality(Coming(b)') \in Nat
  BY <1>4, FS_CardinalityType
<1> QED
  BY <1>1, <1>2, <1>4, <1>5, FiniteCounts, BegunRange DEF Counted

\* It survives an attempt that adds one request.
LEMMA OneMoreBegun ==
  ASSUME CInv, NEW b \in 1..MaxBars, UNCHANGED candles, NEW q,
         Coming(b)' \subseteq Coming(b) \cup {q}, Begun(b)' = Begun(b) + 1
  PROVE  Counted(b)'
<1>1. Counted(b)
  BY DEF CInv, CountsKept
<1>2. Copies(b)' = Copies(b)
  BY DEF Copies
<1>3. /\ IsFiniteSet(Coming(b) \cup {q})
      /\ Cardinality(Coming(b) \cup {q}) \in Nat
      /\ Cardinality(Coming(b) \cup {q}) <= Cardinality(Coming(b)) + 1
  <2>1. IsFiniteSet(Coming(b)) /\ Cardinality(Coming(b)) \in Nat
    BY FiniteCounts
  <2>2. /\ IsFiniteSet(Coming(b) \cup {q})
        /\ Cardinality(Coming(b) \cup {q}) \in {Cardinality(Coming(b)), Cardinality(Coming(b)) + 1}
    BY <2>1, FS_AddElement
  <2> QED
    BY <2>1, <2>2
<1>4. Coming(b)' \in SUBSET (Coming(b) \cup {q})
  OBVIOUS
<1>5. IsFiniteSet(Coming(b)') /\ Cardinality(Coming(b)') <= Cardinality(Coming(b) \cup {q})
  BY <1>3, <1>4, FS_Subset
<1>6. Cardinality(Coming(b)') \in Nat
  BY <1>5, FS_CardinalityType
<1> QED
  BY <1>1, <1>2, <1>3, <1>5, <1>6, FiniteCounts, BegunRange DEF Counted

\* What RPUSH does to the entries of each bar.
LEMMA PushEntries ==
  ASSUME CInv, NEW c \in 1..MaxBars, candles' = Pushed(candles, c), NEW b
  PROVE  Copies(b)' = IF b = c THEN Copies(b) \cup {Len(candles) + 1} ELSE Copies(b)
<1>1. candles \in Seq(1..MaxBars)
  BY DEF CInv, CountsKept, IInv, TypeOK
<1>2. /\ DOMAIN candles' = DOMAIN candles \cup {Len(candles) + 1}
      /\ \A i \in DOMAIN candles : candles'[i] = candles[i]
      /\ candles'[Len(candles) + 1] = c
      /\ Len(candles) + 1 \notin DOMAIN candles
  BY <1>1 DEF Pushed
<1> QED
  BY <1>2 DEF Copies

\* LTRIM adds no entry of any bar.
LEMMA TrimEntries ==
  ASSUME CInv, candles' = Trimmed(candles), NEW b
  PROVE  /\ IsFiniteSet(Copies(b)') /\ Cardinality(Copies(b)') <= Cardinality(Copies(b))
         /\ \A i \in DOMAIN candles' : \E j \in DOMAIN candles : candles'[i] = candles[j]
<1>1. candles \in Seq(1..MaxBars) /\ Capacity \in Nat \ {0}
  BY Numbers DEF CInv, CountsKept, IInv, TypeOK
<1>2. CASE Len(candles) <= Capacity
  <2>1. candles' = candles
    BY <1>2 DEF Trimmed
  <2>2. Copies(b)' = Copies(b)
    BY <2>1 DEF Copies
  <2> QED
    BY <2>1, <2>2, FiniteCounts
<1>3. CASE Len(candles) > Capacity
  <2> DEFINE k == Len(candles) - Capacity
  <2>1. k \in Nat \ {0} /\ k < Len(candles)
    BY <1>1, <1>3
  <2>2. candles' = SubSeq(candles, k + 1, Len(candles))
    BY <1>1, <1>3 DEF Trimmed
  <2>3. /\ DOMAIN candles' = 1..Capacity
        /\ \A i \in 1..Capacity : i + k \in DOMAIN candles /\ candles'[i] = candles[i + k]
    BY <1>1, <2>1, <2>2
  <2> DEFINE shift == [i \in Copies(b)' |-> i + k]
  <2>4. \A i \in Copies(b)' : i \in Nat /\ i + k \in Copies(b)
    BY <1>1, <2>1, <2>3 DEF Copies
  <2>5. shift \in [Copies(b)' -> Copies(b)]
    BY <2>4
  <2>6. \A i, j \in Copies(b)' : shift[i] = shift[j] => i = j
    BY <2>1, <2>4
  <2>7. shift \in Injection(Copies(b)', Copies(b))
    BY <2>5, <2>6, Fun_IsInj
  <2>8. IsFiniteSet(Copies(b)') /\ Cardinality(Copies(b)') <= Cardinality(Copies(b))
    BY <2>7, FiniteCounts, FS_Injection
  <2> QED
    BY <2>3, <2>8
<1> QED
  BY <1>1, <1>2, <1>3

\* The entries of the list are bars.
LEMMA EntriesAreBars ==
  ASSUME CInv, NEW i \in DOMAIN candles
  PROVE  candles[i] \in 1..MaxBars
<1>1. candles \in Seq(1..MaxBars)
  BY DEF CInv, IInv, TypeOK
<1>2. i \in 1..Len(candles)
  BY <1>1
<1> QED
  BY <1>1, <1>2, ElementOfSeq

\* PostsInOrder survives a step that makes no entry and begins no Post.
LEMMA OrderKept ==
  ASSUME CInv, UNCHANGED candles, bar' \in Nat, bar' >= bar,
         lastBar' \in {lastBar, bar, 0},
         \A r \in requests' : r.id.kind = "candle" =>
           \E q \in requests : q.id.kind = "candle" /\ q.id.item = r.id.item,
         post'.kind = "candle" => post.kind = "candle" /\ post'.item = post.item
  PROVE  PostsInOrder'
<1>1. bar \in Nat /\ lastBar \in Nat /\ candles \in Seq(1..MaxBars) /\ requests \subseteq Request
  BY DEF CInv, CountsKept, IInv, TypeOK
<1>2. \A b \in 1..MaxBars : Past(b) => Past(b)'
  BY <1>1 DEF Past
<1>3. \A i \in DOMAIN candles : candles[i] \in 1..MaxBars
  BY EntriesAreBars
<1>4. \A r \in requests : r.id.kind = "candle" => r.id.item \in 1..MaxBars
  BY <1>1, AttemptFields DEF Request
<1>5. post.kind = "candle" => post.item \in 1..MaxBars
  <2>1. post.kind = "candle" => post \in Attempt
    BY DEF CInv, CountsKept, IInv, TypeOK, NoPost
  <2> QED
    BY <2>1, AttemptFields
<1> QED
  BY <1>2, <1>3, <1>4, <1>5 DEF CInv, CountsKept, PostsInOrder

\* The counts survive a step that makes no entry, sends no candle and begins no
\* attempt of one.
LEMMA NoCandleSent ==
  ASSUME CInv, UNCHANGED candles, bar' \in Nat, bar' >= bar,
         lastBar' \in {lastBar, bar, 0}, IsFiniteSet(requests'),
         \A r \in requests' : r.id.kind = "candle" =>
           \E q \in requests : q.id = r.id /\ (r.at = "sent" => q = r),
         post'.kind = "candle" => post' = post
  PROVE  CountsKept'
<1>1. PostsInOrder'
  BY OrderKept
<1>2. ASSUME NEW b \in 1..MaxBars
      PROVE  Counted(b)'
  <2>1. Coming(b)' \subseteq Coming(b)
    BY DEF Coming
  <2>2. Begun(b)' = IF post'.kind = "candle" THEN Begun(b) ELSE MaxRetries + 1
    BY DEF Begun
  <2>3. Begun(b)' \in Nat /\ Begun(b)' >= Begun(b)
    BY <2>2, BegunRange, Numbers
  <2> QED
    BY <2>1, <2>3, NothingBegun
<1> QED
  BY <1>1, <1>2 DEF CountsKept

\* They survive the end of a request, repeated or not.
LEMMA AnswerCounts ==
  ASSUME CInv, NEW r \in requests, NEW ok \in BOOLEAN, Answer(r, ok),
         UNCHANGED <<bar, lastBar, candles>>
  PROVE  CountsKept'
<1>1. bar \in Nat /\ IsFiniteSet(requests) /\ NoPost.kind # "candle"
  BY DEF CInv, CountsKept, IInv, TypeOK, NoPost
<1>2. CASE requests' = requests \ {r} /\ post' \in {post, NoPost}
  <2>1. requests' \in SUBSET requests
    BY <1>2
  <2>2. IsFiniteSet(requests')
    BY <1>1, <2>1, FS_Subset
  <2> QED
    BY <1>1, <1>2, <2>2, NoCandleSent
<1>3. CASE /\ r.id = post /\ ShouldRetry(post.attempt)
           /\ post' = [post EXCEPT !.attempt = @ + 1]
           /\ requests' = (requests \ {r}) \cup {Sent(post')}
  <2>1. post \in Attempt
    BY <1>3 DEF CInv, IInv, TypeOK, Request
  <2>2. /\ post'.kind = post.kind /\ post'.item = post.item
        /\ post'.attempt = post.attempt + 1
        /\ Sent(post').id = post'
    BY <1>3, <2>1 DEF Attempt, Sent
  <2>3. IsFiniteSet(requests')
    <3>1. requests \ {r} \in SUBSET requests
      OBVIOUS
    <3>2. IsFiniteSet(requests \ {r})
      BY <1>1, <3>1, FS_Subset
    <3> QED
      BY <1>3, <3>2, FS_AddElement
  <2>4. PostsInOrder'
    <3>1. \A q \in requests' : q.id.kind = "candle" =>
            \E p \in requests : p.id.kind = "candle" /\ p.id.item = q.id.item
      <4>1. ASSUME NEW q \in requests', q.id.kind = "candle"
            PROVE  \E p \in requests : p.id.kind = "candle" /\ p.id.item = q.id.item
        <5>1. CASE q \in requests
          BY <4>1, <5>1
        <5>2. CASE q = Sent(post')
          <6>1. r.id.kind = "candle" /\ r.id.item = q.id.item
            BY <1>3, <2>2, <4>1, <5>2
          <6> QED
            BY <6>1
        <5> QED
          BY <1>3, <5>1, <5>2
      <4> QED
        BY <4>1
    <3> QED
      BY <1>1, <2>2, <3>1, OrderKept
  <2>5. ASSUME NEW b \in 1..MaxBars
        PROVE  Counted(b)'
    <3>1. CASE post.kind = "candle" /\ post.item = b
      <4>1. Coming(b)' \subseteq Coming(b) \cup {Sent(post')}
        BY <1>3 DEF Coming
      <4>2. Begun(b)' = Begun(b) + 1
        BY <2>1, <2>2, <3>1, AttemptFields, Numbers DEF Begun
      <4> QED
        BY <4>1, <4>2, OneMoreBegun
    <3>2. CASE ~(post.kind = "candle" /\ post.item = b)
      <4>1. ~(Sent(post').id.kind = "candle" /\ Sent(post').id.item = b)
        BY <2>2, <3>2
      <4>2. requests' \subseteq requests \cup {Sent(post')}
        BY <1>3
      <4>3. Coming(b)' \subseteq Coming(b)
        BY <4>1, <4>2 DEF Coming
      <4>4. Begun(b)' = Begun(b) /\ Begun(b) \in Nat
        BY <2>2, <3>2, Numbers DEF Begun
      <4> QED
        BY <4>3, <4>4, NothingBegun
    <3> QED
      BY <3>1, <3>2
  <2> QED
    BY <2>3, <2>4, <2>5 DEF CountsKept
<1> QED
  BY <1>2, <1>3 DEF Answer, PostReturns

\* They survive the start of a Post of ticks.
LEMMA TickPostCounts ==
  ASSUME CInv, NEW item, StartPost("tick", item), UNCHANGED <<bar, lastBar, candles>>
  PROVE  CountsKept'
<1>1. bar \in Nat /\ IsFiniteSet(requests)
  BY DEF CInv, CountsKept, IInv, TypeOK
<1> DEFINE first == [kind |-> "tick", item |-> item, attempt |-> 0]
<1>2. post' = first /\ requests' = requests \cup {Sent(first)} /\ Sent(first).id = first
  BY DEF StartPost, Sent
<1>3. IsFiniteSet(requests')
  BY <1>1, <1>2, FS_AddElement
<1> QED
  BY <1>1, <1>2, <1>3, NoCandleSent

\* A bar that DetectNewBar sends has left no trace yet.
LEMMA CandlePostCounts ==
  ASSUME CInv, DetectNewBar, StartPost("candle", bar - 1), bar # lastBar, lastBar # 0
  PROVE  CountsKept'
<1>1. /\ bar \in 1..MaxBars /\ lastBar \in 0..MaxBars /\ lastBar <= bar
      /\ IsFiniteSet(requests) /\ requests \subseteq Request
      /\ candles \in Seq(1..MaxBars) /\ UNCHANGED <<bar, candles>> /\ lastBar' = bar
  BY DEF CInv, CountsKept, IInv, TypeOK, DetectNewBar, LastBarAfter, storeVars
<1> DEFINE first == [kind |-> "candle", item |-> bar - 1, attempt |-> 0]
<1>2. post' = first /\ requests' = requests \cup {Sent(first)} /\ Sent(first).id = first
  BY DEF StartPost, Sent
<1>3. IsFiniteSet(requests')
  BY <1>1, <1>2, FS_AddElement
<1>4. ~Past(bar - 1) /\ Past(bar - 1)'
  BY <1>1 DEF Past
<1>5. PostsInOrder'
  <2>1. \A b \in 1..MaxBars : Past(b) => Past(b)'
    BY <1>1 DEF Past
  <2>2. \A r \in requests : r.id.kind = "candle" => r.id.item \in 1..MaxBars
    BY <1>1, AttemptFields DEF Request
  <2>3. \A i \in DOMAIN candles : candles[i] \in 1..MaxBars
    BY EntriesAreBars
  <2> QED
    BY <1>1, <1>2, <1>4, <2>1, <2>2, <2>3 DEF CInv, CountsKept, PostsInOrder
<1>6. ASSUME NEW b \in 1..MaxBars
      PROVE  Counted(b)'
  <2>1. CASE b = bar - 1
    <3>1. Copies(b)' = {}
      BY <1>1, <1>4, <2>1 DEF CInv, CountsKept, PostsInOrder, Copies
    <3>2. Coming(b)' \in SUBSET {Sent(first)}
      BY <1>2, <1>4, <2>1 DEF CInv, CountsKept, PostsInOrder, Coming
    <3>3. IsFiniteSet({Sent(first)}) /\ Cardinality({Sent(first)}) = 1
      BY FS_Singleton
    <3>4. Cardinality(Coming(b)') \in Nat /\ Cardinality(Coming(b)') <= 1
      BY <3>2, <3>3, FS_Subset, FS_CardinalityType
    <3>5. Begun(b)' = 1
      BY <1>2, <2>1 DEF Begun
    <3>6. Cardinality(Copies(b)') = 0
      BY <3>1, FS_EmptySet
    <3> QED
      BY <3>4, <3>5, <3>6 DEF Counted
  <2>2. CASE b # bar - 1
    <3>1. Coming(b)' \subseteq Coming(b)
      BY <1>2, <2>2 DEF Coming
    <3>2. Begun(b)' = MaxRetries + 1
      BY <1>2, <2>2 DEF Begun
    <3>3. Begun(b)' \in Nat /\ Begun(b)' >= Begun(b)
      BY <3>2, BegunRange, Numbers
    <3> QED
      BY <1>1, <3>1, <3>3, NothingBegun
  <2> QED
    BY <2>1, <2>2
<1> QED
  BY <1>3, <1>5, <1>6 DEF CountsKept

\* They survive a step of a request that makes no entry.
LEMMA GoesOnCounts ==
  ASSUME CInv, NEW r \in requests, NEW at, at # "sent", GoesOn(r, at),
         UNCHANGED <<bar, lastBar, candles>>
  PROVE  CountsKept'
<1>1. bar \in Nat /\ IsFiniteSet(requests) /\ r \in Request
  BY DEF CInv, CountsKept, IInv, TypeOK
<1>2. requests \ {r} \in SUBSET requests
  OBVIOUS
<1>3. IsFiniteSet(requests \ {r})
  BY <1>1, <1>2, FS_Subset
<1> DEFINE next == [r EXCEPT !.at = at]
<1>4. requests' = (requests \ {r}) \cup {next} /\ post' = post
  BY DEF GoesOn
<1>5. next.id = r.id /\ next.at = at
  BY <1>1 DEF Request
<1>6. IsFiniteSet(requests')
  BY <1>3, <1>4, FS_AddElement
<1>7. \A q \in requests' : q.id.kind = "candle" =>
        \E p \in requests : p.id = q.id /\ (q.at = "sent" => p = q)
  BY <1>4, <1>5
<1> QED
  BY <1>1, <1>4, <1>6, <1>7, NoCandleSent

\* RPUSH turns a request to come into an entry.
LEMMA PushCounts ==
  ASSUME CInv, NEW r \in requests, PushCandle(r)
  PROVE  CountsKept'
<1>1. /\ bar \in Nat /\ lastBar \in Nat /\ IsFiniteSet(requests)
      /\ candles \in Seq(1..MaxBars) /\ r \in Request
      /\ UNCHANGED <<bar, lastBar, post>>
  BY DEF CInv, CountsKept, IInv, TypeOK, PushCandle, GoesOn, worldVars
<1> DEFINE c == r.id.item
           next == [r EXCEPT !.at = "trim"]
<1>2. /\ r.id.kind = "candle" /\ r.at = "sent" /\ c \in 1..MaxBars
      /\ candles' = Pushed(candles, c)
      /\ requests' = (requests \ {r}) \cup {next}
      /\ next.id = r.id /\ next.at = "trim"
  BY <1>1, AttemptFields DEF PushCandle, GoesOn, Request
<1>3. IsFiniteSet(requests')
  <2>1. requests \ {r} \in SUBSET requests
    OBVIOUS
  <2>2. IsFiniteSet(requests \ {r})
    BY <1>1, <2>1, FS_Subset
  <2> QED
    BY <1>2, <2>2, FS_AddElement
<1>4. Past(c) /\ \A b : Past(b)' = Past(b)
  BY <1>1, <1>2 DEF CInv, CountsKept, PostsInOrder, Past
<1>5. PostsInOrder'
  <2>1. \A i \in DOMAIN candles' : candles'[i] = c \/ \E j \in DOMAIN candles : candles'[i] = candles[j]
    BY <1>1, <1>2 DEF Pushed
  <2> QED
    BY <1>1, <1>2, <1>4, <2>1 DEF CInv, CountsKept, PostsInOrder
<1>6. ASSUME NEW b \in 1..MaxBars
      PROVE  Counted(b)'
  <2>1. Begun(b)' = Begun(b)
    BY <1>1 DEF Begun
  <2>2. Counted(b)
    BY DEF CInv, CountsKept
  <2>3. CASE b = c
    <3>1. Copies(b)' = Copies(b) \cup {Len(candles) + 1}
      BY <1>2, <2>3, PushEntries
    <3>2. Coming(b)' = Coming(b) \ {r} /\ r \in Coming(b)
      BY <1>2, <2>3 DEF Coming
    <3>3. Cardinality(Copies(b)') \in Nat /\ Cardinality(Copies(b)') <= Cardinality(Copies(b)) + 1
      <4>1. IsFiniteSet(Copies(b)) /\ Cardinality(Copies(b)) \in Nat
        BY FiniteCounts
      <4>2. Cardinality(Copies(b)') \in {Cardinality(Copies(b)), Cardinality(Copies(b)) + 1}
        BY <3>1, <4>1, FS_AddElement
      <4> QED
        BY <4>1, <4>2
    <3>4. Cardinality(Coming(b)') = Cardinality(Coming(b)) - 1
      BY <3>2, FiniteCounts, FS_RemoveElement
    <3> QED
      BY <2>1, <2>2, <3>3, <3>4, FiniteCounts, BegunRange DEF Counted
  <2>4. CASE b # c
    <3>1. Copies(b)' = Copies(b)
      BY <1>2, <2>4, PushEntries
    <3>2. Coming(b)' = Coming(b)
      BY <1>2, <2>4 DEF Coming
    <3> QED
      BY <2>1, <2>2, <3>1, <3>2 DEF Counted
  <2> QED
    BY <2>3, <2>4
<1> QED
  BY <1>3, <1>5, <1>6 DEF CountsKept

\* LTRIM only takes entries away.
LEMMA TrimCounts ==
  ASSUME CInv, NEW r \in requests, TrimCandles(r)
  PROVE  CountsKept'
<1>1. /\ IsFiniteSet(requests) /\ r \in Request /\ UNCHANGED <<bar, lastBar, post>>
      /\ candles' = Trimmed(candles) /\ r.at = "trim"
  BY DEF CInv, CountsKept, IInv, TypeOK, TrimCandles, GoesOn, worldVars
<1> DEFINE next == [r EXCEPT !.at = "flush"]
<1>2. requests' = (requests \ {r}) \cup {next} /\ next.id = r.id /\ next.at = "flush"
  BY <1>1 DEF TrimCandles, GoesOn, Request
<1>3. IsFiniteSet(requests')
  <2>1. requests \ {r} \in SUBSET requests
    OBVIOUS
  <2>2. IsFiniteSet(requests \ {r})
    BY <1>1, <2>1, FS_Subset
  <2> QED
    BY <1>2, <2>2, FS_AddElement
<1>4. PostsInOrder'
  <2>1. \A b : Past(b)' = Past(b)
    BY <1>1 DEF Past
  <2>2. \A i \in DOMAIN candles' : \E j \in DOMAIN candles : candles'[i] = candles[j]
    BY <1>1, TrimEntries
  <2> QED
    BY <1>1, <1>2, <2>1, <2>2 DEF CInv, CountsKept, PostsInOrder
<1>5. ASSUME NEW b \in 1..MaxBars
      PROVE  Counted(b)'
  <2>1. Begun(b)' = Begun(b) /\ Counted(b)
    BY <1>1 DEF Begun, CInv, CountsKept
  <2>2. Coming(b)' \in SUBSET Coming(b)
    BY <1>2 DEF Coming
  <2>3. Cardinality(Coming(b)') \in Nat /\ Cardinality(Coming(b)') <= Cardinality(Coming(b))
    BY <2>2, FiniteCounts, FS_Subset, FS_CardinalityType
  <2>4. Cardinality(Copies(b)') \in Nat /\ Cardinality(Copies(b)') <= Cardinality(Copies(b))
    BY <1>1, TrimEntries, FS_CardinalityType
  <2> QED
    BY <2>1, <2>3, <2>4, FiniteCounts, BegunRange DEF Counted
<1> QED
  BY <1>3, <1>4, <1>5 DEF CountsKept

\* Nothing is counted at the start.
LEMMA InitCounts == Init => CountsKept
<1> SUFFICES ASSUME Init PROVE CountsKept
  OBVIOUS
<1>1. IsFiniteSet(requests) /\ PostsInOrder
  BY FS_EmptySet DEF Init, PostsInOrder, NoPost
<1>2. ASSUME NEW b \in 1..MaxBars PROVE Counted(b)
  <2>1. Copies(b) = {} /\ Coming(b) = {} /\ Begun(b) = MaxRetries + 1
    BY DEF Init, Copies, Coming, Begun, NoPost
  <2>2. Cardinality(Copies(b)) = 0 /\ Cardinality(Coming(b)) = 0
    BY <2>1, FS_EmptySet
  <2> QED
    BY <2>1, <2>2, Numbers DEF Counted
<1> QED
  BY <1>1, <1>2 DEF CountsKept

\* Every step keeps the counts.
LEMMA NextCounts == CInv /\ [Next]_vars => CountsKept'
<1> SUFFICES ASSUME CInv, [Next]_vars PROVE CountsKept'
  OBVIOUS
<1>t. /\ bar \in Nat /\ IsFiniteSet(requests) /\ requests \subseteq Request
      /\ NoPost.kind # "candle"
  BY DEF CInv, CountsKept, IInv, TypeOK, NoPost
<1>k. ASSUME UNCHANGED candles, bar' \in Nat, bar' >= bar, lastBar' \in {lastBar, bar, 0},
             requests' \in SUBSET requests, post' \in {post, NoPost}
      PROVE  CountsKept'
  <2>1. IsFiniteSet(requests')
    BY <1>t, <1>k, FS_Subset
  <2> QED
    BY <1>t, <1>k, <2>1, NoCandleSent
<1>1. CASE UNCHANGED vars
  BY <1>1, <1>t, <1>k DEF vars, eaVars, storeVars
<1>2. CASE OnTick
  <2>1. UNCHANGED <<bar, lastBar, candles>>
    BY <1>2 DEF OnTick, storeVars
  <2>2. (\E item : StartPost("tick", item)) \/ UNCHANGED <<post, requests>>
    BY <1>2 DEF OnTick
  <2>3. CASE UNCHANGED <<post, requests>>
    BY <1>t, <1>k, <2>1, <2>3
  <2> QED
    BY <2>1, <2>2, <2>3, TickPostCounts
<1>3. CASE Collect
  <2>1. UNCHANGED <<bar, lastBar, candles>>
    BY <1>3 DEF Collect, storeVars
  <2>2. (\E item : StartPost("tick", item)) \/ UNCHANGED <<post, requests>>
    BY <1>3 DEF Collect
  <2>3. CASE UNCHANGED <<post, requests>>
    BY <1>t, <1>k, <2>1, <2>3
  <2> QED
    BY <2>1, <2>2, <2>3, TickPostCounts
<1>4. CASE DetectNewBar
  <2>1. UNCHANGED <<bar, candles>> /\ lastBar' = bar
    BY <1>4 DEF DetectNewBar, LastBarAfter, storeVars
  <2>2. \/ bar # lastBar /\ lastBar # 0 /\ StartPost("candle", bar - 1)
        \/ UNCHANGED <<post, requests>>
    BY <1>4 DEF DetectNewBar
  <2>3. CASE UNCHANGED <<post, requests>>
    BY <1>t, <1>k, <2>1, <2>3
  <2> QED
    BY <1>4, <2>2, <2>3, CandlePostCounts
<1>5. CASE Timeout
  BY <1>t, <1>k, <1>5 DEF Timeout, PostReturns, storeVars
<1>6. CASE Restart \/ Connect
  BY <1>t, <1>k, <1>6 DEF Restart, Connect, storeVars
<1>7. CASE Serve
  <2>1. PICK r \in requests :
          \/ SetTick(r) \/ PushCandle(r) \/ TrimCandles(r)
          \/ InsertCandle(r) \/ Commit(r) \/ AwaitFails(r)
    BY <1>7 DEF Serve
  <2>2. CASE PushCandle(r)
    BY <2>2, PushCounts
  <2>3. CASE TrimCandles(r)
    BY <2>3, TrimCounts
  <2>4. CASE SetTick(r) \/ Commit(r) \/ AwaitFails(r)
    <3>1. UNCHANGED <<bar, lastBar, candles>>
      BY <2>4 DEF SetTick, Commit, AwaitFails, worldVars, storeVars
    <3>2. Answer(r, TRUE) \/ Answer(r, FALSE)
      BY <2>4 DEF SetTick, Commit, AwaitFails
    <3> QED
      BY <3>1, <3>2, AnswerCounts
  <2>5. CASE InsertCandle(r)
    <3>1. UNCHANGED <<bar, lastBar, candles>>
      BY <2>5 DEF InsertCandle, worldVars, storeVars
    <3>2. Answer(r, FALSE) \/ GoesOn(r, "commit")
      BY <2>5 DEF InsertCandle
    <3> QED
      BY <3>1, <3>2, AnswerCounts, GoesOnCounts
  <2> QED
    BY <2>1, <2>2, <2>3, <2>4, <2>5
<1>8. CASE Lose
  BY <1>t, <1>k, <1>8 DEF Lose, eaVars, storeVars
<1>9. CASE TickExpires \/ BarCloses
  BY <1>t, <1>k, <1>9 DEF TickExpires, BarCloses, eaVars, storeVars
<1> QED
  BY <1>1, <1>2, <1>3, <1>4, <1>5, <1>6, <1>7, <1>8, <1>9 DEF Next

\* A bar is in the Redis list at most once per attempt of one Post, for every
\* number of retries and capacity: no timeout, restart or failure of a store
\* makes the EA send a bar in a second Post.
THEOREM CopiesAreBounded == Spec => []CopiesAreRetries
<1>1. Init => CInv
  BY InitInvariant, InitCounts DEF CInv
<1>2. CInv /\ [Next]_vars => CInv'
  BY NextInvariant, NextCounts DEF CInv
<1>3. CInv => CopiesAreRetries
  <2> SUFFICES ASSUME CInv, NEW b \in 1..MaxBars
               PROVE  Cardinality(Copies(b)) <= MaxRetries + 1
    BY DEF CopiesAreRetries
  <2>1. Counted(b)
    BY DEF CInv, CountsKept
  <2> QED
    BY <2>1, FiniteCounts, BegunRange, Numbers DEF Counted
<1> QED
  BY <1>1, <1>2, <1>3, PTL DEF Spec

-----------------------------------------------------------------------------
(***************************************************************************)
(* What holds while no request has outlived its Post (~outlived).  Until   *)
(* then there is one request at a time, that of the Post which waits; its  *)
(* bar is the last one that closed when the Post began, and its tick the   *)
(* last one of the batch.                                                  *)
(***************************************************************************)
\* The request of the Post, and no other.
Alone ==
  /\ \A r \in requests : r.id = post
  /\ \A q, r \in requests : q = r

InOrder == \A i, j \in DOMAIN candles : i < j => candles[i] <= candles[j]

\* The list is in order, its bars have closed, and the bar on its way is not
\* before any of them.
Ordered ==
  /\ InOrder
  /\ \A i \in DOMAIN candles : candles[i] < bar
  /\ post.kind = "candle" =>
       post.item < bar /\ \A i \in DOMAIN candles : candles[i] <= post.item

\* No tick of the batch, and no batch on its way, is older than the tick in Redis.
Fresh ==
  /\ tick <= ticks
  /\ batch # <<>> => tick <= batch[Len(batch)] /\ batch[Len(batch)] <= ticks
  /\ post.kind = "tick" => tick <= post.item /\ post.item <= ticks

PInv == IInv /\ Alone /\ Ordered /\ Fresh

PatientInv == IInv /\ (outlived \/ PInv)

\* The Post and the batch stay, or are done.
Carried ==
  /\ post' = NoPost \/ (post'.kind = post.kind /\ post'.item = post.item)
  /\ batch' \in {batch, <<>>}

\* The numbers that Ordered and Fresh compare.
LEMMA FeedNumbers ==
  ASSUME IInv
  PROVE  /\ bar \in Nat /\ ticks \in Nat /\ tick \in Nat /\ lastBar \in Nat /\ lastBar <= bar
         /\ candles \in Seq(1..MaxBars) /\ \A i \in DOMAIN candles : candles[i] \in Nat
         /\ post.kind # "none" => post.item \in Nat
         /\ batch \in Seq(1..MaxTicks) /\ (batch # <<>> => batch[Len(batch)] \in 1..MaxTicks)
<1>1. /\ bar \in 1..MaxBars /\ ticks \in 0..MaxTicks /\ tick \in 0..MaxTicks
      /\ lastBar \in 0..MaxBars /\ lastBar <= bar
      /\ candles \in Seq(1..MaxBars) /\ batch \in Seq(1..MaxTicks)
      /\ post \in Attempt \cup {NoPost}
  BY DEF IInv, TypeOK
<1>2. post.kind # "none" => post.item \in Nat
  BY <1>1, Numbers, AttemptFields DEF NoPost
<1>3. batch # <<>> => batch[Len(batch)] \in 1..MaxTicks
  <2>1. \A b \in Seq(1..MaxTicks) : b # <<>> => b[Len(b)] \in 1..MaxTicks
    BY Numbers
  <2> QED
    BY <1>1, <2>1
<1>4. \A i \in DOMAIN candles : candles[i] \in Nat
  <2>1. \A i \in 1..Len(candles) : candles[i] \in 1..MaxBars
    BY <1>1, ElementOfSeq
  <2> QED
    BY <1>1, <2>1
<1> QED
  BY <1>1, <1>2, <1>3, <1>4, Numbers

LEMMA OrderCarried ==
  ASSUME IInv, Ordered, Carried, candles' = candles, bar' \in Nat, bar' >= bar
  PROVE  Ordered'
<1>1. post'.kind = "candle" => post.kind = "candle" /\ post'.item = post.item
  BY DEF Carried, NoPost
<1> QED
  BY <1>1, FeedNumbers DEF Ordered, InOrder

LEMMA FreshCarried ==
  ASSUME IInv, Fresh, Carried, tick' \in {tick, 0}, ticks' \in Nat, ticks' >= ticks
  PROVE  Fresh'
<1>1. post'.kind = "tick" => post.kind = "tick" /\ post'.item = post.item
  BY DEF Carried, NoPost
<1>2. batch' # <<>> => batch' = batch
  BY DEF Carried
<1> QED
  BY <1>1, <1>2, FeedNumbers DEF Fresh

\* The answer to the only request ends its Post or begins the next attempt.
LEMMA AnswerAlone ==
  ASSUME IInv, Alone, NEW r \in requests, NEW ok \in BOOLEAN, Answer(r, ok)
  PROVE  Alone' /\ Carried
<1>1. r.id = post /\ requests \ {r} = {}
  BY DEF Alone
<1>2. CASE ok \/ ~ShouldRetry(post.attempt)
  <2>1. requests' = {} /\ post' = NoPost /\ batch' \in {batch, <<>>}
    BY <1>1, <1>2 DEF Answer, PostReturns
  <2> QED
    BY <2>1 DEF Alone, Carried
<1>3. CASE ~(ok \/ ~ShouldRetry(post.attempt))
  <2>1. /\ post' = [post EXCEPT !.attempt = @ + 1] /\ batch' = batch
        /\ requests' = {Sent(post')}
    BY <1>1, <1>3 DEF Answer
  <2>2. post \in Attempt
    BY <1>1 DEF IInv, TypeOK, Request
  <2>3. post'.kind = post.kind /\ post'.item = post.item
    BY <2>1, <2>2, <1>3, NextAttempt
  <2> QED
    BY <2>1, <2>3 DEF Alone, Carried, Sent
<1> QED
  BY <1>2, <1>3

LEMMA GoesOnAlone ==
  ASSUME IInv, Alone, NEW r \in requests, NEW at, GoesOn(r, at)
  PROVE  Alone' /\ Carried
<1>1. r.id = post /\ requests \ {r} = {}
  BY DEF Alone
<1>2. requests' = {[r EXCEPT !.at = at]} /\ UNCHANGED <<post, batch>>
  BY <1>1 DEF GoesOn
<1>3. [r EXCEPT !.at = at].id = r.id
  BY DEF IInv, TypeOK, Request
<1> QED
  BY <1>1, <1>2, <1>3 DEF Alone, Carried

\* Without a Post there is no request.
LEMMA NothingSent == ASSUME IInv, Alone, post = NoPost PROVE requests = {}
BY AttemptFields DEF IInv, TypeOK, Alone, Request

\* RPUSH of a bar that is not before any in the list, and LTRIM, keep the order.
LEMMA PushOrdered ==
  ASSUME IInv, Ordered, post.kind = "candle", candles' = Pushed(candles, post.item),
         UNCHANGED <<post, bar>>
  PROVE  Ordered'
<1>1. /\ DOMAIN candles' = 1..(Len(candles) + 1)
      /\ \A i \in DOMAIN candles : candles'[i] = candles[i]
      /\ candles'[Len(candles) + 1] = post.item
      /\ DOMAIN candles = 1..Len(candles) /\ Len(candles) \in Nat
  BY FeedNumbers DEF Pushed
<1>2. \A i \in DOMAIN candles' : candles'[i] <= post.item
  BY <1>1, FeedNumbers DEF Ordered
<1>3. \A i, j \in DOMAIN candles' : i < j => candles'[i] <= candles'[j]
  <2> SUFFICES ASSUME NEW i \in DOMAIN candles', NEW j \in DOMAIN candles', i < j
               PROVE  candles'[i] <= candles'[j]
    OBVIOUS
  <2>1. CASE j = Len(candles) + 1
    BY <1>1, <1>2, <2>1
  <2>2. CASE j # Len(candles) + 1
    BY <1>1, <2>2 DEF Ordered, InOrder
  <2> QED
    BY <2>1, <2>2
<1>4. \A i \in DOMAIN candles' : candles'[i] < bar
  BY <1>1, FeedNumbers DEF Ordered
<1> QED
  BY <1>2, <1>3, <1>4, FeedNumbers DEF Ordered, InOrder

LEMMA TrimOrdered ==
  ASSUME IInv, Ordered, candles' = Trimmed(candles), UNCHANGED <<post, bar>>
  PROVE  Ordered'
<1>1. CASE Len(candles) <= Capacity
  BY <1>1, FeedNumbers DEF Trimmed, Ordered, InOrder
<1>2. CASE Len(candles) > Capacity
  <2> DEFINE k == Len(candles) - Capacity
  <2>0. candles \in Seq(1..MaxBars) /\ Len(candles) \in Nat /\ Capacity \in Nat \ {0}
    BY FeedNumbers, Numbers
  <2>1. k \in Nat \ {0} /\ k < Len(candles)
    BY <1>2, <2>0
  <2>s. candles' = SubSeq(candles, k + 1, Len(candles))
    BY <1>2, <2>0 DEF Trimmed
  <2>2. /\ DOMAIN candles' = 1..Capacity
        /\ \A i \in 1..Capacity : i + k \in DOMAIN candles /\ candles'[i] = candles[i + k]
    BY <2>0, <2>1, <2>s
  <2>3. \A i, j \in 1..Capacity : i < j => i + k < j + k
    BY <2>1, Numbers
  <2> QED
    BY <2>2, <2>3 DEF Ordered, InOrder
<1> QED
  BY <1>1, <1>2, Numbers, FeedNumbers

\* StartPost when no request is on its way.
LEMMA StartAlone ==
  ASSUME IInv, Alone, post = NoPost, NEW kind, NEW item, StartPost(kind, item)
  PROVE  Alone' /\ post'.kind = kind /\ post'.item = item
<1>1. requests = {}
  BY NothingSent
<1>2. requests' = {Sent(post')} /\ post'.kind = kind /\ post'.item = item
  BY <1>1 DEF StartPost
<1> QED
  BY <1>2 DEF Alone, Sent

\* The steps of OnTick.
LEMMA TickSteps ==
  ASSUME PInv, OnTick \/ Collect \/ DetectNewBar
  PROVE  (Alone /\ Ordered /\ Fresh)'
<1> USE DEF PInv
<1>n. /\ bar \in Nat /\ ticks \in Nat /\ tick \in Nat /\ lastBar \in Nat /\ lastBar <= bar
      /\ candles \in Seq(1..MaxBars) /\ \A i \in DOMAIN candles : candles[i] \in Nat
      /\ batch \in Seq(1..MaxTicks) /\ (batch # <<>> => batch[Len(batch)] \in 1..MaxTicks)
  BY FeedNumbers
<1>p. post = NoPost
  BY DEF IInv, PostFits, OnTick, Collect, DetectNewBar
<1>1. CASE OnTick
  <2>1. /\ ticks' = ticks + 1
        /\ UNCHANGED <<bar, batch, lastBar, candles, tick>>
    BY <1>1 DEF OnTick, storeVars
  <2>2. CASE batch # <<>> /\ StartPost("tick", batch[Len(batch)])
    <3>1. Alone' /\ post'.kind = "tick" /\ post'.item = batch[Len(batch)]
      BY <1>p, <2>2, StartAlone
    <3>2. Ordered'
      BY <2>1, <3>1 DEF Ordered, InOrder
    <3>3. Fresh'
      BY <1>n, <2>1, <2>2, <3>1 DEF Fresh
    <3> QED
      BY <3>1, <3>2, <3>3
  <2>3. CASE UNCHANGED <<post, requests>>
    BY <1>n, <2>1, <2>3, OrderCarried, FreshCarried DEF Alone, Carried
  <2> QED
    BY <1>1, <2>2, <2>3 DEF OnTick
<1>2. CASE Collect
  <2>1. /\ batch' = IF Len(batch) < BatchSize THEN Append(batch, ticks) ELSE batch
        /\ UNCHANGED <<bar, ticks, lastBar, candles, tick>>
    BY <1>2 DEF Collect, storeVars
  <2>2. batch' # <<>> => tick <= batch'[Len(batch')] /\ batch'[Len(batch')] <= ticks
    <3>1. CASE Len(batch) < BatchSize
      <4>1. batch'[Len(batch')] = ticks
        BY <1>n, <2>1, <3>1
      <4> QED
        BY <1>n, <4>1 DEF Fresh
    <3>2. CASE ~(Len(batch) < BatchSize)
      BY <2>1, <3>2 DEF Fresh
    <3> QED
      BY <3>1, <3>2
  <2>3. CASE batch' # <<>> /\ StartPost("tick", batch'[Len(batch')])
    <3>1. Alone' /\ post'.kind = "tick" /\ post'.item = batch'[Len(batch')]
      BY <1>p, <2>3, StartAlone
    <3>2. Ordered'
      BY <2>1, <3>1 DEF Ordered, InOrder
    <3>3. Fresh'
      BY <2>1, <2>2, <2>3, <3>1 DEF Fresh
    <3> QED
      BY <3>1, <3>2, <3>3
  <2>4. CASE UNCHANGED <<post, requests>>
    <3>1. Alone' /\ Ordered'
      BY <2>1, <2>4 DEF Alone, Ordered, InOrder
    <3>2. Fresh'
      BY <1>p, <2>1, <2>2, <2>4 DEF Fresh, NoPost
    <3> QED
      BY <3>1, <3>2
  <2>5. \A elapsed \in BOOLEAN : ShouldFlushBatch(batch', elapsed) => batch' # <<>>
    <3>1. CASE Len(batch) < BatchSize
      <4>1. Len(batch') >= 1
        BY <1>n, <2>1, <3>1
      <4> QED
        BY <4>1
    <3>2. CASE ~(Len(batch) < BatchSize)
      BY <1>n, <2>1, <3>2, Numbers
    <3> QED
      BY <3>1, <3>2
  <2> QED
    BY <1>2, <2>3, <2>4, <2>5 DEF Collect
<1>3. CASE DetectNewBar
  <2>1. UNCHANGED <<bar, ticks, batch, candles, tick>>
    BY <1>3 DEF DetectNewBar, storeVars
  <2>2. CASE StartPost("candle", bar - 1)
    <3>1. Alone' /\ post'.kind = "candle" /\ post'.item = bar - 1
      BY <1>p, <2>2, StartAlone
    <3>2. \A i \in DOMAIN candles : candles[i] <= bar - 1
      BY <1>n DEF Ordered
    <3>3. Ordered' /\ Fresh'
      BY <1>n, <2>1, <3>1, <3>2 DEF Ordered, InOrder, Fresh
    <3> QED
      BY <3>1, <3>3
  <2>3. CASE UNCHANGED <<post, requests>>
    BY <1>n, <2>1, <2>3, OrderCarried, FreshCarried DEF Alone, Carried
  <2> QED
    BY <1>3, <2>2, <2>3 DEF DetectNewBar
<1> QED
  BY <1>1, <1>2, <1>3

\* The steps of the backend.
LEMMA ServeSteps ==
  ASSUME PInv, Serve
  PROVE  (Alone /\ Ordered /\ Fresh)' /\ (tick' # 0 => tick' >= tick)
<1> USE DEF PInv
<1>n. /\ bar \in Nat /\ ticks \in Nat /\ tick \in Nat
      /\ post.kind # "none" => post.item \in Nat
  BY FeedNumbers
<1>1. PICK r \in requests :
        \/ SetTick(r) \/ PushCandle(r) \/ TrimCandles(r)
        \/ InsertCandle(r) \/ Commit(r) \/ AwaitFails(r)
  BY DEF Serve
<1>2. r.id = post
  BY DEF Alone
<1>w. UNCHANGED <<bar, ticks>>
  BY <1>1 DEF SetTick, PushCandle, TrimCandles, InsertCandle, Commit, AwaitFails, worldVars
<1>3. Alone' /\ Carried
  <2>1. (\E ok \in BOOLEAN : Answer(r, ok)) \/ \E at : GoesOn(r, at)
    BY <1>1 DEF SetTick, PushCandle, TrimCandles, InsertCandle, Commit, AwaitFails
  <2> QED
    BY <2>1, AnswerAlone, GoesOnAlone
<1>4. CASE UNCHANGED <<candles, tick>>
  BY <1>n, <1>w, <1>3, <1>4, OrderCarried, FreshCarried
<1>5. CASE SetTick(r)
  <2>1. post.kind = "tick" /\ tick' = post.item /\ candles' = candles
    BY <1>2, <1>5 DEF SetTick
  <2>2. tick' >= tick /\ tick' <= ticks /\ tick' \in Nat
    BY <1>n, <2>1 DEF Fresh
  <2>3. post' = NoPost /\ batch' = <<>>
    <3>1. post # NoPost
      BY <2>1 DEF NoPost
    <3>2. pc \in {"early", "late"}
      BY <2>1, <3>1 DEF IInv, PostFits
    <3> QED
      BY <1>2, <1>5, <3>2 DEF SetTick, Answer, PostReturns
  <2>4. Fresh'
    BY <1>w, <2>2, <2>3 DEF Fresh, NoPost
  <2>5. Ordered'
    BY <1>n, <1>w, <1>3, <2>1, OrderCarried
  <2> QED
    BY <1>3, <2>2, <2>4, <2>5
<1>6. CASE PushCandle(r)
  <2>1. /\ post.kind = "candle" /\ candles' = Pushed(candles, post.item)
        /\ tick' = tick /\ post' = post
    BY <1>2, <1>6 DEF PushCandle, GoesOn
  <2> QED
    BY <1>n, <1>w, <1>3, <2>1, PushOrdered, FreshCarried
<1>7. CASE TrimCandles(r)
  <2>1. candles' = Trimmed(candles) /\ tick' = tick /\ post' = post
    BY <1>7 DEF TrimCandles, GoesOn
  <2> QED
    BY <1>n, <1>w, <1>3, <2>1, TrimOrdered, FreshCarried
<1> QED
  BY <1>1, <1>4, <1>5, <1>6, <1>7 DEF InsertCandle, Commit, AwaitFails, storeVars

\* While no request has outlived its Post, PInv is kept, and the tick is not replaced
\* by an older one.
LEMMA PatientStep ==
  ASSUME ~outlived, PInv, [Next]_vars
  PROVE  (outlived' \/ PInv') /\ (tick' # 0 => tick' >= tick)
<1> USE DEF PInv
<1>i. IInv'
  BY NextInvariant
<1>n. /\ bar \in Nat /\ ticks \in Nat /\ tick \in Nat
  BY FeedNumbers
<1>1. ASSUME requests' \subseteq requests, Carried, requests' = {} \/ UNCHANGED post,
             UNCHANGED candles, tick' \in {tick, 0}, ticks' = ticks, bar' \in Nat, bar' >= bar
      PROVE  (Alone /\ Ordered /\ Fresh)' /\ (tick' # 0 => tick' >= tick)
  <2>1. Alone'
    BY <1>1 DEF Alone
  <2> QED
    BY <1>n, <1>1, <2>1, OrderCarried, FreshCarried
<1>2. CASE OnTick \/ Collect \/ DetectNewBar
  <2>1. tick' = tick
    BY <1>2 DEF OnTick, Collect, DetectNewBar, storeVars
  <2> QED
    BY <1>i, <1>n, <1>2, <2>1, TickSteps
<1>3. CASE Timeout
  <2>1. /\ post' = NoPost /\ batch' \in {batch, <<>>}
        /\ UNCHANGED <<bar, ticks, requests, candles, tick>>
    BY <1>3 DEF Timeout, PostReturns, storeVars
  <2>2. outlived' \/ requests' = {}
    BY <1>3 DEF Timeout
  <2>3. Carried
    BY <2>1 DEF Carried
  <2> QED
    BY <1>1, <1>i, <1>n, <2>1, <2>2, <2>3
<1>4. CASE Restart
  <2>1. /\ post' = NoPost /\ batch' = <<>>
        /\ UNCHANGED <<bar, ticks, requests, candles, tick>>
    BY <1>4 DEF Restart, storeVars
  <2>2. outlived' \/ requests' = {} \/ post = NoPost
    BY <1>4 DEF Restart
  <2>3. Carried
    BY <2>1 DEF Carried
  <2> QED
    BY <1>1, <1>i, <1>n, <2>1, <2>2, <2>3
<1>5. CASE Connect \/ Lose \/ TickExpires \/ BarCloses \/ UNCHANGED vars
  <2>1. /\ UNCHANGED <<post, batch, ticks, candles>> /\ requests' \subseteq requests
        /\ tick' \in {tick, 0} /\ bar' \in Nat /\ bar' >= bar
    BY <1>5, <1>n DEF Connect, Lose, TickExpires, BarCloses, vars, eaVars, storeVars
  <2>2. Carried
    BY <2>1 DEF Carried
  <2> QED
    BY <1>1, <1>i, <2>1, <2>2
<1>6. CASE Serve
  BY <1>i, <1>6, ServeSteps
<1> QED
  BY <1>2, <1>3, <1>4, <1>5, <1>6 DEF Next

LEMMA PatientInit == Init => PatientInv
<1> SUFFICES ASSUME Init PROVE PatientInv
  OBVIOUS
<1> QED
  BY InitInvariant DEF Init, PatientInv, PInv, Alone, Ordered, InOrder, Fresh, NoPost

\* PatientInv is an invariant: a request that has outlived its Post is not forgotten.
LEMMA PatientNext == PatientInv /\ [Next]_vars => PatientInv'
<1> SUFFICES ASSUME PatientInv, [Next]_vars PROVE PatientInv'
  OBVIOUS
<1>1. IInv'
  BY NextInvariant DEF PatientInv
<1>2. CASE outlived
  <2>1. outlived'
    BY <1>2 DEF Next, Timeout, Restart, vars
  <2> QED
    BY <1>1, <2>1 DEF PatientInv
<1>3. CASE ~outlived
  BY <1>1, <1>3, PatientStep DEF PatientInv
<1> QED
  BY <1>2, <1>3

\* As long as no request has outlived its Post, the list in Redis is in the order of
\* time, whatever is lost, repeated, fails in a store, or restarts.
THEOREM ListIsChronological == Spec => []Chronological
<1>1. PatientInv => Chronological
  BY DEF PatientInv, PInv, Ordered, InOrder, Chronological
<1> QED
  BY <1>1, PatientInit, PatientNext, PTL DEF Spec

\* Under the same condition no tick in Redis is replaced by an older one.
THEOREM TickKeepsPace == Spec => TickNeverGoesBack
<1>1. PatientInv /\ [Next]_vars => [tick' # 0 => outlived \/ tick' >= tick]_vars
  BY PatientStep DEF PatientInv
<1> QED
  BY <1>1, PatientInit, PatientNext, PTL DEF Spec, TickNeverGoesBack
=============================================================================
