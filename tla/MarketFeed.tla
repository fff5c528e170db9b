----------------------------- MODULE MarketFeed -----------------------------
(***************************************************************************)
(* Market data on its way from the terminal to the signal engine: the tick *)
(* batches and closed bars that CMarketCollector collects in OnTick, the   *)
(* retries of CHttpClient.Post, and the coroutines of the market router    *)
(* that write them to Redis and PostgreSQL.                                *)
(*                                                                         *)
(* OnTick blocks in Post, one request at a time.  A Post that times out is *)
(* given up by the EA, but its request may still be on its way or running  *)
(* in the backend, beside the requests that follow.  The backend is one    *)
(* event loop: coroutines interleave at their awaits.                      *)
(***************************************************************************)
EXTENDS Integers, Sequences, FiniteSets

CONSTANTS
  BatchSize,   \* MARKET_MAX_BATCH_SIZE
  Capacity,    \* candles kept in the Redis list
  MaxRetries,  \* m_maxRetries of the HTTP client
  Failing,     \* the stores that may fail: a subset of {"redis", "postgres"}
  MaxBars,     \* bound: bars that begin
  MaxTicks     \* bound: ticks that arrive

ASSUME BatchAssumption    == BatchSize \in Nat \ {0}
ASSUME CapacityAssumption == Capacity \in Nat \ {0}
ASSUME RetriesAssumption  == MaxRetries \in Nat
ASSUME FailingAssumption  == Failing \subseteq {"redis", "postgres"}
ASSUME BoundsAssumption   == MaxBars \in Nat \ {0} /\ MaxTicks \in Nat

VARIABLES
  bar,         \* number of the bar that is forming; bar - 1 closed last
  ticks,       \* ticks seen so far; they are numbered from 1
  pc,          \* where OnTick is
  collecting,  \* IsStateAllowed: the state is past CONNECT
  batch,       \* the first m_tickCount entries of m_tickBuffer
  lastBar,     \* g_lastBarTime; 0 before the first tick
  post,        \* the attempt of Post that waits for an answer
  requests,    \* requests on their way to or running in the backend
  candles,     \* the list market:candles:{symbol}:{timeframe} in Redis
  tick,        \* the tick at market:tick:{symbol} in Redis; 0 when expired
  stored,      \* bars with a committed row in the table candles
  outlived     \* history: a request was still under way when its Post was given up

eaVars    == <<pc, collecting, batch, lastBar, post>>
storeVars == <<candles, tick, stored>>
vars == <<bar, ticks, eaVars, requests, storeVars, outlived>>

\* One attempt of one Post: a tick batch is known by its last tick.
Attempt == [kind : {"tick"}, item : 1..MaxTicks, attempt : 0..MaxRetries]
           \cup [kind : {"candle"}, item : 1..MaxBars, attempt : 0..MaxRetries]
NoPost  == [kind |-> "none", item |-> 0, attempt |-> 0]

\* A coroutine by the await it has reached; "sent" is the way to the backend.
Stage   == {"sent", "trim", "flush", "commit"}
Request == [id : Attempt, at : Stage]

Sent(a) == [id |-> a, at |-> "sent"]

-----------------------------------------------------------------------------
Init ==
  /\ bar = 1
  /\ ticks = 0
  /\ pc = "idle"
  /\ collecting \in BOOLEAN
  /\ batch = <<>>
  /\ lastBar = 0
  /\ post = NoPost
  /\ requests = {}
  /\ candles = <<>>
  /\ tick = 0
  /\ stored = {}
  /\ outlived = FALSE

(***************************************************************************)
(* OnTick: flush an old batch, collect the tick, flush a full batch, send  *)
(* the bar that closed.  pc "early", "late" and "bar" wait in the Post of  *)
(* these three.                                                            *)
(***************************************************************************)
\* Post begins with its first attempt.
StartPost(kind, item) ==
  LET first == [kind |-> kind, item |-> item, attempt |-> 0]
  IN  /\ post' = first
      /\ requests' = requests \cup {Sent(first)}

\* Mutant: one tick too late.
ShouldFlushLate(b, elapsed) == Len(b) > BatchSize \/ (b # <<>> /\ elapsed)

\* Ten ticks, or MARKET_BATCH_WINDOW_MS since the first of them.
ShouldFlushBatch(b, elapsed) == Len(b) >= BatchSize \/ (b # <<>> /\ elapsed)

OnTick ==
  /\ pc = "idle"
  /\ ticks < MaxTicks
  /\ ticks' = ticks + 1
  /\ \E elapsed \in BOOLEAN :
       IF collecting /\ batch # <<>> /\ ShouldFlushBatch(batch, elapsed)
         THEN /\ pc' = "early"
              /\ StartPost("tick", batch[Len(batch)])
         ELSE /\ pc' = IF collecting THEN "collect" ELSE "newbar"
              /\ UNCHANGED <<post, requests>>
  /\ UNCHANGED <<bar, collecting, batch, lastBar, storeVars>>

\* A tick that finds the buffer full is dropped.  A batch that has just begun
\* is not old.
Collect ==
  /\ pc = "collect"
  /\ batch' = IF Len(batch) < BatchSize THEN Append(batch, ticks) ELSE batch
  /\ \E elapsed \in BOOLEAN :
       /\ elapsed => Len(batch') > 1
       /\ IF ShouldFlushBatch(batch', elapsed)
            THEN /\ pc' = "late"
                 /\ StartPost("tick", batch'[Len(batch')])
            ELSE /\ pc' = "newbar"
                 /\ UNCHANGED <<post, requests>>
  /\ UNCHANGED <<bar, ticks, collecting, lastBar, storeVars>>

\* Mutant: g_lastBarTime is assigned in the first call only.
FirstBarOnly(current) == IF lastBar = 0 THEN current ELSE lastBar

\* g_lastBarTime after the detection of a new bar.
LastBarAfter(current) == current

\* Only the bar before the current one is sent, however many have closed since
\* lastBar; the first bar that is seen after a start is not sent.
DetectNewBar ==
  /\ pc = "newbar"
  /\ lastBar' = LastBarAfter(bar)
  /\ IF bar # lastBar /\ lastBar # 0 /\ collecting
       THEN /\ pc' = "bar"
            /\ StartPost("candle", bar - 1)
       ELSE /\ pc' = "idle"
            /\ UNCHANGED <<post, requests>>
  /\ UNCHANGED <<bar, ticks, collecting, batch, storeVars>>

\* Post returns: FlushTickBatch empties the buffer, OnTick goes on.
PostReturns ==
  /\ post' = NoPost
  /\ pc' = [early |-> "collect", late |-> "newbar", bar |-> "idle"][pc]
  /\ batch' = IF pc \in {"early", "late"} THEN <<>> ELSE batch

\* WebRequest returns -1: the attempt is given up and not repeated.
Timeout ==
  /\ post # NoPost
  /\ PostReturns
  /\ outlived' = (outlived \/ requests # {})
  /\ UNCHANGED <<bar, ticks, collecting, lastBar, requests, storeVars>>

\* The EA is initialized again, keeping its globals or not, or it is killed in
\* the middle of a Post.
Restart ==
  /\ pc = "idle" \/ post # NoPost
  /\ lastBar' \in IF pc = "idle" THEN {lastBar, 0} ELSE {0}
  /\ pc' = "idle"
  /\ collecting' \in BOOLEAN
  /\ batch' = <<>>
  /\ post' = NoPost
  /\ outlived' = (outlived \/ (post # NoPost /\ requests # {}))
  /\ UNCHANGED <<bar, ticks, requests, storeVars>>

\* The state of the EA leaves CONNECT.
Connect ==
  /\ pc = "idle" /\ ~collecting
  /\ collecting' = TRUE
  /\ UNCHANGED <<bar, ticks, pc, batch, lastBar, post, requests, storeVars>>

-----------------------------------------------------------------------------
(***************************************************************************)
(* The market router.  A request that fails is answered with 500, which    *)
(* the EA repeats; nobody waits for the answer to a request given up.      *)
(***************************************************************************)
\* Mutant: one retry too many.
RetryOnceMore(attempt) == attempt <= MaxRetries

ShouldRetry(attempt) == attempt < MaxRetries

\* Mutant: the attempt that failed is left running beside its repetition.
AnswerAndLeave(r, ok) ==
  IF r.id = post /\ ~ok /\ ShouldRetry(post.attempt)
    THEN /\ post' = [post EXCEPT !.attempt = @ + 1]
         /\ requests' = requests \cup {Sent(post')}
         /\ UNCHANGED <<pc, batch>>
    ELSE /\ requests' = requests \ {r}
         /\ IF r.id = post THEN PostReturns ELSE UNCHANGED <<post, pc, batch>>

\* Request r ends with status 200 (ok) or 500.
Answer(r, ok) ==
  IF r.id # post
    THEN /\ requests' = requests \ {r}
         /\ UNCHANGED <<post, pc, batch>>
    ELSE IF ok \/ ~ShouldRetry(post.attempt)
      THEN /\ requests' = requests \ {r}
           /\ PostReturns
      ELSE /\ post' = [post EXCEPT !.attempt = @ + 1]
           /\ requests' = (requests \ {r}) \cup {Sent(post')}
           /\ UNCHANGED <<pc, batch>>

\* Request r goes on to its next await.
GoesOn(r, at) ==
  /\ requests' = (requests \ {r}) \cup {[r EXCEPT !.at = at]}
  /\ UNCHANGED <<post, pc, batch>>

worldVars == <<bar, ticks, collecting, lastBar>>

\* receive_tick: SET with a time to live.
SetTick(r) ==
  /\ r.id.kind = "tick"
  /\ tick' = r.id.item
  /\ Answer(r, TRUE)
  /\ UNCHANGED <<worldVars, candles, stored>>

\* Mutant: LPUSH.
LeftPushed(s, b) == <<b>> \o s

\* RPUSH.
Pushed(s, b) == Append(s, b)

\* receive_candle, first await.
PushCandle(r) ==
  /\ r.id.kind = "candle" /\ r.at = "sent"
  /\ candles' = Pushed(candles, r.id.item)
  /\ GoesOn(r, "trim")
  /\ UNCHANGED <<worldVars, tick, stored>>

Trimmed(s) ==
  IF Len(s) <= Capacity THEN s ELSE SubSeq(s, Len(s) - Capacity + 1, Len(s))

\* Second await: LTRIM.
TrimCandles(r) ==
  /\ r.at = "trim"
  /\ candles' = Trimmed(candles)
  /\ GoesOn(r, "flush")
  /\ UNCHANGED <<worldVars, tick, stored>>

\* The unique key of the table candles.
HasRow(b) == b \in stored

\* Third await: INSERT, which waits for another transaction with the same key
\* and fails if its row is there.
InsertCandle(r) ==
  /\ r.at = "flush"
  /\ ~\E q \in requests : q.at = "commit" /\ q.id.item = r.id.item
  /\ IF HasRow(r.id.item) THEN Answer(r, FALSE) ELSE GoesOn(r, "commit")
  /\ UNCHANGED <<worldVars, storeVars>>

\* get_db commits when the handler has returned.
Commit(r) ==
  /\ r.at = "commit"
  /\ stored' = stored \cup {r.id.item}
  /\ Answer(r, TRUE)
  /\ UNCHANGED <<worldVars, candles, tick>>

\* An await raises: what was written to Redis before it stays written, what was
\* written to the database is rolled back.
AwaitFails(r) ==
  /\ IF r.at \in {"sent", "trim"} THEN "redis" \in Failing ELSE "postgres" \in Failing
  /\ Answer(r, FALSE)
  /\ UNCHANGED <<worldVars, storeVars>>

Serve ==
  \E r \in requests :
    \/ SetTick(r) \/ PushCandle(r) \/ TrimCandles(r)
    \/ InsertCandle(r) \/ Commit(r) \/ AwaitFails(r)

\* A request is lost on the way, or a process dies with all that run in it.
Lose ==
  /\ requests # {}
  /\ \/ \E r \in requests : r.at = "sent" /\ requests' = requests \ {r}
     \/ requests' = {}
  /\ UNCHANGED <<bar, ticks, eaVars, storeVars>>

\* 60 seconds without a tick.
TickExpires ==
  /\ tick # 0
  /\ tick' = 0
  /\ UNCHANGED <<bar, ticks, eaVars, requests, candles, stored>>

\* The market moves on to the next bar.
BarCloses ==
  /\ bar < MaxBars
  /\ bar' = bar + 1
  /\ UNCHANGED <<ticks, eaVars, requests, storeVars>>

Next ==
  \/ Timeout \/ Restart
  \/ /\ \/ OnTick \/ Collect \/ DetectNewBar \/ Connect
        \/ Serve \/ Lose \/ TickExpires \/ BarCloses
     /\ UNCHANGED outlived

Spec == Init /\ [][Next]_vars

-----------------------------------------------------------------------------
\* Every variable has its type; the batch fits m_tickBuffer, and no Post makes
\* more attempts than m_maxRetries allows.
TypeOK ==
  /\ bar \in 1..MaxBars /\ ticks \in 0..MaxTicks
  /\ pc \in {"idle", "early", "collect", "late", "newbar", "bar"}
  /\ collecting \in BOOLEAN
  /\ batch \in Seq(1..MaxTicks) /\ Len(batch) <= BatchSize
  /\ lastBar \in 0..MaxBars
  /\ post \in Attempt \cup {NoPost}
  /\ requests \subseteq Request
  /\ candles \in Seq(1..MaxBars)
  /\ tick \in 0..MaxTicks
  /\ stored \subseteq 1..MaxBars
  /\ outlived \in BOOLEAN

\* No tick finds the buffer of CMarketCollector full: the branch of OnTick that
\* drops a tick is never taken, whatever the timing of the flushes.
NoTickDropped == pc = "collect" => Len(batch) < BatchSize

Copies(b) == {i \in DOMAIN candles : candles[i] = b}

\* A bar is in the Redis list at most once per attempt of one Post, however
\* timeouts, retries, restarts and failures of the stores combine.
CopiesAreRetries == \A b \in 1..MaxBars : Cardinality(Copies(b)) <= MaxRetries + 1

\* As long as no request has outlived its Post, the list is in the order of time,
\* most recent last, as the signal engine takes it to be: lost requests, repeated
\* attempts, failures of the stores and restarts do not disturb it.
Chronological ==
  outlived \/ \A i, j \in DOMAIN candles : i < j => candles[i] <= candles[j]

\* As long as no request has outlived its Post, the tick in Redis is never replaced
\* by an older one, whatever is lost, repeated, fails or restarts, and although the
\* key expires in between.
TickNeverGoesBack == [][tick' # 0 => outlived \/ tick' >= tick]_vars
=============================================================================
