---------------------------- MODULE SignalEngine ----------------------------
(***************************************************************************)
(* The decision to trade: SignalEngine.check_signal on the closes of the   *)
(* candle list in Redis, called by StateManager for SCAN_SIGNAL ->         *)
(* AI_CONFIRMATION, with the command that TradeOrchestrator makes of it.   *)
(*                                                                         *)
(* receive_candle pushes a candle and trims the list in two commands of    *)
(* its own; a scan may read the list between them.  The averages are       *)
(* computed anew, from the first candle of the list, in every scan.        *)
(***************************************************************************)
EXTENDS Indicators

CONSTANTS
  FastPeriod, SlowPeriod, RsiPeriod,  \* ema_fast_period, ema_slow_period, rsi_period
  Overbought, Oversold,               \* rsi_overbought, rsi_oversold
  MaxSpread,                          \* max_spread_points
  StopLoss, TakeProfit,               \* stop_loss_points, take_profit_points
  London, NewYork,                    \* first hour and hour after the last one
  Capacity,                           \* candles kept in the list
  Prices,                             \* closes of candles, in points
  Ticks,                              \* ticks that may be at market:tick:{symbol}
  Hours                               \* hours of the day at which a scan comes

NoTick == [bid |-> 0, ask |-> 0, spread |-> 0]

ASSUME PeriodAssumption ==
  {FastPeriod, SlowPeriod, RsiPeriod} \subseteq Nat \ {0, 1}
ASSUME ThresholdAssumption == Overbought \in 50..99 /\ Oversold \in 1..50
ASSUME CapacityAssumption == Capacity \in Nat \ {0}
ASSUME PriceAssumption ==
  /\ Prices \subseteq Nat
  /\ \A t \in Ticks : t.bid \in Nat \ {0} /\ t.spread \in Nat /\ t.ask = t.bid + t.spread
ASSUME LevelAssumption == {MaxSpread, StopLoss, TakeProfit} \subseteq Nat \ {0}
ASSUME HourAssumption ==
  Hours \subseteq 0..23 /\ {London, NewYork} \subseteq (0..23) \X (0..23)

VARIABLES
  closes,   \* the closes of market:candles:{symbol}:{timeframe}
  pushed,   \* a candle has been pushed and the list not yet trimmed
  answer,   \* the answer to the last scan
  crossed,  \* history: direction of the last crossing of the averages
  trimmed   \* history: the list has lost a candle

vars == <<closes, pushed, answer, crossed, trimmed>>

-----------------------------------------------------------------------------
(***************************************************************************)
(* check_signal.                                                           *)
(***************************************************************************)
is_in_session(hour) ==
  \E session \in {London, NewYork} : session[1] <= hour /\ hour < session[2]

\* The k-th value from the end.
FromEnd(s, k) == s[Len(s) + 1 - k]

\* The average a was not above b before the last value and is above it now.
CrossesAbove(a, b) ==
  /\ Len(a) >= 2 /\ Len(b) >= 2
  /\ AtMost(FromEnd(a, 2), FromEnd(b, 2))
  /\ Less(FromEnd(b, 1), FromEnd(a, 1))

\* Mutant: the two periods are exchanged.
CrossingOfExchanged(s) ==
  LET fast == calculate_ema(s, SlowPeriod)
      slow == calculate_ema(s, FastPeriod)
  IN  CASE CrossesAbove(fast, slow) -> "BUY"
        [] CrossesAbove(slow, fast) -> "SELL"
        [] OTHER -> "none"

\* The crossing at the last candle.
Crossing(s) ==
  LET fast == calculate_ema(s, FastPeriod)
      slow == calculate_ema(s, SlowPeriod)
  IN  CASE CrossesAbove(fast, slow) -> "BUY"
        [] CrossesAbove(slow, fast) -> "SELL"
        [] OTHER -> "none"

\* The crossing, if RSI confirms it.
Direction(s) ==
  LET rsi     == calculate_rsi(s, RsiPeriod)
      percent == [p \in {Overbought, Oversold} |-> [n |-> p, d |-> 1]]
      confirmed ==
        [BUY  |-> Less(FromEnd(rsi, 1), percent[Overbought]),
         SELL |-> Less(percent[Oversold], FromEnd(rsi, 1))]
  IN  IF Len(rsi) >= 1 /\ Crossing(s) # "none" /\ confirmed[Crossing(s)]
        THEN Crossing(s) ELSE "none"

NoCommand == [type |-> "none", stop_loss |-> 0, take_profit |-> 0]

\* BUY at the ask and SELL at the bid, with both levels at a fixed distance.
construct_trade_command(type, tick) ==
  IF type = "BUY"
    THEN [type |-> type, stop_loss |-> tick.ask - StopLoss,
          take_profit |-> tick.ask + TakeProfit]
    ELSE [type |-> type, stop_loss |-> tick.bid + StopLoss,
          take_profit |-> tick.bid - TakeProfit]

\* Guards that answer before the tick is looked at.
Skipped(s, hour) == Len(s) < SlowPeriod \/ ~is_in_session(hour)

\* Mutant: a spread at the limit is let through.
TooWideAbove(tick) == tick.spread > MaxSpread

TooWide(tick) == tick.spread >= MaxSpread

\* "raises": without a tick there is no spread to look at.
check_signal(s, tick, hour, open) ==
  CASE Skipped(s, hour) -> "none"
    [] ~Skipped(s, hour) /\ tick = NoTick -> "raises"
    [] OTHER -> IF TooWide(tick) \/ open THEN "none" ELSE Direction(s)

\* What a scan comes to; tick is the one a command was made for.
Answer(result, tick, command) ==
  [result |-> result, tick |-> tick, command |-> command]

-----------------------------------------------------------------------------
Init ==
  /\ closes = <<>>
  /\ pushed = FALSE
  /\ answer = Answer("none", NoTick, NoCommand)
  /\ crossed = "none"
  /\ trimmed = FALSE

\* receive_candle, RPUSH.
PushCandle ==
  /\ ~pushed
  /\ pushed' = TRUE
  /\ \E p \in Prices : closes' = Append(closes, p)
  /\ crossed' = IF Crossing(closes') = "none" THEN crossed ELSE Crossing(closes')
  /\ UNCHANGED <<answer, trimmed>>

\* Mutant: one candle too many is kept.
TrimmedLate(s) == IF Len(s) > Capacity + 1 THEN Tail(s) ELSE s

\* The last Capacity candles of a list with at most one more.
Trimmed(s) == IF Len(s) > Capacity THEN Tail(s) ELSE s

\* receive_candle, LTRIM.
TrimCandles ==
  /\ pushed
  /\ pushed' = FALSE
  /\ closes' = Trimmed(closes)
  /\ trimmed' = (trimmed \/ closes' # closes)
  /\ UNCHANGED <<answer, crossed>>

\* SCAN_SIGNAL -> AI_CONFIRMATION.  The tick and the position that are read after
\* the candles may be anything: an expired key, a position of either kind.
Scan ==
  /\ \E tick \in Ticks \cup {NoTick}, hour \in Hours, open \in BOOLEAN :
       LET result == check_signal(closes, tick, hour, open)
       IN  answer' = IF result \in {"BUY", "SELL"}
                       THEN Answer(result, tick, construct_trade_command(result, tick))
                       ELSE Answer(result, NoTick, NoCommand)
  /\ UNCHANGED <<closes, pushed, crossed, trimmed>>

Next == PushCandle \/ TrimCandles \/ Scan

Spec == Init /\ [][Next]_vars

-----------------------------------------------------------------------------
\* Every variable has its type; the list is over its capacity by the candle that
\* has just been pushed at most.
TypeOK ==
  /\ closes \in Seq(Prices)
  /\ Len(closes) <= Capacity + (IF pushed THEN 1 ELSE 0)
  /\ pushed \in BOOLEAN /\ trimmed \in BOOLEAN
  /\ crossed \in {"none", "BUY", "SELL"}
  /\ answer.result \in {"none", "raises", "BUY", "SELL"}
  /\ answer.tick \in Ticks \cup {NoTick}
  /\ answer.command.type \in {"none", "BUY", "SELL"}

\* The powers of b up to the n-th.
Powers(b, n) ==
  LET power[i \in 0..n] == IF i = 0 THEN 1 ELSE b * power[i - 1]
  IN  power

\* The first k prices after the seed, each times its weight in the average after the
\* k-th, over the denominator p (p + 1)^k.
WeightedPrices(s, p, k) ==
  LET up   == Powers(p + 1, Len(s))
      down == Powers(p - 1, Len(s))
  IN  [j \in 1..k |-> 2 * p * down[k - j] * up[j - 1] * s[p + j]]

\* Each value of calculate_ema is a weighted mean of the prices up to it: the seed
\* weighs ((p - 1) / (p + 1))^k, the j-th price after it 2 (p - 1)^(k-j) / (p + 1)^(k-j+1).
EmaIsWeightedMean ==
  \A p \in {FastPeriod, SlowPeriod} :
    LET ema == calculate_ema(closes, p)
    IN  \A k \in 0..(Len(closes) - p) :
          LET seed  == Powers(p - 1, Len(closes))[k] * SumOfFirst(closes, p)
              later == SumOfFirst(WeightedPrices(closes, p, k), k)
          IN  ema[k + 1].n * (p * Powers(p + 1, Len(closes))[k]) = ema[k + 1].d * (seed + later)

\* A signal is not against all that the list shows: without a fall in it there is no
\* SELL, and without a rise no BUY, whatever the averages forget and RSI confirms.
NoSignalAgainstTrend ==
  /\ Direction(closes) = "SELL" => \E i \in 2..Len(closes) : closes[i] < closes[i - 1]
  /\ Direction(closes) = "BUY"  => \E i \in 2..Len(closes) : closes[i] > closes[i - 1]

Mirrored(s) == [i \in DOMAIN s |-> -s[i]]
Opposite == [BUY |-> "SELL", SELL |-> "BUY", none |-> "none"]

\* Neither direction is favoured: with thresholds at the same distance from 50 the
\* mirrored market gives the opposite signal.
MirrorSymmetry ==
  Overbought + Oversold = 100 =>
    Direction(Mirrored(closes)) = Opposite[Direction(closes)]

\* The side of the slow average the fast one is on at the end of s.
Side(s) ==
  LET fast == FromEnd(calculate_ema(s, FastPeriod), 1)
      slow == FromEnd(calculate_ema(s, SlowPeriod), 1)
  IN  CASE Less(slow, fast) -> "BUY"
        [] Less(fast, slow) -> "SELL"
        [] OTHER -> "none"

LongestPeriod == Max({FastPeriod, SlowPeriod})

\* No crossing is missed while the list keeps all its candles, however long the
\* averages stay equal: the fast one is on the side to which the last crossing
\* seen took it, or has been there from the first value on.
SideFollowsCrossing ==
  ~trimmed /\ Len(closes) >= LongestPeriod /\ Side(closes) # "none" =>
    Side(closes) = (IF crossed = "none" THEN Side(SubSeq(closes, 1, LongestPeriod))
                    ELSE crossed)

\* With levels at least as far away as the widest spread, the market that a command
\* was made for lies between its levels: it does not close at once.
LevelsBracketMarket ==
  MaxSpread <= StopLoss =>
    /\ answer.command.type = "BUY" =>
         answer.command.stop_loss < answer.tick.bid /\ answer.tick.ask < answer.command.take_profit
    /\ answer.command.type = "SELL" =>
         answer.tick.ask < answer.command.stop_loss /\ answer.command.take_profit < answer.tick.bid
=============================================================================
