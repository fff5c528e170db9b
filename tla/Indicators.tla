----------------------------- MODULE Indicators -----------------------------
(***************************************************************************)
(* The moving averages of the signal engine (indicators/ema.py and         *)
(* indicators/rsi.py) over integer prices, in exact fractions: what the    *)
(* code computes but for the rounding of floating point.                   *)
(***************************************************************************)
EXTENDS Integers, Sequences, FiniteSetsExt

\* A fraction [n, d] has a positive denominator d.
Less(a, b) == a.n * b.d < b.n * a.d

\* Mutant: equal fractions are not at most each other.
StrictlyAtMost(a, b) == Less(a, b)

AtMost(a, b) == ~Less(b, a)

\* The sum of the first k elements of s.
SumOfFirst(s, k) ==
  LET sum[i \in 0..Len(s)] == IF i = 0 THEN 0 ELSE sum[i - 1] + s[i]
  IN  sum[k]

\* The mean of last and x, with weights period - 1 and weight.
Smooth(last, x, period, weight) ==
  [n |-> weight * x * last.d + (period - 1) * last.n,
   d |-> (period - 1 + weight) * last.d]

\* The mean of the first period elements of xs, and then each element smoothed into
\* the average before it.
Smoothed(xs, period, weight) ==
  LET avg[i \in period..Len(xs)] ==
        IF i = period
          THEN [n |-> SumOfFirst(xs, period), d |-> period]
          ELSE Smooth(avg[i - 1], xs[i], period, weight)
  IN  avg

\* Mutant: the first price is the seed.
EmaSeededWithFirst(prices, period) ==
  LET ema[i \in period..Len(prices)] ==
        IF i = period
          THEN [n |-> prices[1], d |-> 1]
          ELSE Smooth(ema[i - 1], prices[i], period, 2)
  IN  [k \in 1..(Len(prices) - period + 1) |-> ema[k + period - 1]]

\* calculate_ema: (x - ema) * 2 / (period + 1) + ema is the mean of the average and
\* the price x with weights period - 1 and 2.
calculate_ema(prices, period) ==
  LET ema == Smoothed(prices, period, 2)
  IN  [k \in 1..(Len(prices) - period + 1) |-> ema[k + period - 1]]

Gain(delta) == IF delta > 0 THEN delta ELSE 0

\* Mutant: every change is a loss.
AbsoluteLoss(delta) == IF delta < 0 THEN -delta ELSE delta

Loss(delta) == IF delta < 0 THEN -delta ELSE 0

\* calculate_rsi: no value for the first period deltas; 100 without a loss, and
\* otherwise 100 - 100 / (1 + gain / loss) = 100 * gain / (gain + loss), where the
\* averages of Wilder have the same denominator.
calculate_rsi(prices, period) ==
  LET deltas == [i \in 1..(Len(prices) - 1) |-> prices[i + 1] - prices[i]]
      gain   == Smoothed([i \in DOMAIN deltas |-> Gain(deltas[i])], period, 1)
      loss   == Smoothed([i \in DOMAIN deltas |-> Loss(deltas[i])], period, 1)
  IN  [k \in 1..(Len(deltas) - period) |->
         LET g == gain[k + period].n
             l == loss[k + period].n
         IN  IF l = 0 THEN [n |-> 100, d |-> 1] ELSE [n |-> 100 * g, d |-> g + l]]
=============================================================================
