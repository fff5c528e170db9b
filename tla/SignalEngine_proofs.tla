------------------------ MODULE SignalEngine_proofs ------------------------
(***************************************************************************)
(* Theorems about SignalEngine, for all periods, thresholds, levels,       *)
(* prices, ticks and hours.  Types and levels hold whatever the averages   *)
(* are; crossings and signals rest on the lemmas of Indicators_proofs.     *)
(***************************************************************************)
EXTENDS SignalEngine, Indicators_proofs

Results == {"none", "BUY", "SELL"}

\* A command is the one that construct_trade_command makes of the signal, for a tick
\* whose spread was looked at.
MadeForTick ==
  \/ answer.command = NoCommand
  \/ /\ answer.command.type \in {"BUY", "SELL"}
     /\ answer.tick \in Ticks /\ answer.tick.spread < MaxSpread
     /\ answer.command = construct_trade_command(answer.command.type, answer.tick)

IInv == TypeOK /\ MadeForTick

\* The bounds are used as numbers.
LEMMA Numbers ==
  /\ Capacity \in Nat /\ MaxSpread \in Nat /\ StopLoss \in Nat /\ TakeProfit \in Nat
  /\ TakeProfit > 0
  /\ \A t \in Ticks : t.bid \in Nat /\ t.spread \in Nat /\ t.ask = t.bid + t.spread
BY CapacityAssumption, PriceAssumption, LevelAssumption

\* What the engine may answer, and when it comes to a command.
LEMMA Answers ==
  ASSUME NEW s, NEW tick, NEW hour, NEW open
  PROVE  /\ Crossing(s) \in Results /\ Direction(s) \in Results
         /\ check_signal(s, tick, hour, open) \in Results \cup {"raises"}
         /\ check_signal(s, tick, hour, open) \in {"BUY", "SELL"} =>
              tick # NoTick /\ ~TooWide(tick)
<1>1. Crossing(s) \in Results
  BY DEF Crossing, Results
<1>2. Direction(s) \in Results
  BY <1>1 DEF Direction, Results
<1> QED
  BY <1>1, <1>2 DEF check_signal, Results

\* The list is empty at first.
LEMMA InitIInv == Init => IInv
<1> SUFFICES ASSUME Init PROVE IInv
  OBVIOUS
<1>1. closes \in Seq(Prices) /\ Len(closes) = 0
  BY DEF Init
<1>2. MadeForTick
  BY DEF Init, MadeForTick, Answer
<1>3. TypeOK
  <2>1. Len(closes) <= Capacity + (IF pushed THEN 1 ELSE 0)
    BY <1>1, Numbers DEF Init
  <2>2. /\ answer.result = "none" /\ answer.tick = NoTick /\ answer.command.type = "none"
    BY DEF Init, Answer, NoCommand
  <2>3. pushed \in BOOLEAN /\ trimmed \in BOOLEAN /\ crossed \in {"none", "BUY", "SELL"}
    BY DEF Init
  <2> QED
    BY <1>1, <2>1, <2>2, <2>3 DEF TypeOK
<1> QED
  BY <1>2, <1>3 DEF IInv

\* A candle is pushed only onto a list that has been trimmed.
LEMMA PushStep == IInv /\ PushCandle => IInv'
<1> SUFFICES ASSUME IInv, PushCandle PROVE IInv'
  OBVIOUS
<1> USE Numbers DEF IInv, TypeOK, PushCandle
<1>1. PICK p \in Prices : closes' = Append(closes, p)
  OBVIOUS
<1>2. closes' \in Seq(Prices) /\ Len(closes') = Len(closes) + 1
  BY <1>1, AppendProperties
<1>3. Len(closes) <= Capacity /\ Len(closes) \in Nat
  BY LenProperties
<1>4. Len(closes') <= Capacity + (IF pushed' THEN 1 ELSE 0)
  BY <1>2, <1>3
<1>5. crossed' \in Results
  BY Answers DEF Results
<1> QED
  BY <1>2, <1>4, <1>5 DEF MadeForTick, Results

\* LTRIM drops the one candle too many.
LEMMA TrimStep == IInv /\ TrimCandles => IInv'
<1> SUFFICES ASSUME IInv, TrimCandles PROVE IInv'
  OBVIOUS
<1> USE Numbers DEF IInv, TypeOK, TrimCandles
<1>1. closes \in Seq(Prices) /\ Len(closes) \in Nat /\ Len(closes) <= Capacity + 1
  BY LenProperties
<1>2. closes' \in Seq(Prices) /\ Len(closes') <= Capacity
  <2>1. CASE Len(closes) > Capacity
    <3>1. closes # <<>>
      BY <1>1, <2>1, EmptySeq
    <3>2. Tail(closes) \in Seq(Prices) /\ Len(Tail(closes)) = Len(closes) - 1
      BY <1>1, <3>1, HeadTailProperties
    <3>3. closes' = Tail(closes)
      BY <2>1 DEF Trimmed
    <3> HIDE DEF IInv, TypeOK, TrimCandles
    <3> QED
      BY <1>1, <3>2, <3>3
  <2>2. CASE ~(Len(closes) > Capacity)
    BY <1>1, <2>2 DEF Trimmed
  <2> QED
    BY <2>1, <2>2
<1>3. trimmed' \in BOOLEAN /\ pushed' \in BOOLEAN
  OBVIOUS
<1>4. Len(closes') <= Capacity + (IF pushed' THEN 1 ELSE 0)
  BY <1>2
<1>5. TypeOK'
  BY <1>2, <1>3, <1>4
<1> QED
  BY <1>5 DEF MadeForTick

\* A command is made for a tick that passed the spread filter.
LEMMA ScanStep == IInv /\ Scan => IInv'
<1> SUFFICES ASSUME IInv, Scan PROVE IInv'
  OBVIOUS
<1>1. PICK tick \in Ticks \cup {NoTick}, hour \in Hours, open \in BOOLEAN :
        LET result == check_signal(closes, tick, hour, open)
        IN  answer' = IF result \in {"BUY", "SELL"}
                        THEN Answer(result, tick, construct_trade_command(result, tick))
                        ELSE Answer(result, NoTick, NoCommand)
  BY DEF Scan
<1> DEFINE result == check_signal(closes, tick, hour, open)
<1>2. /\ result \in Results \cup {"raises"}
      /\ result \in {"BUY", "SELL"} => tick # NoTick /\ ~TooWide(tick)
  BY Answers
<1> HIDE DEF result
<1>3. CASE result \in {"BUY", "SELL"}
  <2>1. answer' = Answer(result, tick, construct_trade_command(result, tick))
    BY <1>1, <1>3 DEF result
  <2>2. tick \in Ticks /\ tick.spread < MaxSpread
    BY <1>2, <1>3, Numbers DEF TooWide
  <2>3. construct_trade_command(result, tick).type = result
    BY DEF construct_trade_command
  <2>4. /\ answer'.result = result /\ answer'.tick = tick
        /\ answer'.command = construct_trade_command(result, tick)
    BY <2>1 DEF Answer
  <2>5. MadeForTick'
    BY <1>3, <2>2, <2>3, <2>4 DEF MadeForTick
  <2> QED
    BY <1>3, <2>2, <2>3, <2>4, <2>5 DEF IInv, TypeOK, Scan
<1>4. CASE result \notin {"BUY", "SELL"}
  <2>1. answer' = Answer(result, NoTick, NoCommand)
    BY <1>1, <1>4 DEF result
  <2>2. answer'.result = result /\ answer'.tick = NoTick /\ answer'.command = NoCommand
    BY <2>1 DEF Answer
  <2>3. MadeForTick' /\ answer'.command.type = "none"
    BY <2>2 DEF MadeForTick, NoCommand
  <2> QED
    BY <1>2, <2>2, <2>3 DEF IInv, TypeOK, Scan, Results
<1> QED
  BY <1>3, <1>4

\* Every step keeps the invariant.
LEMMA NextIInv == IInv /\ [Next]_vars => IInv'
<1>1. IInv /\ UNCHANGED vars => IInv'
  BY DEF IInv, TypeOK, MadeForTick, vars
<1> QED
  BY <1>1, PushStep, TrimStep, ScanStep DEF Next

\* The invariant holds for ever.
LEMMA SpecIInv == Spec => []IInv
BY InitIInv, NextIInv, PTL DEF Spec

-----------------------------------------------------------------------------
\* Every variable of the signal engine keeps its type, and the candle list grows
\* beyond its capacity by the candle between RPUSH and LTRIM only.
THEOREM SignalTypeCorrect == Spec => []TypeOK
<1>1. IInv => TypeOK
  BY DEF IInv
<1> QED
  BY <1>1, SpecIInv, PTL

\* No command that a scan answers with has a level that the market it was made for
\* has already reached, if the widest spread let through fits into the stop-loss.
THEOREM LevelsBracket == Spec => []LevelsBracketMarket
<1>1. IInv => LevelsBracketMarket
  <2> SUFFICES ASSUME IInv, MaxSpread <= StopLoss PROVE LevelsBracketMarket
    BY DEF LevelsBracketMarket
  <2>1. CASE answer.command = NoCommand
    BY <2>1 DEF LevelsBracketMarket, NoCommand
  <2>2. CASE answer.command # NoCommand
    <3> DEFINE t == answer.tick  c == answer.command
    <3>1. /\ t \in Ticks /\ t.spread < MaxSpread
          /\ c = construct_trade_command(c.type, t)
      BY <2>2 DEF IInv, MadeForTick
    <3>2. t.bid \in Nat /\ t.spread \in Nat /\ t.ask = t.bid + t.spread
      BY <3>1, Numbers
    <3>3. CASE c.type = "BUY"
      <4>1. c.stop_loss = t.ask - StopLoss /\ c.take_profit = t.ask + TakeProfit
        BY <3>1, <3>3 DEF construct_trade_command
      <4> QED
        BY <3>1, <3>2, <3>3, <4>1, Numbers DEF LevelsBracketMarket
    <3>4. CASE c.type = "SELL"
      <4>1. c.stop_loss = t.bid + StopLoss /\ c.take_profit = t.bid - TakeProfit
        BY <3>1, <3>4 DEF construct_trade_command
      <4> QED
        BY <3>1, <3>2, <3>4, <4>1, Numbers DEF LevelsBracketMarket
    <3> QED
      BY <2>2, <3>3, <3>4 DEF IInv, MadeForTick
  <2> QED
    BY <2>1, <2>2
<1> QED
  BY <1>1, SpecIInv, PTL

-----------------------------------------------------------------------------
(***************************************************************************)
(* Crossings.  The averages are computed anew in every scan, but the value *)
(* before the last is the one that was the last before the candle came, so *)
(* that a crossing is a change of side.                                    *)
(***************************************************************************)
LEMMA Periods ==
  /\ FastPeriod \in Nat \ {0, 1} /\ SlowPeriod \in Nat \ {0, 1}
  /\ LongestPeriod \in {FastPeriod, SlowPeriod}
  /\ FastPeriod <= LongestPeriod /\ SlowPeriod <= LongestPeriod
<1>1. FastPeriod \in Nat \ {0, 1} /\ SlowPeriod \in Nat \ {0, 1}
  BY PeriodAssumption
<1>2. \E x \in {FastPeriod, SlowPeriod} : \A y \in {FastPeriod, SlowPeriod} : x >= y
  <2>1. CASE FastPeriod >= SlowPeriod
    BY <1>1, <2>1
  <2>2. CASE ~(FastPeriod >= SlowPeriod)
    BY <1>1, <2>2
  <2> QED
    BY <2>1, <2>2
<1>3. /\ LongestPeriod \in {FastPeriod, SlowPeriod}
      /\ \A y \in {FastPeriod, SlowPeriod} : LongestPeriod >= y
  BY <1>2 DEF LongestPeriod, Max
<1> QED
  BY <1>1, <1>3

\* The last value of an average.
Last(s, p) == FromEnd(calculate_ema(s, p), 1)

LEMMA LastValue ==
  ASSUME NEW s \in Seq(Int), NEW p \in Nat \ {0}, p <= Len(s)
  PROVE  Last(s, p) = Smoothed(s, p, 2)[Len(s)] /\ Last(s, p) \in Fraction
<1> DEFINE n == Len(s)  e == calculate_ema(s, p)  a == Smoothed(s, p, 2)
<1>1. n \in Nat /\ 2 \in Nat \ {0}
  BY LenProperties
<1>2. Len(e) = n - p + 1 /\ \A k \in 1..(n - p + 1) : e[k] = a[k + p - 1]
  BY EmaValues
<1>3. \A i \in p..n : a[i] \in Fraction
  BY <1>1, Averages
<1> HIDE DEF n, e, a
<1>4. e[n - p + 1] = a[n] /\ a[n] \in Fraction
  <2>1. n - p + 1 \in 1..(n - p + 1) /\ (n - p + 1) + p - 1 = n /\ n \in p..n
    BY <1>1 DEF n
  <2> QED
    BY <1>2, <1>3, <2>1
<1>5. Last(s, p) = e[Len(e) + 1 - 1]
  BY DEF Last, FromEnd, e
<1>6. Len(e) + 1 - 1 = n - p + 1
  BY <1>1, <1>2
<1> QED
  BY <1>4, <1>5, <1>6 DEF n, a

\* After a candle the value before the last is the last one before it.
LEMMA ValueBefore ==
  ASSUME NEW s \in Seq(Int), NEW x \in Int, NEW p \in Nat \ {0}, p <= Len(s)
  PROVE  /\ Len(calculate_ema(Append(s, x), p)) >= 2
         /\ FromEnd(calculate_ema(Append(s, x), p), 2) = Last(s, p)
<1> DEFINE n == Len(s)  t == Append(s, x)  e == calculate_ema(t, p)
<1>1. n \in Nat /\ t \in Seq(Int) /\ Len(t) = n + 1 /\ 2 \in Nat \ {0}
  BY LenProperties, AppendProperties
<1> HIDE DEF t
<1>2. Len(e) = n + 1 - p + 1 /\ \A k \in 1..(n + 1 - p + 1) : e[k] = Smoothed(t, p, 2)[k + p - 1]
  <2>1. /\ Len(e) = IF p <= Len(t) THEN Len(t) - p + 1 ELSE 0
        /\ \A k \in 1..(Len(t) - p + 1) : e[k] = Smoothed(t, p, 2)[k + p - 1]
    <3>1. t \in Seq(Int)
      BY <1>1
    <3> HIDE <1>1
    <3> QED
      BY <3>1, EmaValues
  <2> HIDE DEF e, n
  <2> QED
    BY <1>1, <2>1 DEF n
<1>3. \A i \in p..n : Smoothed(t, p, 2)[i] = Smoothed(s, p, 2)[i]
  BY <1>1, SmoothedKeepsPrefix DEF t
<1>4. Last(s, p) = Smoothed(s, p, 2)[n]
  BY LastValue
<1> HIDE DEF n, e
<1>5. Len(e) >= 2 /\ Len(e) + 1 - 2 = n - p + 1 /\ n - p + 1 \in 1..(n + 1 - p + 1)
      /\ (n - p + 1) + p - 1 = n /\ n \in p..n
  BY <1>1, <1>2 DEF n
<1>6. e[Len(e) + 1 - 2] = Last(s, p)
  BY <1>2, <1>3, <1>4, <1>5
<1> QED
  BY <1>5, <1>6 DEF FromEnd, e, t

\* Fractions are ordered.
LEMMA LessOrders ==
  ASSUME NEW a \in Fraction, NEW b \in Fraction
  PROVE  ~(Less(a, b) /\ Less(b, a))
<1>1. a.n * b.d \in Int /\ b.n * a.d \in Int
  BY DEF Fraction
<1> QED
  BY <1>1 DEF Less

LEMMA SideValues == ASSUME NEW s PROVE Side(s) \in Results
BY DEF Side, Results

\* A crossing is a change of side.
LEMMA CrossingIsChangeOfSide ==
  ASSUME NEW s \in Seq(Int), NEW x \in Int, LongestPeriod <= Len(s)
  PROVE  Crossing(Append(s, x)) =
           IF Side(Append(s, x)) # Side(s) THEN Side(Append(s, x)) ELSE "none"
<1> DEFINE t == Append(s, x)
           f1 == Last(s, FastPeriod)  s1 == Last(s, SlowPeriod)
           f2 == Last(t, FastPeriod)  s2 == Last(t, SlowPeriod)
           fast == calculate_ema(t, FastPeriod)  slow == calculate_ema(t, SlowPeriod)
<1>1. /\ FastPeriod \in Nat \ {0} /\ FastPeriod <= Len(s)
      /\ SlowPeriod \in Nat \ {0} /\ SlowPeriod <= Len(s)
      /\ t \in Seq(Int) /\ FastPeriod <= Len(t) /\ SlowPeriod <= Len(t)
  BY Periods, LenProperties, AppendProperties
<1>2. Len(fast) >= 2 /\ Len(slow) >= 2 /\ FromEnd(fast, 2) = f1 /\ FromEnd(slow, 2) = s1
  BY <1>1, ValueBefore
<1>3. FromEnd(fast, 1) = f2 /\ FromEnd(slow, 1) = s2
  BY DEF Last
<1>4. f1 \in Fraction /\ s1 \in Fraction /\ f2 \in Fraction /\ s2 \in Fraction
  BY <1>1, LastValue
<1>5. /\ Side(s) = CASE Less(s1, f1) -> "BUY" [] Less(f1, s1) -> "SELL" [] OTHER -> "none"
      /\ Side(t) = CASE Less(s2, f2) -> "BUY" [] Less(f2, s2) -> "SELL" [] OTHER -> "none"
  BY DEF Side, Last
<1>6. /\ CrossesAbove(fast, slow) <=> ~Less(s1, f1) /\ Less(s2, f2)
      /\ CrossesAbove(slow, fast) <=> ~Less(f1, s1) /\ Less(f2, s2)
  BY <1>2, <1>3 DEF CrossesAbove, AtMost
<1>7. ~(Less(s1, f1) /\ Less(f1, s1)) /\ ~(Less(s2, f2) /\ Less(f2, s2))
  BY <1>4, LessOrders
<1>8. Crossing(t) = CASE CrossesAbove(fast, slow) -> "BUY"
                      [] CrossesAbove(slow, fast) -> "SELL"
                      [] OTHER -> "none"
  BY DEF Crossing
<1> HIDE DEF t, f1, s1, f2, s2, fast, slow
<1>9. Crossing(t) = IF Side(t) # Side(s) THEN Side(t) ELSE "none"
  BY <1>5, <1>6, <1>7, <1>8
<1> QED
  BY <1>9 DEF t

\* An average with one value has crossed nothing.
LEMMA NoCrossingYet ==
  ASSUME NEW s \in Seq(Int), Len(s) <= LongestPeriod
  PROVE  Crossing(s) = "none"
<1>1. \E p \in {FastPeriod, SlowPeriod} : ~(Len(calculate_ema(s, p)) >= 2)
  <2>1. Len(s) \in Nat /\ LongestPeriod \in Nat \ {0}
    BY Periods, LenProperties
  <2>2. Len(calculate_ema(s, LongestPeriod)) =
          IF LongestPeriod <= Len(s) THEN Len(s) - LongestPeriod + 1 ELSE 0
    BY <2>1, EmaValues
  <2>3. ~(Len(calculate_ema(s, LongestPeriod)) >= 2)
    BY <2>1, <2>2
  <2> QED
    BY <2>3, Periods
<1> QED
  BY <1>1 DEF Crossing, CrossesAbove

\* The first values of the averages are those of the first candles.
LEMMA StartKept ==
  ASSUME NEW s \in Seq(Int), NEW x \in Int, LongestPeriod <= Len(s)
  PROVE  SubSeq(Append(s, x), 1, LongestPeriod) = SubSeq(s, 1, LongestPeriod)
<1>1. LongestPeriod \in 1..Len(s) /\ 1 \in 1..Len(s)
  BY Periods, LenProperties
<1>2. Append(s, x) = s \o <<x>> /\ <<x>> \in Seq(Int)
  BY AppendIsConcat
<1> QED
  BY <1>1, <1>2, SubSeqOfConcat1

\* What SideFollowsCrossing says of a list.
Follows(s, last) ==
  Len(s) >= LongestPeriod /\ Side(s) # "none" =>
    Side(s) = IF last = "none" THEN Side(SubSeq(s, 1, LongestPeriod)) ELSE last

\* Until the averages have two values each there has been no crossing.
CrossingInv ==
  ~trimmed => /\ Len(closes) <= LongestPeriod => crossed = "none"
              /\ Follows(closes, crossed)

\* Prices are whole numbers of points.
LEMMA ClosesAreNumbers == ASSUME NEW s \in Seq(Prices) PROVE s \in Seq(Int)
<1>1. Prices \subseteq Int
  BY PriceAssumption
<1> QED
  BY <1>1, SeqMonotonic

LEMMA CrossingInit == Init => CrossingInv
<1> SUFFICES ASSUME Init PROVE CrossingInv
  OBVIOUS
<1>1. Len(closes) = 0 /\ crossed = "none"
  BY DEF Init
<1> QED
  BY <1>1, Periods DEF CrossingInv, Follows

\* A candle that changes the side is a crossing.
LEMMA CrossingPush == IInv /\ CrossingInv /\ PushCandle => CrossingInv'
<1> SUFFICES ASSUME IInv, CrossingInv, PushCandle, ~trimmed PROVE CrossingInv'
  BY DEF PushCandle, CrossingInv
<1>1. PICK x \in Prices : closes' = Append(closes, x)
  BY DEF PushCandle
<1>2. closes \in Seq(Int) /\ x \in Int /\ Len(closes) \in Nat
  BY ClosesAreNumbers, PriceAssumption, LenProperties DEF IInv, TypeOK
<1>3. closes' \in Seq(Int) /\ Len(closes') = Len(closes) + 1
  BY <1>1, <1>2, AppendProperties
<1>4. crossed' = IF Crossing(closes') = "none" THEN crossed ELSE Crossing(closes')
  BY DEF PushCandle
<1>5. LongestPeriod \in Nat
  BY Periods
<1>6. CASE Len(closes) < LongestPeriod
  <2>1. Len(closes') <= LongestPeriod
    BY <1>2, <1>3, <1>5, <1>6
  <2>2. crossed' = "none"
    BY <1>2, <1>3, <1>4, <1>5, <1>6, <2>1, NoCrossingYet DEF CrossingInv
  <2>3. Len(closes') >= LongestPeriod => SubSeq(closes', 1, LongestPeriod) = closes'
    <3> SUFFICES ASSUME Len(closes') >= LongestPeriod
                 PROVE  SubSeq(closes', 1, LongestPeriod) = closes'
      OBVIOUS
    <3>1. LongestPeriod = Len(closes')
      BY <1>2, <1>3, <1>5, <2>1
    <3>2. SubSeq(closes', 1, Len(closes')) = closes'
      BY <1>3, SubSeqFull
    <3> QED
      BY <3>1, <3>2
  <2>4. Follows(closes', crossed')
    BY <2>2, <2>3 DEF Follows
  <2> QED
    BY <2>2, <2>4 DEF CrossingInv
<1>7. CASE LongestPeriod <= Len(closes)
  <2>1. Crossing(closes') = IF Side(closes') # Side(closes) THEN Side(closes') ELSE "none"
    BY <1>1, <1>2, <1>7, CrossingIsChangeOfSide
  <2>2. SubSeq(closes', 1, LongestPeriod) = SubSeq(closes, 1, LongestPeriod)
    BY <1>1, <1>2, <1>7, StartKept
  <2>3. Follows(closes, crossed)
    BY DEF CrossingInv
  <2>4. Follows(closes', crossed')
    <3> DEFINE before == Side(closes)  now == Side(closes')
               start == Side(SubSeq(closes, 1, LongestPeriod))
    <3>1. before # "none" => before = IF crossed = "none" THEN start ELSE crossed
      BY <1>2, <1>5, <1>7, <2>3 DEF Follows
    <3>2. crossed' = IF now # before /\ now # "none" THEN now ELSE crossed
      BY <1>4, <2>1
    <3>3. Follows(closes', crossed') <=>
            (Len(closes') >= LongestPeriod /\ now # "none" =>
               now = IF crossed' = "none" THEN start ELSE crossed')
      BY <2>2 DEF Follows
    <3> HIDE DEF before, now, start
    <3> QED
      BY <3>1, <3>2, <3>3
  <2>5. ~(Len(closes') <= LongestPeriod)
    BY <1>2, <1>3, <1>5, <1>7
  <2> QED
    BY <2>4, <2>5 DEF CrossingInv
<1> QED
  BY <1>2, <1>5, <1>6, <1>7

LEMMA CrossingStep == IInv /\ CrossingInv /\ [Next]_vars => CrossingInv'
<1> SUFFICES ASSUME IInv, CrossingInv, [Next]_vars PROVE CrossingInv'
  OBVIOUS
<1>1. CASE PushCandle
  BY <1>1, CrossingPush
<1>2. CASE TrimCandles
  BY <1>2 DEF TrimCandles, CrossingInv, Follows
<1>3. CASE Scan \/ UNCHANGED vars
  BY <1>3 DEF Scan, vars, CrossingInv, Follows
<1> QED
  BY <1>1, <1>2, <1>3 DEF Next

\* While the list keeps all its candles no crossing of the averages is missed, for
\* all periods and prices, however long the averages stay equal.
THEOREM CrossingsAreSeen == Spec => []SideFollowsCrossing
<1>1. Init => IInv /\ CrossingInv
  BY InitIInv, CrossingInit
<1>2. IInv /\ CrossingInv /\ [Next]_vars => (IInv /\ CrossingInv)'
  BY NextIInv, CrossingStep
<1>3. CrossingInv => SideFollowsCrossing
  BY DEF CrossingInv, Follows, SideFollowsCrossing
<1> QED
  BY <1>1, <1>2, <1>3, PTL DEF Spec

-----------------------------------------------------------------------------
(***************************************************************************)
(* The mirrored market: its averages are the negatives and its gains are   *)
(* the losses of the market.                                               *)
(***************************************************************************)
LEMMA MirroredIsMirror ==
  ASSUME NEW s \in Seq(Int)
  PROVE  Mirrored(s) \in Seq(Int) /\ IsMirror(s, Mirrored(s))
<1> DEFINE n == Len(s)
<1>1. n \in Nat /\ DOMAIN s = 1..n /\ \A i \in 1..n : s[i] \in Int
  BY LenProperties, ElementOfSeq
<1>2. Mirrored(s) = [i \in 1..n |-> -s[i]]
  BY <1>1 DEF Mirrored
<1> HIDE DEF n
<1>3. Mirrored(s) \in [1..n -> Int]
  BY <1>1, <1>2
<1>4. Mirrored(s) \in Seq(Int) /\ Len(Mirrored(s)) = n
  BY <1>1, <1>3, IsASeq, LenProperties
<1> QED
  BY <1>2, <1>4 DEF IsMirror, n

LEMMA MirrorIsMutual ==
  ASSUME NEW s \in Seq(Int), NEW t, IsMirror(s, t)
  PROVE  IsMirror(t, s)
<1>1. \A i \in 1..Len(s) : s[i] \in Int
  BY ElementOfSeq
<1> QED
  BY <1>1 DEF IsMirror

LEMMA EmaMirrors ==
  ASSUME NEW s \in Seq(Int), NEW t \in Seq(Int), IsMirror(s, t), NEW p \in Nat \ {0}
  PROVE  LET a == calculate_ema(s, p)
             b == calculate_ema(t, p)
         IN  /\ Len(b) = Len(a) /\ Len(a) \in Nat
             /\ \A k \in 1..Len(a) :
                  a[k] \in Fraction /\ b[k] \in Fraction /\ Opposed(a[k], b[k])
<1> DEFINE n == Len(s)  a == calculate_ema(s, p)  b == calculate_ema(t, p)
<1>1. n \in Nat /\ Len(t) = n /\ 2 \in Nat \ {0}
  BY LenProperties DEF IsMirror
<1>2. /\ a \in Seq(Fraction)
      /\ Len(a) = IF p <= n THEN n - p + 1 ELSE 0
      /\ \A k \in 1..(n - p + 1) : a[k] = Smoothed(s, p, 2)[k + p - 1]
  BY EmaValues
<1>3. /\ b \in Seq(Fraction)
      /\ Len(b) = IF p <= n THEN n - p + 1 ELSE 0
      /\ \A k \in 1..(n - p + 1) : b[k] = Smoothed(t, p, 2)[k + p - 1]
  <2>1. /\ b \in Seq(Fraction)
        /\ Len(b) = IF p <= Len(t) THEN Len(t) - p + 1 ELSE 0
        /\ \A k \in 1..(Len(t) - p + 1) : b[k] = Smoothed(t, p, 2)[k + p - 1]
    BY EmaValues
  <2> HIDE DEF b, n
  <2> QED
    BY <1>1, <2>1
<1>4. \A i \in p..n : Opposed(Smoothed(s, p, 2)[i], Smoothed(t, p, 2)[i])
  BY <1>1, SmoothedMirrors
<1> HIDE DEF n, a, b
<1>5. ASSUME NEW k \in 1..Len(a)
      PROVE  a[k] \in Fraction /\ b[k] \in Fraction /\ Opposed(a[k], b[k])
  <2>1. k \in 1..(n - p + 1) /\ k + p - 1 \in p..n /\ k \in 1..Len(b)
    BY <1>1, <1>2, <1>3
  <2>2. a[k] \in Fraction /\ b[k] \in Fraction
    BY <1>2, <1>3, <2>1, ElementOfSeq
  <2> QED
    BY <1>2, <1>3, <1>4, <2>1, <2>2
<1> QED
  BY <1>1, <1>2, <1>3, <1>5 DEF a, b

LEMMA CrossesMirrors ==
  ASSUME NEW s \in Seq(Int), NEW t \in Seq(Int), IsMirror(s, t),
         NEW p \in Nat \ {0}, NEW q \in Nat \ {0}
  PROVE  CrossesAbove(calculate_ema(t, p), calculate_ema(t, q)) <=>
           CrossesAbove(calculate_ema(s, q), calculate_ema(s, p))
<1> DEFINE f == calculate_ema(s, p)  g == calculate_ema(s, q)
           u == calculate_ema(t, p)  v == calculate_ema(t, q)
           Nth(e, k) == e[Len(e) + 1 - k]
<1>1. /\ Len(u) = Len(f) /\ Len(f) \in Nat
      /\ \A k \in 1..Len(f) : f[k] \in Fraction /\ u[k] \in Fraction /\ Opposed(f[k], u[k])
  BY EmaMirrors
<1>2. /\ Len(v) = Len(g) /\ Len(g) \in Nat
      /\ \A k \in 1..Len(g) : g[k] \in Fraction /\ v[k] \in Fraction /\ Opposed(g[k], v[k])
  BY EmaMirrors
<1> HIDE DEF f, g, u, v
<1>3. CASE Len(f) >= 2 /\ Len(g) >= 2
  <2>1. ASSUME NEW k \in {1, 2}
        PROVE  /\ Less(Nth(u, k), Nth(v, k)) <=> Less(Nth(g, k), Nth(f, k))
               /\ Less(Nth(v, k), Nth(u, k)) <=> Less(Nth(f, k), Nth(g, k))
    <3>1. /\ Len(f) + 1 - k \in 1..Len(f) /\ Len(g) + 1 - k \in 1..Len(g)
          /\ Len(u) + 1 - k = Len(f) + 1 - k /\ Len(v) + 1 - k = Len(g) + 1 - k
      BY <1>1, <1>2, <1>3
    <3>2. /\ Nth(f, k) \in Fraction /\ Nth(u, k) \in Fraction /\ Opposed(Nth(f, k), Nth(u, k))
          /\ Nth(g, k) \in Fraction /\ Nth(v, k) \in Fraction /\ Opposed(Nth(g, k), Nth(v, k))
      BY <1>1, <1>2, <3>1
    <3> HIDE DEF Nth
    <3> QED
      BY <3>2, LessMirrors
  <2>2. CrossesAbove(u, v) <=> ~Less(Nth(v, 2), Nth(u, 2)) /\ Less(Nth(v, 1), Nth(u, 1))
    BY <1>1, <1>2, <1>3 DEF CrossesAbove, AtMost, FromEnd
  <2>3. CrossesAbove(g, f) <=> ~Less(Nth(f, 2), Nth(g, 2)) /\ Less(Nth(f, 1), Nth(g, 1))
    BY <1>1, <1>2, <1>3 DEF CrossesAbove, AtMost, FromEnd
  <2> HIDE DEF Nth
  <2>4. CrossesAbove(u, v) <=> CrossesAbove(g, f)
    BY <2>1, <2>2, <2>3
  <2> QED
    BY <2>4 DEF f, g, u, v
<1>4. CASE ~(Len(f) >= 2 /\ Len(g) >= 2)
  <2>1. ~CrossesAbove(u, v) /\ ~CrossesAbove(g, f)
    BY <1>1, <1>2, <1>4 DEF CrossesAbove
  <2> QED
    BY <2>1 DEF f, g, u, v
<1> QED
  BY <1>3, <1>4

\* The averages do not cross in both directions at once.
LEMMA CrossesOnce ==
  ASSUME NEW s \in Seq(Int), NEW p \in Nat \ {0}, NEW q \in Nat \ {0}
  PROVE  ~(/\ CrossesAbove(calculate_ema(s, p), calculate_ema(s, q))
           /\ CrossesAbove(calculate_ema(s, q), calculate_ema(s, p)))
<1> DEFINE a == calculate_ema(s, p)  b == calculate_ema(s, q)
<1>1. a \in Seq(Fraction) /\ b \in Seq(Fraction) /\ Len(a) \in Nat /\ Len(b) \in Nat
  BY EmaValues, LenProperties
<1> HIDE DEF a, b
<1>2. CASE Len(a) >= 2 /\ Len(b) >= 2
  <2>1. FromEnd(a, 1) \in Fraction /\ FromEnd(b, 1) \in Fraction
    <3>1. Len(a) + 1 - 1 \in 1..Len(a) /\ Len(b) + 1 - 1 \in 1..Len(b)
      BY <1>1, <1>2
    <3> QED
      BY <1>1, <3>1, ElementOfSeq DEF FromEnd
  <2> QED
    BY <2>1, LessOrders DEF CrossesAbove, a, b
<1>3. CASE ~(Len(a) >= 2 /\ Len(b) >= 2)
  BY <1>3 DEF CrossesAbove, a, b
<1> QED
  BY <1>2, <1>3

LEMMA CrossingMirrors ==
  ASSUME NEW s \in Seq(Int), NEW t \in Seq(Int), IsMirror(s, t)
  PROVE  Crossing(t) = Opposite[Crossing(s)]
<1> DEFINE F(x) == calculate_ema(x, FastPeriod)  S(x) == calculate_ema(x, SlowPeriod)
<1>1. FastPeriod \in Nat \ {0} /\ SlowPeriod \in Nat \ {0}
  BY Periods
<1>2. /\ CrossesAbove(F(t), S(t)) <=> CrossesAbove(S(s), F(s))
      /\ CrossesAbove(S(t), F(t)) <=> CrossesAbove(F(s), S(s))
  BY <1>1, CrossesMirrors
<1>3. ~(CrossesAbove(F(s), S(s)) /\ CrossesAbove(S(s), F(s)))
  BY <1>1, CrossesOnce
<1>4. \A x : Crossing(x) = CASE CrossesAbove(F(x), S(x)) -> "BUY"
                             [] CrossesAbove(S(x), F(x)) -> "SELL"
                             [] OTHER -> "none"
  BY DEF Crossing
<1> HIDE DEF F, S
<1> QED
  BY <1>2, <1>3, <1>4 DEF Opposite

\* Where RSI is asked: the averages of Wilder, and the thresholds they meet.
LEMMA RsiBounds ==
  ASSUME NEW s \in Seq(Int), Len(s) >= RsiPeriod + 2
  PROVE  LET g   == LastGain(s, RsiPeriod)
             l   == LastLoss(s, RsiPeriod)
             rsi == calculate_rsi(s, RsiPeriod)
         IN  /\ g \in Nat /\ l \in Nat /\ Len(rsi) >= 1
             /\ Less(FromEnd(rsi, 1), [n |-> Overbought, d |-> 1]) <=>
                  l # 0 /\ 100 * g < Overbought * (g + l)
             /\ Less([n |-> Oversold, d |-> 1], FromEnd(rsi, 1)) <=>
                  l = 0 \/ Oversold * (g + l) < 100 * g
<1> DEFINE p == RsiPeriod  n == Len(s) - 1  rsi == calculate_rsi(s, p)
           g == LastGain(s, p)  l == LastLoss(s, p)
<1>1. p \in Nat \ {0, 1} /\ p \in Nat \ {0} /\ Len(s) \in Nat /\ Len(s) >= 1 /\ n \in p..n
  BY PeriodAssumption, LenProperties
<1>2. /\ Gains(s) \in Seq(Nat) /\ Losses(s) \in Seq(Nat)
      /\ Len(Gains(s)) = n /\ Len(Losses(s)) = n
  BY <1>1, GainsAndLosses
<1>3. g \in Nat /\ l \in Nat
  <2>1. n \in p..Len(Gains(s)) /\ n \in p..Len(Losses(s)) /\ 1 \in Nat \ {0}
    BY <1>1, <1>2
  <2>2. Smoothed(Gains(s), p, 1)[n].n \in Nat /\ Smoothed(Losses(s), p, 1)[n].n \in Nat
    BY <1>1, <1>2, <2>1, AverageOfNaturals
  <2> QED
    BY <2>2 DEF LastGain, LastLoss
<1>4. /\ Len(rsi) >= 1 /\ Len(rsi) \in Nat
      /\ rsi[Len(rsi)] = IF l = 0 THEN [n |-> 100, d |-> 1] ELSE [n |-> 100 * g, d |-> g + l]
  BY <1>1, LastRsi
<1>5. FromEnd(rsi, 1) = IF l = 0 THEN [n |-> 100, d |-> 1] ELSE [n |-> 100 * g, d |-> g + l]
  <2>1. Len(rsi) + 1 - 1 = Len(rsi)
    BY <1>4
  <2> QED
    BY <1>4, <2>1 DEF FromEnd
<1> HIDE DEF g, l, rsi
<1>6. /\ Overbought \in Nat /\ Oversold \in Nat /\ Overbought <= 99 /\ Oversold >= 1
      /\ Oversold <= 50
  BY ThresholdAssumption
<1>7. Less(FromEnd(rsi, 1), [n |-> Overbought, d |-> 1]) <=>
        l # 0 /\ 100 * g < Overbought * (g + l)
  BY <1>3, <1>5, <1>6 DEF Less
<1>8. Less([n |-> Oversold, d |-> 1], FromEnd(rsi, 1)) <=>
        l = 0 \/ Oversold * (g + l) < 100 * g
  BY <1>3, <1>5, <1>6 DEF Less
<1> QED
  BY <1>3, <1>4, <1>7, <1>8 DEF g, l, rsi

\* The gains of the mirrored market are the losses of the market.
LEMMA RsiMirrors ==
  ASSUME NEW s \in Seq(Int), NEW t \in Seq(Int), IsMirror(s, t), NEW p
  PROVE  LastGain(t, p) = LastLoss(s, p) /\ LastLoss(t, p) = LastGain(s, p)
<1>1. Len(t) = Len(s) /\ Len(s) \in Nat
  BY LenProperties DEF IsMirror
<1>2. \A i \in 1..(Len(s) - 1) : /\ Gain(t[i + 1] - t[i]) = Loss(s[i + 1] - s[i])
                                 /\ Loss(t[i + 1] - t[i]) = Gain(s[i + 1] - s[i])
  <2> SUFFICES ASSUME NEW i \in 1..(Len(s) - 1)
               PROVE  /\ Gain(t[i + 1] - t[i]) = Loss(s[i + 1] - s[i])
                      /\ Loss(t[i + 1] - t[i]) = Gain(s[i + 1] - s[i])
    OBVIOUS
  <2>1. i \in 1..Len(s) /\ i + 1 \in 1..Len(s)
    BY <1>1
  <2>2. s[i] \in Int /\ s[i + 1] \in Int /\ t[i] = -s[i] /\ t[i + 1] = -s[i + 1]
    BY <2>1, ElementOfSeq DEF IsMirror
  <2>3. \A x, y \in Int : /\ Gain(-y - (-x)) = Loss(y - x)
                          /\ Loss(-y - (-x)) = Gain(y - x)
    BY DEF Gain, Loss
  <2> QED
    BY <2>2, <2>3
<1>3. Gains(t) = Losses(s) /\ Losses(t) = Gains(s)
  BY <1>1, <1>2 DEF Gains, Losses
<1> QED
  BY <1>1, <1>3 DEF LastGain, LastLoss

\* The averages of a market that does not move do not cross.
LEMMA FlatNeverCrosses ==
  ASSUME NEW s \in Seq(Int), NEW c \in Int, \A i \in 1..Len(s) : s[i] = c
  PROVE  Crossing(s) = "none"
<1>1. \A p \in Nat \ {0} : Len(calculate_ema(s, p)) >= 2 =>
        Last(s, p) \in Fraction /\ Last(s, p).n = c * Last(s, p).d
  <2> SUFFICES ASSUME NEW p \in Nat \ {0}, Len(calculate_ema(s, p)) >= 2
               PROVE  Last(s, p) \in Fraction /\ Last(s, p).n = c * Last(s, p).d
    OBVIOUS
  <2>1. p <= Len(s) /\ 2 \in Nat \ {0}
    BY EmaValues
  <2>2. Last(s, p) = Smoothed(s, p, 2)[Len(s)] /\ Last(s, p) \in Fraction
    BY <2>1, LastValue
  <2>3. \A i \in p..Len(s) : Smoothed(s, p, 2)[i].n = c * Smoothed(s, p, 2)[i].d
    BY <2>1, FlatAverage
  <2>4. Len(s) \in p..Len(s)
    BY <2>1, LenProperties
  <2> QED
    BY <2>2, <2>3, <2>4
<1>2. \A a, b \in Fraction : a.n = c * a.d /\ b.n = c * b.d => ~Less(a, b)
  <2> SUFFICES ASSUME NEW a \in Fraction, NEW b \in Fraction, a.n = c * a.d, b.n = c * b.d
               PROVE  ~Less(a, b)
    OBVIOUS
  <2>1. a.d \in Int /\ b.d \in Int
    BY DEF Fraction
  <2>2. \A x, y \in Int : (c * x) * y = (c * y) * x /\ (c * x) * y \in Int
    OBVIOUS
  <2>3. a.n * b.d = b.n * a.d /\ a.n * b.d \in Int
    BY <2>1, <2>2
  <2> QED
    BY <2>3 DEF Less
<1>3. \A p, q \in Nat \ {0} : ~CrossesAbove(calculate_ema(s, p), calculate_ema(s, q))
  <2> SUFFICES ASSUME NEW p \in Nat \ {0}, NEW q \in Nat \ {0},
                      CrossesAbove(calculate_ema(s, p), calculate_ema(s, q))
               PROVE  FALSE
    OBVIOUS
  <2>1. Len(calculate_ema(s, p)) >= 2 /\ Len(calculate_ema(s, q)) >= 2
        /\ Less(Last(s, q), Last(s, p))
    BY DEF CrossesAbove, Last
  <2> QED
    BY <1>1, <1>2, <2>1
<1>4. FastPeriod \in Nat \ {0} /\ SlowPeriod \in Nat \ {0}
  BY Periods
<1> QED
  BY <1>3, <1>4 DEF Crossing

\* Where RSI is asked and knows neither gain nor loss, nothing crosses.
LEMMA NoMoveNoCrossing ==
  ASSUME NEW s \in Seq(Int), Len(s) >= RsiPeriod + 2,
         LastGain(s, RsiPeriod) = 0, LastLoss(s, RsiPeriod) = 0
  PROVE  Crossing(s) = "none"
<1> DEFINE p == RsiPeriod  n == Len(s) - 1  T == {i \in 1..(n + 1) : s[i] = s[1]}
<1>1. /\ p \in Nat \ {0, 1} /\ 1 \in Nat \ {0} /\ Len(s) \in Nat /\ Len(s) >= 1 /\ n \in p..n
      /\ n \in Nat /\ Len(s) = n + 1 /\ \A i \in 1..Len(s) : s[i] \in Int
  BY PeriodAssumption, LenProperties, ElementOfSeq
<1>2. /\ Gains(s) \in Seq(Nat) /\ Losses(s) \in Seq(Nat)
      /\ Len(Gains(s)) = n /\ Len(Losses(s)) = n
      /\ \A i \in 1..n : /\ Gains(s)[i] = Gain(s[i + 1] - s[i])
                         /\ Losses(s)[i] = Loss(s[i + 1] - s[i])
  BY <1>1, GainsAndLosses
<1>3. \A i \in 1..n : Gains(s)[i] = 0 /\ Losses(s)[i] = 0
  <2>1. \A i \in p..Len(Gains(s)) :
          Smoothed(Gains(s), p, 1)[i].n = 0 <=> \A j \in 1..i : Gains(s)[j] = 0
    BY <1>1, <1>2, AverageOfNaturals
  <2>2. \A i \in p..Len(Losses(s)) :
          Smoothed(Losses(s), p, 1)[i].n = 0 <=> \A j \in 1..i : Losses(s)[j] = 0
    BY <1>1, <1>2, AverageOfNaturals
  <2>3. Smoothed(Gains(s), p, 1)[n].n = 0 /\ Smoothed(Losses(s), p, 1)[n].n = 0
    BY DEF LastGain, LastLoss
  <2> HIDE DEF p, n
  <2> QED
    BY <1>1, <1>2, <2>1, <2>2, <2>3
<1> HIDE DEF n
<1>4. ASSUME NEW i \in (1 + 1)..(n + 1), i - 1 \in T PROVE i \in T
  <2>1. i - 1 \in 1..n /\ (i - 1) + 1 = i /\ i \in 1..(n + 1) /\ i - 1 \in 1..Len(s)
        /\ i \in 1..Len(s)
    BY <1>1
  <2>2. Gain(s[i] - s[i - 1]) = 0 /\ Loss(s[i] - s[i - 1]) = 0
    BY <1>2, <1>3, <2>1
  <2>3. s[i] \in Int /\ s[i - 1] \in Int
    BY <1>1, <2>1
  <2>4. s[i] = s[i - 1]
    BY <2>2, <2>3 DEF Gain, Loss
  <2> QED
    BY <1>4, <2>1, <2>4
<1>5. 1 \in T /\ 1 \in Int /\ n + 1 \in Int
  BY <1>1
<1> HIDE DEF T
<1>6. \A i \in 1..(n + 1) : i \in T
  BY <1>4, <1>5, IntervalInduction, Zenon
<1>7. s[1] \in Int /\ \A i \in 1..Len(s) : s[i] = s[1]
  BY <1>1, <1>6 DEF T
<1> QED
  BY <1>7, FlatNeverCrosses

\* When check_signal takes a crossing for a signal.
LEMMA Confirmed ==
  ASSUME NEW s \in Seq(Int)
  PROVE  LET g == LastGain(s, RsiPeriod)
             l == LastLoss(s, RsiPeriod)
         IN  Direction(s) =
               IF \/ Len(s) < RsiPeriod + 2
                  \/ Crossing(s) = "BUY" /\ ~(l # 0 /\ 100 * g < Overbought * (g + l))
                  \/ Crossing(s) = "SELL" /\ ~(l = 0 \/ Oversold * (g + l) < 100 * g)
                 THEN "none" ELSE Crossing(s)
<1> DEFINE rsi == calculate_rsi(s, RsiPeriod)
           low == Less(FromEnd(rsi, 1), [n |-> Overbought, d |-> 1])
           high == Less([n |-> Oversold, d |-> 1], FromEnd(rsi, 1))
<1>1. Direction(s) = IF /\ Len(rsi) >= 1
                        /\ \/ Crossing(s) = "BUY" /\ low
                           \/ Crossing(s) = "SELL" /\ high
                       THEN Crossing(s) ELSE "none"
  <2>1. Crossing(s) \in Results
    BY Answers
  <2>2. [p \in {Overbought, Oversold} |-> [n |-> p, d |-> 1]][Overbought] = [n |-> Overbought, d |-> 1]
    OBVIOUS
  <2>3. [p \in {Overbought, Oversold} |-> [n |-> p, d |-> 1]][Oversold] = [n |-> Oversold, d |-> 1]
    OBVIOUS
  <2> QED
    BY <2>1, <2>2, <2>3 DEF Direction, Results
<1>2. Len(rsi) >= 1 <=> Len(s) >= RsiPeriod + 2
  <2>1. RsiPeriod \in Nat \ {0}
    BY PeriodAssumption
  <2> QED
    BY <2>1, LastRsi
<1>3. Crossing(s) \in Results
  BY Answers
<1>4. Len(s) \in Nat /\ RsiPeriod \in Nat
  BY LenProperties, PeriodAssumption
<1>5. CASE Len(s) >= RsiPeriod + 2
  <2>1. /\ low <=> (LastLoss(s, RsiPeriod) # 0 /\
                    100 * LastGain(s, RsiPeriod)
                      < Overbought * (LastGain(s, RsiPeriod) + LastLoss(s, RsiPeriod)))
        /\ high <=> (LastLoss(s, RsiPeriod) = 0 \/
                     Oversold * (LastGain(s, RsiPeriod) + LastLoss(s, RsiPeriod))
                       < 100 * LastGain(s, RsiPeriod))
    BY <1>5, RsiBounds
  <2>2. ~(Len(s) < RsiPeriod + 2)
    BY <1>4, <1>5
  <2> HIDE DEF low, high, rsi
  <2> QED
    BY <1>1, <1>2, <1>3, <1>5, <2>1, <2>2 DEF Results
<1>6. CASE ~(Len(s) >= RsiPeriod + 2)
  <2>1. Len(s) < RsiPeriod + 2
    BY <1>4, <1>6
  <2> HIDE DEF low, high, rsi
  <2> QED
    BY <1>1, <1>2, <1>6, <2>1
<1> QED
  BY <1>5, <1>6

\* With thresholds at the same distance from 50 RSI confirms a BUY if and only if it
\* confirms a SELL in the mirrored market, where gains g and losses l change places.
LEMMA ThresholdsMirror ==
  ASSUME NEW g \in Nat, NEW l \in Nat, ~(g = 0 /\ l = 0), Overbought + Oversold = 100
  PROVE  l # 0 /\ 100 * g < Overbought * (g + l) <=> g = 0 \/ Oversold * (l + g) < 100 * l
<1> DEFINE b == Overbought * (g + l)  o == Oversold * (l + g)
<1>1. /\ Overbought \in Nat /\ Oversold \in Nat /\ Overbought >= 1 /\ Oversold >= 1
      /\ Oversold = 100 - Overbought
  BY ThresholdAssumption
<1>2. b \in Nat /\ o \in Nat /\ o = 100 * (g + l) - b
  <2>1. \A x \in Nat : x * (g + l) \in Nat /\ (100 - x) * (l + g) = 100 * (g + l) - x * (g + l)
    OBVIOUS
  <2>2. Oversold * (l + g) = (100 - Overbought) * (l + g)
    BY <1>1
  <2>3. l + g = g + l
    OBVIOUS
  <2> HIDE <1>1
  <2>4. Overbought \in Nat /\ Oversold \in Nat
    BY <1>1
  <2> QED
    BY <2>1, <2>2, <2>3, <2>4
<1>3. CASE l = 0
  <2>1. o >= 1
    <3>1. g \in Nat \ {0} /\ l + g = g
      BY <1>3
    <3>2. Oversold * g \in Nat /\ Oversold * g # 0
      BY <1>1, <3>1, NatProduct
    <3> QED
      BY <3>1, <3>2
  <2> HIDE DEF o, b
  <2>2. ~(g = 0 \/ o < 100 * l)
    BY <1>2, <1>3, <2>1
  <2> QED
    BY <1>3, <2>2 DEF o, b
<1>4. CASE g = 0 /\ l # 0
  <2>1. b >= 1
    <3>1. Overbought * l \in Nat /\ Overbought * l # 0 /\ g + l = l
      BY <1>1, <1>4, NatProduct
    <3> QED
      BY <3>1
  <2> HIDE DEF o, b
  <2>2. 100 * g < b
    BY <1>2, <1>4, <2>1
  <2> QED
    BY <1>4, <2>2 DEF o, b
<1>5. CASE g # 0 /\ l # 0
  <2> HIDE DEF o, b
  <2>1. 100 * g < b <=> o < 100 * l
    BY <1>2
  <2> QED
    BY <1>5, <2>1 DEF o, b
<1> QED
  BY <1>3, <1>4, <1>5

LEMMA DirectionMirrors ==
  ASSUME NEW s \in Seq(Int), NEW t \in Seq(Int), IsMirror(s, t), Overbought + Oversold = 100
  PROVE  Direction(t) = Opposite[Direction(s)]
<1> DEFINE g == LastGain(s, RsiPeriod)  l == LastLoss(s, RsiPeriod)
           buy == l # 0 /\ 100 * g < Overbought * (g + l)
           sell == l = 0 \/ Oversold * (g + l) < 100 * g
           Buy == g # 0 /\ 100 * l < Overbought * (l + g)
           Sell == g = 0 \/ Oversold * (l + g) < 100 * l
<1>1. Crossing(t) = Opposite[Crossing(s)] /\ Crossing(s) \in Results
  BY CrossingMirrors, Answers
<1>2. Len(t) = Len(s) /\ Len(s) \in Nat /\ RsiPeriod \in Nat
  BY PeriodAssumption, LenProperties DEF IsMirror
<1>3. LastGain(t, RsiPeriod) = l /\ LastLoss(t, RsiPeriod) = g
  BY RsiMirrors
<1>4. Direction(s) = IF \/ Len(s) < RsiPeriod + 2
                        \/ Crossing(s) = "BUY" /\ ~buy
                        \/ Crossing(s) = "SELL" /\ ~sell
                       THEN "none" ELSE Crossing(s)
  BY Confirmed
<1>5. Direction(t) = IF \/ Len(s) < RsiPeriod + 2
                        \/ Crossing(t) = "BUY" /\ ~Buy
                        \/ Crossing(t) = "SELL" /\ ~Sell
                       THEN "none" ELSE Crossing(t)
  <2>1. Direction(t) =
          IF \/ Len(t) < RsiPeriod + 2
             \/ Crossing(t) = "BUY" /\
                  ~(/\ LastLoss(t, RsiPeriod) # 0
                    /\ 100 * LastGain(t, RsiPeriod)
                         < Overbought * (LastGain(t, RsiPeriod) + LastLoss(t, RsiPeriod)))
             \/ Crossing(t) = "SELL" /\
                  ~(\/ LastLoss(t, RsiPeriod) = 0
                    \/ Oversold * (LastGain(t, RsiPeriod) + LastLoss(t, RsiPeriod))
                         < 100 * LastGain(t, RsiPeriod))
            THEN "none" ELSE Crossing(t)
    BY Confirmed
  <2> QED
    BY <1>2, <1>3, <2>1
<1>6. Len(s) >= RsiPeriod + 2 /\ Crossing(s) # "none" => (buy <=> Sell) /\ (sell <=> Buy)
  <2> SUFFICES ASSUME Len(s) >= RsiPeriod + 2, Crossing(s) # "none"
               PROVE  (buy <=> Sell) /\ (sell <=> Buy)
    OBVIOUS
  <2>1. g \in Nat /\ l \in Nat
    BY RsiBounds
  <2>2. ~(g = 0 /\ l = 0)
    BY NoMoveNoCrossing
  <2> HIDE DEF g, l
  <2>3. buy <=> Sell
    BY <2>1, <2>2, ThresholdsMirror
  <2>4. Buy <=> sell
    BY <2>1, <2>2, ThresholdsMirror
  <2> QED
    BY <2>3, <2>4
<1>7. Len(s) < RsiPeriod + 2 \/ Len(s) >= RsiPeriod + 2
  BY <1>2
<1> HIDE DEF buy, sell, Buy, Sell
<1> QED
  BY <1>1, <1>4, <1>5, <1>6, <1>7 DEF Results, Opposite

\* Neither direction is favoured: in the mirrored market the engine gives the opposite
\* signal, for all periods and all thresholds at the same distance from 50.
THEOREM SignalsMirror == Spec => []MirrorSymmetry
<1>1. IInv => MirrorSymmetry
  <2> SUFFICES ASSUME IInv, Overbought + Oversold = 100
               PROVE  Direction(Mirrored(closes)) = Opposite[Direction(closes)]
    BY DEF MirrorSymmetry
  <2>1. closes \in Seq(Int)
    BY ClosesAreNumbers DEF IInv, TypeOK
  <2>2. Mirrored(closes) \in Seq(Int) /\ IsMirror(closes, Mirrored(closes))
    BY <2>1, MirroredIsMirror
  <2> QED
    BY <2>1, <2>2, DirectionMirrors
<1> QED
  BY <1>1, SpecIInv, PTL

-----------------------------------------------------------------------------
(***************************************************************************)
(* A market that moves one way only.                                       *)
(***************************************************************************)
\* A fast average that follows a rise at least as closely as the slow one does not
\* cross below it.
LEMMA NoSellInRise ==
  ASSUME NEW s \in Seq(Int), NonFalling(s), FastPeriod <= SlowPeriod
  PROVE  Crossing(s) # "SELL"
<1> DEFINE fast == calculate_ema(s, FastPeriod)  slow == calculate_ema(s, SlowPeriod)
<1>1. FastPeriod \in Nat \ {0} /\ SlowPeriod \in Nat \ {0} /\ Len(s) \in Nat
  BY Periods, LenProperties
<1>2. Crossing(s) = CASE CrossesAbove(fast, slow) -> "BUY"
                      [] CrossesAbove(slow, fast) -> "SELL"
                      [] OTHER -> "none"
  BY DEF Crossing
<1>3. ASSUME CrossesAbove(slow, fast) PROVE FALSE
  <2>1. Len(slow) >= 2 /\ Less(Last(s, FastPeriod), Last(s, SlowPeriod))
    BY <1>3 DEF CrossesAbove, Last
  <2>2. SlowPeriod <= Len(s) /\ FastPeriod <= Len(s) /\ Len(s) \in SlowPeriod..Len(s)
    BY <1>1, <2>1, EmaValues
  <2>3. /\ Last(s, FastPeriod) = Smoothed(s, FastPeriod, 2)[Len(s)]
        /\ Last(s, SlowPeriod) = Smoothed(s, SlowPeriod, 2)[Len(s)]
    BY <1>1, <2>2, LastValue
  <2>4. AtMost(Smoothed(s, SlowPeriod, 2)[Len(s)], Smoothed(s, FastPeriod, 2)[Len(s)])
    BY <1>1, <2>2, SlowStaysBelow
  <2> QED
    BY <2>1, <2>3, <2>4 DEF AtMost
<1> HIDE DEF fast, slow
<1> QED
  BY <1>2, <1>3

\* The rise gives no BUY either: RSI has seen no loss and stands at 100.
LEMMA NoSignalInRise ==
  ASSUME NEW s \in Seq(Int), NonFalling(s), FastPeriod <= SlowPeriod
  PROVE  Direction(s) = "none"
<1>1. Crossing(s) \in {"none", "BUY"}
  BY NoSellInRise, Answers DEF Results
<1>2. RsiPeriod \in Nat \ {0, 1} /\ Len(s) \in Nat
  BY PeriodAssumption, LenProperties
<1>3. Len(s) < RsiPeriod + 2 \/ LastLoss(s, RsiPeriod) = 0
  BY <1>2, NoLossInRise
<1> QED
  BY <1>1, <1>3, Confirmed

\* In a fall RSI has seen no gain, and stands at 0 where it has seen a loss.
LEMMA NoSignalInFall ==
  ASSUME NEW s \in Seq(Int), NEW t \in Seq(Int), IsMirror(s, t), NonFalling(t),
         FastPeriod <= SlowPeriod
  PROVE  Direction(s) = "none"
<1> DEFINE g == LastGain(s, RsiPeriod)  l == LastLoss(s, RsiPeriod)
<1>1. Crossing(s) \in {"none", "SELL"}
  <2>1. Crossing(t) = Opposite[Crossing(s)] /\ Crossing(t) # "SELL"
    BY CrossingMirrors, NoSellInRise
  <2>2. Crossing(s) \in Results
    BY Answers
  <2> QED
    BY <2>1, <2>2 DEF Results, Opposite
<1>2. RsiPeriod \in Nat \ {0, 1} /\ Len(s) \in Nat /\ Len(t) = Len(s)
  BY PeriodAssumption, LenProperties DEF IsMirror
<1>3. CASE Len(s) < RsiPeriod + 2
  BY <1>3, Confirmed
<1>4. CASE Len(s) >= RsiPeriod + 2
  <2>1. g = 0
    <3>1. LastLoss(t, RsiPeriod) = 0
      BY <1>2, <1>4, NoLossInRise
    <3>2. LastLoss(t, RsiPeriod) = LastGain(s, RsiPeriod)
      BY RsiMirrors
    <3> QED
      BY <3>1, <3>2
  <2>2. l \in Nat
    BY <1>4, RsiBounds
  <2>3. CASE l = 0
    <3>1. Crossing(s) = "none"
      BY <1>4, <2>1, <2>3, NoMoveNoCrossing
    <3> QED
      BY <3>1, Confirmed
  <2>4. CASE l # 0
    <3>1. ~(l = 0 \/ Oversold * (g + l) < 100 * g)
      <4>1. Oversold \in Nat
        BY ThresholdAssumption
      <4> HIDE DEF g, l
      <4>2. Oversold * l \in Nat /\ g + l = l /\ 100 * g = 0
        BY <2>1, <2>2, <4>1, NatProduct
      <4> QED
        BY <2>4, <4>2
    <3> QED
      BY <1>1, <3>1, Confirmed
  <2> QED
    BY <2>3, <2>4
<1> QED
  BY <1>2, <1>3, <1>4

\* A signal is not against all that the list shows, for all prices, thresholds and
\* periods of which the fast one is not the longer one.  The code accepts either
\* order; with a longer fast period a steady rise gives a SELL.  (The lemmas say more
\* than the theorem needs: a list that never falls gives no BUY either.)
THEOREM NoCounterTrend == FastPeriod <= SlowPeriod => (Spec => []NoSignalAgainstTrend)
<1> SUFFICES ASSUME FastPeriod <= SlowPeriod PROVE Spec => []NoSignalAgainstTrend
  OBVIOUS
<1>1. IInv => NoSignalAgainstTrend
  <2> SUFFICES ASSUME IInv
               PROVE  /\ Direction(closes) = "SELL" =>
                           \E i \in 2..Len(closes) : closes[i] < closes[i - 1]
                      /\ Direction(closes) = "BUY" =>
                           \E i \in 2..Len(closes) : closes[i] > closes[i - 1]
    BY DEF NoSignalAgainstTrend
  <2> DEFINE t == Mirrored(closes)
  <2>1. closes \in Seq(Int) /\ t \in Seq(Int) /\ IsMirror(closes, t)
    BY ClosesAreNumbers, MirroredIsMirror DEF IInv, TypeOK
  <2> HIDE DEF t
  <2>2. \A i \in 2..Len(closes) : /\ closes[i] \in Int /\ closes[i - 1] \in Int
                                  /\ t[i] = -closes[i] /\ t[i - 1] = -closes[i - 1]
    <3> SUFFICES ASSUME NEW i \in 2..Len(closes)
                 PROVE  /\ closes[i] \in Int /\ closes[i - 1] \in Int
                        /\ t[i] = -closes[i] /\ t[i - 1] = -closes[i - 1]
      OBVIOUS
    <3>1. Len(closes) \in Nat /\ i \in 1..Len(closes) /\ i - 1 \in 1..Len(closes)
      BY <2>1, LenProperties
    <3> QED
      BY <2>1, <3>1, ElementOfSeq DEF IsMirror
  <2>3. ASSUME Direction(closes) = "SELL"
        PROVE  \E i \in 2..Len(closes) : closes[i] < closes[i - 1]
    <3>1. ~NonFalling(closes)
      BY <2>1, <2>3, NoSignalInRise
    <3> QED
      BY <2>2, <3>1 DEF NonFalling
  <2>4. ASSUME Direction(closes) = "BUY"
        PROVE  \E i \in 2..Len(closes) : closes[i] > closes[i - 1]
    <3>1. ~NonFalling(t)
      BY <2>1, <2>4, NoSignalInFall
    <3>2. PICK i \in 2..Len(t) : ~(t[i - 1] <= t[i])
      BY <3>1 DEF NonFalling
    <3>3. i \in 2..Len(closes)
      BY <2>1, <3>2 DEF IsMirror
    <3>4. ~(-closes[i - 1] <= -closes[i])
      BY <2>2, <3>2, <3>3
    <3> QED
      BY <2>2, <3>3, <3>4
  <2> QED
    BY <2>3, <2>4
<1> QED
  BY <1>1, SpecIInv, PTL

-----------------------------------------------------------------------------
(***************************************************************************)
(* The warm-up.                                                            *)
(***************************************************************************)
\* A signal needs a value before the last of both averages, and a value of RSI.
LEMMA SignalNeedsHistory ==
  ASSUME NEW s \in Seq(Int), Direction(s) # "none"
  PROVE  Len(s) > LongestPeriod /\ Len(s) > RsiPeriod + 1
<1>1. Len(s) \in Nat /\ LongestPeriod \in Nat /\ RsiPeriod \in Nat
  BY Periods, PeriodAssumption, LenProperties
<1>2. Crossing(s) # "none" /\ ~(Len(s) < RsiPeriod + 2)
  BY Confirmed
<1>3. ~(Len(s) <= LongestPeriod)
  BY <1>2, NoCrossingYet
<1> QED
  BY <1>1, <1>2, <1>3

\* The warm-up of a list: too short for an average to have crossed, or for RSI.
WarmingUp(s) == Len(s) <= LongestPeriod \/ Len(s) <= RsiPeriod + 1

LEMMA ScanWhileWarmingUp ==
  ASSUME IInv, Scan, answer'.result \in {"BUY", "SELL"}
  PROVE  ~WarmingUp(closes)
<1>1. PICK tick \in Ticks \cup {NoTick}, hour \in Hours, open \in BOOLEAN :
        LET result == check_signal(closes, tick, hour, open)
        IN  answer' = IF result \in {"BUY", "SELL"}
                        THEN Answer(result, tick, construct_trade_command(result, tick))
                        ELSE Answer(result, NoTick, NoCommand)
  BY DEF Scan
<1> DEFINE result == check_signal(closes, tick, hour, open)
<1>2. result = answer'.result
  <2> HIDE DEF result
  <2> QED
    BY <1>1 DEF Answer, result
<1>3. result = Direction(closes)
  BY <1>2 DEF check_signal
<1>4. closes \in Seq(Int)
  BY ClosesAreNumbers DEF IInv, TypeOK
<1>5. Len(closes) > LongestPeriod /\ Len(closes) > RsiPeriod + 1
  <2> HIDE DEF result
  <2> QED
    BY <1>2, <1>3, <1>4, SignalNeedsHistory
<1>6. Len(closes) \in Nat /\ LongestPeriod \in Nat /\ RsiPeriod \in Nat
  BY <1>4, Periods, PeriodAssumption, LenProperties
<1> QED
  BY <1>5, <1>6 DEF WarmingUp

\* No scan answers BUY or SELL before both averages have a value for the candle before
\* the last and RSI has one.  check_signal itself asks for slow_period candles only,
\* which is fewer: the last guards are the lengths of the three lists of averages.
THEOREM NoSignalWhileWarmingUp ==
  Spec => [][Scan /\ WarmingUp(closes) => answer'.result \notin {"BUY", "SELL"}]_vars
<1> DEFINE A == Scan /\ WarmingUp(closes) => answer'.result \notin {"BUY", "SELL"}
<1>1. IInv => A
  BY ScanWhileWarmingUp
<1> HIDE DEF A
<1>2. Spec => [][A]_vars
  BY <1>1, SpecIInv, PTL
<1> QED
  BY <1>2 DEF A

\* With an average longer than the list the warm-up has no end: the settings allow
\* ema_slow_period up to 200 and the list keeps 100 candles.  The bounds are exact: with
\* LongestPeriod = Capacity or RsiPeriod = Capacity - 1 a signal needs the candle that
\* has been pushed and not yet been trimmed.
THEOREM WarmUpWithoutEnd ==
  LongestPeriod > Capacity \/ RsiPeriod >= Capacity =>
    (Spec => [](answer.result \notin {"BUY", "SELL"}))
<1> SUFFICES ASSUME LongestPeriod > Capacity \/ RsiPeriod >= Capacity
             PROVE  Spec => [](answer.result \notin {"BUY", "SELL"})
  OBVIOUS
<1> DEFINE Silent == answer.result \notin {"BUY", "SELL"}
<1>1. Init => Silent
  BY DEF Init, Answer
<1>2. IInv => WarmingUp(closes)
  <2> SUFFICES ASSUME IInv PROVE WarmingUp(closes)
    OBVIOUS
  <2>1. Len(closes) \in Nat /\ Len(closes) <= Capacity + 1
    BY Numbers, LenProperties DEF IInv, TypeOK
  <2>2. LongestPeriod \in Nat /\ RsiPeriod \in Nat /\ Capacity \in Nat
    BY Periods, PeriodAssumption, Numbers
  <2> QED
    BY <2>1, <2>2 DEF WarmingUp
<1>3. IInv /\ Silent /\ [Next]_vars => Silent'
  <2> SUFFICES ASSUME IInv, Silent, [Next]_vars PROVE Silent'
    OBVIOUS
  <2>1. CASE Scan
    BY <1>2, <2>1, ScanWhileWarmingUp
  <2>2. CASE PushCandle \/ TrimCandles \/ UNCHANGED vars
    BY <2>2 DEF PushCandle, TrimCandles, vars
  <2> QED
    BY <2>1, <2>2 DEF Next
<1> HIDE DEF Silent
<1>4. Spec => []Silent
  BY <1>1, <1>3, SpecIInv, PTL DEF Spec
<1> QED
  BY <1>4 DEF Silent

-----------------------------------------------------------------------------
(***************************************************************************)
(* The weights of the prices in an exponential average.                    *)
(***************************************************************************)
LEMMA PowersTable ==
  ASSUME NEW b \in Int, NEW n \in Nat
  PROVE  /\ Powers(b, n)[0] = 1
         /\ \A k \in 0..n : Powers(b, n)[k] \in Int
         /\ \A k \in 1..n : Powers(b, n)[k] = b * Powers(b, n)[k - 1]
<1> DEFINE F == [i \in 0..n |-> [v \in Int |-> b * v]]
           IsPower(h) == h = [i \in 0..n |-> IF i = 0 THEN 1 ELSE b * h[i - 1]]
           power == CHOOSE h : IsPower(h)
<1>1. 0 \in Int /\ 1 \in Int /\ n \in Int /\ F \in [0..n -> [Int -> Int]]
  OBVIOUS
<1>2. PICK g \in [0..n -> Int] : Recurs(g, 0, n, 1, F)
  <2> HIDE DEF F
  <2> QED
    BY <1>1, IntervalRecursion, Zenon
<1>3. IsPower(g)
  <2>1. ASSUME NEW i \in 0..n, i # 0 PROVE F[i][g[i - 1]] = b * g[i - 1]
    <3>1. i - 1 \in 0..n
      BY <2>1
    <3>2. g[i - 1] \in Int
      BY <3>1
    <3> QED
      BY <3>2
  <2>2. \A i \in 0..n : g[i] = IF i = 0 THEN 1 ELSE b * g[i - 1]
    BY <1>2, <2>1 DEF Recurs
  <2> QED
    BY <2>2
<1>4. IsPower(power)
  <2> HIDE DEF IsPower
  <2> QED
    BY <1>3
<1>5. Powers(b, n) = power
  BY DEF Powers
<1> HIDE DEF power, F
<1>6. \A i \in 0..n : power[i] = IF i = 0 THEN 1 ELSE b * power[i - 1]
  BY <1>4
<1> HIDE DEF IsPower
<1>7. \A i \in 0..n : power[i] \in Int
  <2> DEFINE T == {j \in 0..n : power[j] \in Int}
  <2>1. 0 <= n => 0 \in T
    BY <1>6
  <2>2. ASSUME NEW i \in (0 + 1)..n, i - 1 \in T PROVE i \in T
    <3>1. i \in 0..n /\ i # 0 /\ power[i - 1] \in Int
      BY <2>2
    <3>2. power[i] = b * power[i - 1]
      BY <1>6, <3>1
    <3> QED
      BY <3>1, <3>2
  <2> HIDE DEF T
  <2>3. \A i \in 0..n : i \in T
    BY <1>1, <2>1, <2>2, IntervalInduction, Zenon
  <2> QED
    BY <2>3 DEF T
<1>8. power[0] = 1 /\ \A k \in 1..n : power[k] = b * power[k - 1]
  BY <1>6
<1> QED
  BY <1>5, <1>7, <1>8

\* A factor of the elements is a factor of their sum.
LEMMA ScaledSum ==
  ASSUME NEW s \in Seq(Int), NEW t \in Seq(Int), NEW c \in Int, NEW m \in Nat,
         m <= Len(s), m <= Len(t), \A i \in 1..m : t[i] = c * s[i]
  PROVE  SumOfFirst(t, m) = c * SumOfFirst(s, m)
<1> DEFINE T == {k \in 0..m : SumOfFirst(t, k) = c * SumOfFirst(s, k)}
<1>1. /\ Len(s) \in Nat /\ Len(t) \in Nat
      /\ \A i \in 1..Len(s) : s[i] \in Int
  BY LenProperties, ElementOfSeq
<1>2. 0 <= m => 0 \in T
  BY Sums
<1>3. ASSUME NEW k \in (0 + 1)..m, k - 1 \in T PROVE k \in T
  <2>1. /\ k \in 1..m /\ k \in 0..m /\ k \in 1..Len(s) /\ k \in 1..Len(t)
        /\ k - 1 \in 0..Len(s) /\ s[k] \in Int
    BY <1>1
  <2>2. /\ SumOfFirst(t, k) = SumOfFirst(t, k - 1) + t[k]
        /\ SumOfFirst(s, k) = SumOfFirst(s, k - 1) + s[k]
        /\ SumOfFirst(s, k - 1) \in Int
    BY <2>1, Sums
  <2>3. \A x, y \in Int : c * x + c * y = c * (x + y)
    OBVIOUS
  <2> QED
    BY <1>3, <2>1, <2>2, <2>3
<1> HIDE DEF T
<1>4. 0 \in Int /\ m \in Int
  OBVIOUS
<1>5. \A k \in 0..m : k \in T
  BY <1>2, <1>3, <1>4, IntervalInduction, Zenon
<1>6. m \in 0..m
  OBVIOUS
<1> QED
  BY <1>5, <1>6 DEF T

LEMMA Weights ==
  ASSUME NEW s \in Seq(Int), NEW p \in Nat \ {0}, NEW k \in Nat, p + k <= Len(s)
  PROVE  LET up   == Powers(p + 1, Len(s))
             down == Powers(p - 1, Len(s))
         IN  /\ WeightedPrices(s, p, k) \in Seq(Int) /\ Len(WeightedPrices(s, p, k)) = k
             /\ \A j \in 1..k : WeightedPrices(s, p, k)[j] = 2 * p * down[k - j] * up[j - 1] * s[p + j]
<1> DEFINE n == Len(s)  up == Powers(p + 1, n)  down == Powers(p - 1, n)
           w == [j \in 1..k |-> 2 * p * down[k - j] * up[j - 1] * s[p + j]]
<1>1. n \in Nat /\ p + 1 \in Int /\ p - 1 \in Int /\ \A i \in 1..n : s[i] \in Int
  BY LenProperties, ElementOfSeq
<1>2. WeightedPrices(s, p, k) = w
  BY DEF WeightedPrices
<1>s. n = Len(s)
  OBVIOUS
<1> HIDE DEF n
<1>3. \A i \in 0..n : up[i] \in Int /\ down[i] \in Int
  BY <1>1, PowersTable
<1> HIDE DEF up, down
<1>4. ASSUME NEW j \in 1..k PROVE 2 * p * down[k - j] * up[j - 1] * s[p + j] \in Int
  <2>1. k - j \in 0..n /\ j - 1 \in 0..n /\ p + j \in 1..n
    BY <1>1, <1>s
  <2>2. down[k - j] \in Int /\ up[j - 1] \in Int /\ s[p + j] \in Int
    BY <1>1, <1>3, <2>1
  <2>3. \A x, y, z \in Int : 2 * p * x * y * z \in Int
    OBVIOUS
  <2> QED
    BY <2>2, <2>3
<1>5. w \in [1..k -> Int]
  BY <1>4
<1> HIDE DEF w
<1>6. w \in Seq(Int) /\ Len(w) = k
  BY <1>5, IsASeq, LenProperties
<1>7. \A j \in 1..k : w[j] = 2 * p * down[k - j] * up[j - 1] * s[p + j]
  BY DEF w
<1> QED
  BY <1>2, <1>6, <1>7 DEF up, down, n

\* The sum of the weighted prices follows the recursion of the average.
LEMMA WeightsStep ==
  ASSUME NEW s \in Seq(Int), NEW p \in Nat \ {0}, NEW k \in Nat \ {0}, p + k <= Len(s)
  PROVE  SumOfFirst(WeightedPrices(s, p, k), k) =
           (p - 1) * SumOfFirst(WeightedPrices(s, p, k - 1), k - 1)
             + 2 * p * Powers(p + 1, Len(s))[k - 1] * s[p + k]
<1> DEFINE n == Len(s)  up == Powers(p + 1, n)  down == Powers(p - 1, n)
           v == WeightedPrices(s, p, k - 1)  w == WeightedPrices(s, p, k)
<1>1. /\ n \in Nat /\ p + 1 \in Int /\ p - 1 \in Int /\ \A i \in 1..n : s[i] \in Int
      /\ k \in Nat /\ k - 1 \in Nat /\ p + (k - 1) <= n /\ k <= n
  BY LenProperties, ElementOfSeq
<1>2. /\ v \in Seq(Int) /\ Len(v) = k - 1
      /\ \A j \in 1..(k - 1) : v[j] = 2 * p * down[(k - 1) - j] * up[j - 1] * s[p + j]
  BY <1>1, Weights
<1>3. /\ w \in Seq(Int) /\ Len(w) = k
      /\ \A j \in 1..k : w[j] = 2 * p * down[k - j] * up[j - 1] * s[p + j]
  BY <1>1, Weights
<1>s. n = Len(s)
  OBVIOUS
<1> HIDE DEF n, v, w
<1>4. /\ \A i \in 0..n : up[i] \in Int /\ down[i] \in Int
      /\ down[0] = 1 /\ \A i \in 1..n : down[i] = (p - 1) * down[i - 1]
  BY <1>1, PowersTable
<1> HIDE DEF up, down
<1>5. \A j \in 1..(k - 1) : w[j] = (p - 1) * v[j]
  <2> SUFFICES ASSUME NEW j \in 1..(k - 1) PROVE w[j] = (p - 1) * v[j]
    OBVIOUS
  <2>1. /\ k - j \in 1..n /\ (k - 1) - j \in 0..n /\ (k - j) - 1 = (k - 1) - j
        /\ j - 1 \in 0..n /\ p + j \in 1..n /\ j \in 1..k
    BY <1>1, <1>s
  <2> DEFINE x == down[(k - 1) - j]  y == up[j - 1]  z == s[p + j]
  <2>2. x \in Int /\ y \in Int /\ z \in Int /\ down[k - j] = (p - 1) * x
    BY <1>1, <1>4, <2>1
  <2>3. v[j] = 2 * p * x * y * z
    BY <1>2
  <2>4. w[j] = 2 * p * ((p - 1) * x) * y * z
    BY <1>3, <2>1, <2>2
  <2> HIDE DEF x, y, z
  <2>5. 2 * p * ((p - 1) * x) * y * z = (p - 1) * (2 * p * x * y * z)
    BY <2>2
  <2> QED
    BY <2>3, <2>4, <2>5
<1>6. w[k] = 2 * p * up[k - 1] * s[p + k]
  <2>1. k \in 1..k /\ k - k = 0 /\ k - 1 \in 0..n /\ p + k \in 1..n
    BY <1>1, <1>s
  <2>2. up[k - 1] \in Int /\ s[p + k] \in Int
    BY <1>1, <1>4, <2>1
  <2>3. w[k] = 2 * p * 1 * up[k - 1] * s[p + k]
    BY <1>3, <1>4, <2>1
  <2>4. 2 * p * 1 = 2 * p
    OBVIOUS
  <2> QED
    BY <2>3, <2>4
<1>7. SumOfFirst(w, k) = SumOfFirst(w, k - 1) + w[k]
  <2>1. k \in 1..Len(w)
    BY <1>1, <1>3
  <2> QED
    BY <1>3, <2>1, Sums
<1>8. SumOfFirst(w, k - 1) = (p - 1) * SumOfFirst(v, k - 1)
  <2>1. /\ v \in Seq(Int) /\ w \in Seq(Int) /\ p - 1 \in Int /\ k - 1 \in Nat
        /\ k - 1 <= Len(v) /\ k - 1 <= Len(w)
    BY <1>1, <1>2, <1>3
  <2> QED
    BY <1>5, <2>1, ScaledSum
<1> QED
  BY <1>6, <1>7, <1>8 DEF v, w, up, n

\* The average after the k-th price that follows the seed.
Closed(s, p, i) ==
  LET a == Smoothed(s, p, 2)[i]
      k == i - p
  IN  /\ a.d = p * Powers(p + 1, Len(s))[k]
      /\ a.n = Powers(p - 1, Len(s))[k] * SumOfFirst(s, p)
                 + SumOfFirst(WeightedPrices(s, p, k), k)

LEMMA AveragesAreClosed ==
  ASSUME NEW s \in Seq(Int), NEW p \in Nat \ {0}
  PROVE  \A i \in p..Len(s) : Closed(s, p, i)
<1> DEFINE n == Len(s)  a == Smoothed(s, p, 2)  up == Powers(p + 1, n)  down == Powers(p - 1, n)
           T == {i \in p..n : Closed(s, p, i)}
<1>1. /\ n \in Nat /\ n \in Int /\ p \in Int /\ 2 \in Nat \ {0}
      /\ p + 1 \in Int /\ p - 1 \in Int /\ \A i \in 1..n : s[i] \in Int
  BY LenProperties, ElementOfSeq
<1>2. /\ \A i \in p..n : a[i] \in Fraction
      /\ p <= n => a[p] = [n |-> SumOfFirst(s, p), d |-> p]
      /\ \A i \in (p + 1)..n : a[i] = Smooth(a[i - 1], s[i], p, 2)
  <2>1. 2 \in Nat \ {0}
    OBVIOUS
  <2> HIDE <1>1
  <2> QED
    BY <2>1, Averages
<1>3. /\ up[0] = 1 /\ down[0] = 1
      /\ \A k \in 0..n : up[k] \in Int /\ down[k] \in Int
      /\ \A k \in 1..n : up[k] = (p + 1) * up[k - 1] /\ down[k] = (p - 1) * down[k - 1]
  BY <1>1, PowersTable
<1>s. n = Len(s)
  OBVIOUS
<1>4. \A i : Closed(s, p, i) <=>
        /\ a[i].d = p * up[i - p]
        /\ a[i].n = down[i - p] * SumOfFirst(s, p) + SumOfFirst(WeightedPrices(s, p, i - p), i - p)
  BY DEF Closed
<1> HIDE DEF n, a, up, down
<1>5. p <= n => p \in T
  <2> SUFFICES ASSUME p <= n PROVE Closed(s, p, p)
    BY <1>1
  <2>1. p - p = 0 /\ p \in 0..n /\ 0 \in Nat /\ p + 0 <= Len(s)
    BY <1>1, <1>s
  <2>2. SumOfFirst(s, p) \in Int /\ SumOfFirst(WeightedPrices(s, p, 0), 0) = 0
    <3>1. WeightedPrices(s, p, 0) \in Seq(Int)
      BY <2>1, Weights
    <3> QED
      BY <1>s, <2>1, <3>1, Sums
  <2>3. a[p].n = SumOfFirst(s, p) /\ a[p].d = p
    BY <1>2
  <2>4. \A x \in Int : 1 * x + 0 = x /\ p = p * 1
    OBVIOUS
  <2> QED
    BY <1>3, <1>4, <2>1, <2>2, <2>3, <2>4
<1>6. ASSUME NEW i \in (p + 1)..n, i - 1 \in T PROVE i \in T
  <2> DEFINE k == i - p  m == a[i - 1].n  d == a[i - 1].d  x == s[i]
             u == up[k - 1]  e == down[k - 1]
             seed == SumOfFirst(s, p)  later == SumOfFirst(WeightedPrices(s, p, k - 1), k - 1)
  <2>1. /\ k \in Nat \ {0} /\ k \in 1..n /\ k - 1 \in 0..n /\ p + k = i /\ p + k <= Len(s)
        /\ (i - 1) - p = k - 1 /\ k - 1 \in Nat /\ p + (k - 1) <= Len(s)
        /\ i \in p..n /\ i \in 1..n /\ p \in 0..Len(s)
    BY <1>1, <1>s
  <2>2. u \in Int /\ e \in Int /\ x \in Int /\ up[k] = (p + 1) * u /\ down[k] = (p - 1) * e
    BY <1>1, <1>3, <2>1
  <2>3. seed \in Int /\ later \in Int
    <3>1. seed \in Int
      BY <2>1, Sums
    <3>2. WeightedPrices(s, p, k - 1) \in Seq(Int) /\ Len(WeightedPrices(s, p, k - 1)) = k - 1
      BY <2>1, Weights
    <3>3. k - 1 \in 0..Len(WeightedPrices(s, p, k - 1))
      BY <2>1, <3>2
    <3> HIDE DEF k
    <3>4. later \in Int
      BY <3>2, <3>3, Sums
    <3> QED
      BY <3>1, <3>4
  <2>4. d = p * u /\ m = e * seed + later
    BY <1>4, <1>6, <2>1
  <2>5. a[i].n = 2 * x * d + (p - 1) * m /\ a[i].d = (p - 1 + 2) * d
    <3>1. a[i] = Smooth(a[i - 1], s[i], p, 2)
      BY <1>2
    <3> QED
      BY <3>1 DEF Smooth
  <2>6. SumOfFirst(WeightedPrices(s, p, k), k) = (p - 1) * later + 2 * p * u * x
    <3> HIDE DEF k
    <3> QED
      BY <1>s, <2>1, WeightsStep DEF up
  <2>7. Closed(s, p, i) <=> /\ a[i].d = p * up[k]
                            /\ a[i].n = down[k] * seed + SumOfFirst(WeightedPrices(s, p, k), k)
    BY <1>4
  <2> HIDE DEF m, d, x, u, e, seed, later, k
  <2>8. (p - 1 + 2) * (p * u) = p * ((p + 1) * u)
    BY <1>1, <2>2
  <2>9. 2 * x * (p * u) + (p - 1) * (e * seed + later)
          = ((p - 1) * e) * seed + ((p - 1) * later + 2 * p * u * x)
    BY <1>1, <2>2, <2>3
  <2>10. Closed(s, p, i)
    BY <2>2, <2>4, <2>5, <2>6, <2>7, <2>8, <2>9
  <2> QED
    BY <2>1, <2>10
<1> HIDE DEF T
<1>7. \A i \in p..n : i \in T
  BY <1>1, <1>5, <1>6, IntervalInduction, Zenon
<1> QED
  BY <1>7 DEF T, n

\* Every value of calculate_ema is the weighted mean of the prices up to it, for all
\* periods and prices: the seed and each price keep the weight that the recursion gives
\* them, however long the list is.
THEOREM EmaWeights == Spec => []EmaIsWeightedMean
<1>1. IInv => EmaIsWeightedMean
  <2> SUFFICES ASSUME IInv, NEW p \in {FastPeriod, SlowPeriod}, NEW k \in 0..(Len(closes) - p)
               PROVE  calculate_ema(closes, p)[k + 1].n * (p * Powers(p + 1, Len(closes))[k]) =
                        calculate_ema(closes, p)[k + 1].d *
                          (Powers(p - 1, Len(closes))[k] * SumOfFirst(closes, p)
                             + SumOfFirst(WeightedPrices(closes, p, k), k))
    BY DEF EmaIsWeightedMean
  <2> DEFINE a == Smoothed(closes, p, 2)[k + p]  e == calculate_ema(closes, p)[k + 1]
             d == p * Powers(p + 1, Len(closes))[k]
             m == Powers(p - 1, Len(closes))[k] * SumOfFirst(closes, p)
                    + SumOfFirst(WeightedPrices(closes, p, k), k)
  <2>1. closes \in Seq(Int) /\ p \in Nat \ {0} /\ 2 \in Nat \ {0} /\ Len(closes) \in Nat
    BY Periods, ClosesAreNumbers, LenProperties DEF IInv, TypeOK
  <2>2. /\ k + p \in p..Len(closes) /\ (k + p) - p = k
        /\ k + 1 \in 1..(Len(closes) - p + 1) /\ (k + 1) + p - 1 = k + p
    BY <2>1
  <2>3. e = a
    BY <2>1, <2>2, EmaValues
  <2>4. a \in Fraction
    BY <2>1, <2>2, Averages
  <2>5. a.d = d /\ a.n = m
    BY <2>1, <2>2, AveragesAreClosed DEF Closed
  <2> HIDE DEF a, e, d, m
  <2>6. e.n * d = e.d * m
    <3>1. d \in Int /\ m \in Int
      BY <2>4, <2>5 DEF Fraction
    <3>2. m * d = d * m
      BY <3>1
    <3> QED
      BY <2>3, <2>5, <3>2
  <2> QED
    BY <2>6 DEF e, d, m
<1> QED
  BY <1>1, SpecIInv, PTL
=============================================================================
