------------------------- MODULE Indicators_proofs -------------------------
(***************************************************************************)
(* Lemmas about the averages of Indicators: what their recursions define,  *)
(* that a candle at the end leaves the values before it alone, what        *)
(* becomes of them in the mirrored market, and how they follow a rise.     *)
(***************************************************************************)
EXTENDS Indicators, SequenceTheorems, WellFoundedInduction, TLAPS

Fraction == [n : Int, d : Nat \ {0}]

-----------------------------------------------------------------------------
(***************************************************************************)
(* Induction and recursion over an interval.  The predicate is a set and   *)
(* the step a function, so that both can be instantiated.                  *)
(***************************************************************************)
LEMMA WellFounded == IsWellFoundedOn({ss \in Nat \X Nat : ss[1] < ss[2]}, Nat)
BY NatLessThanWellFounded, Zenon DEF OpToRel

\* A set of natural numbers has a least element.
LEMMA Least ==
  ASSUME NEW T \in SUBSET Nat, T # {}
  PROVE  \E x \in T : \A y \in T : x <= y
<1> DEFINE R == {ss \in Nat \X Nat : ss[1] < ss[2]}
<1>1. IsWellFoundedOn(R, Nat)
  BY WellFounded
<1> HIDE DEF R
<1>2. PICK x \in T : \A y \in T : ~ (<<y, x>> \in R)
  BY <1>1, WFMin
<1>3. ASSUME NEW y \in T PROVE x <= y
  <2>1. <<y, x>> \in Nat \X Nat
    OBVIOUS
  <2>2. ~(y < x)
    BY <1>2, <2>1 DEF R
  <2> QED
    BY <2>2
<1> QED
  BY <1>3

LEMMA IntervalInduction ==
  ASSUME NEW a \in Int, NEW b \in Int, NEW T,
         a <= b => a \in T,
         \A i \in (a + 1)..b : i - 1 \in T => i \in T
  PROVE  \A i \in a..b : i \in T
<1> DEFINE U == {k \in Nat : a + k <= b /\ a + k \notin T}
<1>1. CASE U = {}
  <2> SUFFICES ASSUME NEW i \in a..b PROVE i \in T
    OBVIOUS
  <2> DEFINE k == i - a
  <2>1. k \in Nat /\ a + k = i
    OBVIOUS
  <2> HIDE DEF k
  <2>2. k \in U => FALSE
    <3> HIDE DEF U
    <3> QED
      BY <1>1
  <2>3. a + k <= b
    BY <2>1
  <2>4. a + k \in T
    BY <2>1, <2>2, <2>3
  <2> QED
    BY <2>1, <2>4
<1>2. CASE U # {}
  <2>1. PICK k \in U : \A y \in U : k <= y
    BY <1>2, Least
  <2>2. k # 0
    OBVIOUS
  <2>3. k - 1 \in Nat /\ ~(k <= k - 1) /\ a + (k - 1) <= b
    BY <2>2
  <2>4. k - 1 \notin U
    BY <2>1, <2>3
  <2>5. a + (k - 1) \in T
    BY <2>3, <2>4
  <2>6. a + k \in (a + 1)..b /\ (a + k) - 1 = a + (k - 1)
    BY <2>3
  <2> QED
    BY <2>5, <2>6
<1> QED
  BY <1>1, <1>2

Recurs(g, a, b, seed, F) ==
  \A i \in a..b : g[i] = IF i = a THEN seed ELSE F[i][g[i - 1]]

\* What a recursion over an interval defines exists.
LEMMA IntervalRecursion ==
  ASSUME NEW a \in Int, NEW b \in Int, NEW V, NEW seed \in V,
         NEW F \in [a..b -> [V -> V]]
  PROVE  \E g \in [a..b -> V] : Recurs(g, a, b, seed, F)
<1> USE DEF Recurs
<1> DEFINE Good(g, m) == \A i \in a..m : g[i] = IF i = a THEN seed ELSE F[i][g[i - 1]]
           T == {m \in a..b : \E g \in [a..m -> V] : Good(g, m)}
<1>1. CASE a > b
  <2>1. a..b = {}
    BY <1>1
  <2>2. [i \in a..b |-> seed] \in [a..b -> V]
    OBVIOUS
  <2> QED
    BY <2>1, <2>2
<1>2. CASE a <= b
  <2>1. a \in T
    <3> DEFINE g == [i \in a..a |-> seed]
    <3>1. g \in [a..a -> V]
      OBVIOUS
    <3>2. Good(g, a)
      OBVIOUS
    <3>3. a \in a..b
      BY <1>2
    <3> HIDE DEF g, Good
    <3> QED
      BY <3>1, <3>2, <3>3
  <2>2. ASSUME NEW m \in (a + 1)..b, m - 1 \in T PROVE m \in T
    <3>1. PICK g \in [a..(m - 1) -> V] : Good(g, m - 1)
      BY <2>2
    <3> DEFINE h == [i \in a..m |-> IF i = m THEN F[m][g[m - 1]] ELSE g[i]]
    <3>2. F[m][g[m - 1]] \in V
      <4>1. m \in a..b /\ g[m - 1] \in V
        OBVIOUS
      <4> QED
        BY <4>1
    <3>3. h \in [a..m -> V]
      <4> SUFFICES ASSUME NEW i \in a..m, i # m PROVE g[i] \in V
        BY <3>2
      <4>1. i \in a..(m - 1)
        OBVIOUS
      <4> QED
        BY <4>1
    <3>4. Good(h, m)
      <4> SUFFICES ASSUME NEW i \in a..m PROVE h[i] = IF i = a THEN seed ELSE F[i][h[i - 1]]
        OBVIOUS
      <4>1. CASE i = m
        <5>1. i # a /\ i - 1 \in a..m /\ i - 1 # m
          BY <4>1
        <5> QED
          BY <4>1, <5>1
      <4>2. CASE i # m
        <5>1. i \in a..(m - 1)
          BY <4>2
        <5>2. g[i] = IF i = a THEN seed ELSE F[i][g[i - 1]]
          BY <3>1, <5>1
        <5>3. i # a => i - 1 \in a..m /\ i - 1 # m
          BY <5>1
        <5> QED
          BY <4>2, <5>2, <5>3
      <4> QED
        BY <4>1, <4>2
    <3> HIDE DEF h, Good
    <3>5. m \in a..b
      OBVIOUS
    <3> QED
      BY <3>3, <3>4, <3>5
  <2> HIDE DEF T
  <2>3. b \in T
    <3>1. \A i \in a..b : i \in T
      BY <2>1, <2>2, IntervalInduction
    <3> QED
      BY <1>2, <3>1
  <2>4. PICK g \in [a..b -> V] : Good(g, b)
    BY <2>3 DEF T
  <2> QED
    BY <2>4
<1> QED
  BY <1>1, <1>2

-----------------------------------------------------------------------------
(***************************************************************************)
(* What the recursive functions of Indicators compute.                     *)
(***************************************************************************)
LEMMA Sums ==
  ASSUME NEW s \in Seq(Int)
  PROVE  /\ SumOfFirst(s, 0) = 0
         /\ \A k \in 0..Len(s) : SumOfFirst(s, k) \in Int
         /\ \A k \in 1..Len(s) : SumOfFirst(s, k) = SumOfFirst(s, k - 1) + s[k]
<1> DEFINE n == Len(s)
           F == [i \in 0..n |-> [v \in Int |-> v + (IF i = 0 THEN 0 ELSE s[i])]]
           IsSum(h) == h = [i \in 0..n |-> IF i = 0 THEN 0 ELSE h[i - 1] + s[i]]
           sum == CHOOSE h : IsSum(h)
<1>1. n \in Nat /\ 0 \in Int /\ n \in Int /\ \A i \in 1..n : s[i] \in Int
  BY LenProperties, ElementOfSeq
<1>2. F \in [0..n -> [Int -> Int]]
  BY <1>1
<1> HIDE DEF n
<1>3. PICK g \in [0..n -> Int] : Recurs(g, 0, n, 0, F)
  <2> HIDE DEF F
  <2> QED
    BY <1>1, <1>2, IntervalRecursion, Zenon
<1>4. IsSum(g)
  <2>1. ASSUME NEW i \in 0..n, i # 0 PROVE F[i][g[i - 1]] = g[i - 1] + s[i]
    <3>1. i - 1 \in 0..n /\ g[i - 1] \in Int
      BY <1>1, <2>1
    <3> QED
      BY <2>1, <3>1
  <2>2. \A i \in 0..n : g[i] = IF i = 0 THEN 0 ELSE g[i - 1] + s[i]
    BY <1>3, <2>1 DEF Recurs
  <2> QED
    BY <2>2
<1>5. IsSum(sum)
  <2> HIDE DEF IsSum
  <2> QED
    BY <1>4
<1>6. \A k : SumOfFirst(s, k) = sum[k]
  BY DEF SumOfFirst, n
<1> HIDE DEF sum, F
<1>7. \A i \in 0..n : sum[i] = IF i = 0 THEN 0 ELSE sum[i - 1] + s[i]
  BY <1>5
<1> HIDE DEF IsSum
<1>8. \A i \in 0..n : sum[i] \in Int
  <2> DEFINE T == {j \in 0..n : sum[j] \in Int}
  <2>1. 0 <= n => 0 \in T
    BY <1>1, <1>7
  <2>2. ASSUME NEW i \in (0 + 1)..n, i - 1 \in T PROVE i \in T
    <3>1. i \in 0..n /\ i # 0 /\ s[i] \in Int /\ sum[i - 1] \in Int
      BY <1>1, <2>2
    <3>2. sum[i] = sum[i - 1] + s[i]
      BY <1>7, <3>1
    <3> QED
      BY <3>1, <3>2
  <2> HIDE DEF T
  <2>3. \A i \in 0..n : i \in T
    BY <1>1, <2>1, <2>2, IntervalInduction, Zenon
  <2> QED
    BY <2>3 DEF T
<1>9. sum[0] = 0 /\ \A k \in 1..n : sum[k] = sum[k - 1] + s[k]
  BY <1>1, <1>7
<1> QED
  BY <1>6, <1>8, <1>9 DEF n

LEMMA SmoothFraction ==
  ASSUME NEW last \in Fraction, NEW x \in Int, NEW p \in Nat \ {0}, NEW w \in Nat \ {0}
  PROVE  /\ Smooth(last, x, p, w) \in Fraction
         /\ Smooth(last, x, p, w).n = w * x * last.d + (p - 1) * last.n
         /\ Smooth(last, x, p, w).d = (p - 1 + w) * last.d
<1>1. (p - 1 + w) * last.d \in Nat \ {0}
  <2>1. p - 1 + w \in Nat \ {0} /\ last.d \in Nat \ {0}
    BY DEF Fraction
  <2>2. \A a, b \in Nat \ {0} : a * b \in Nat \ {0}
    OBVIOUS
  <2> QED
    BY <2>1, <2>2
<1>2. w * x * last.d + (p - 1) * last.n \in Int
  BY DEF Fraction
<1> QED
  BY <1>1, <1>2 DEF Smooth, Fraction

\* The table of averages follows its equation.
LEMMA Averages ==
  ASSUME NEW xs \in Seq(Int), NEW p \in Nat \ {0}, NEW w \in Nat \ {0}
  PROVE  LET avg == Smoothed(xs, p, w)
         IN  /\ \A i \in p..Len(xs) : avg[i] \in Fraction
             /\ p <= Len(xs) => avg[p] = [n |-> SumOfFirst(xs, p), d |-> p]
             /\ \A i \in (p + 1)..Len(xs) : avg[i] = Smooth(avg[i - 1], xs[i], p, w)
<1> DEFINE n == Len(xs)
           seed == [n |-> SumOfFirst(xs, p), d |-> p]
           F == [i \in p..n |-> [v \in Fraction |-> Smooth(v, xs[i], p, w)]]
           IsAvg(h) == h = [i \in p..n |-> IF i = p THEN seed ELSE Smooth(h[i - 1], xs[i], p, w)]
           avg == CHOOSE h : IsAvg(h)
<1>1. n \in Nat /\ n \in Int /\ p \in Int /\ \A i \in 1..n : xs[i] \in Int
  BY LenProperties, ElementOfSeq
<1>2. \A i \in p..n : i \in 1..n /\ xs[i] \in Int
  BY <1>1
<1>3. Smoothed(xs, p, w) = avg
  BY DEF Smoothed
<1>s. n = Len(xs)
  OBVIOUS
<1> HIDE DEF n
<1>4. CASE p > n
  BY <1>1, <1>s, <1>4
<1>5. CASE p <= n
  <2>1. seed \in Fraction
    BY <1>1, <1>s, <1>5, Sums DEF Fraction
  <2>2. F \in [p..n -> [Fraction -> Fraction]]
    BY <1>2, SmoothFraction
  <2> HIDE DEF seed
  <2>3. PICK g \in [p..n -> Fraction] : Recurs(g, p, n, seed, F)
    <3> HIDE DEF F
    <3> QED
      BY <1>1, <2>1, <2>2, IntervalRecursion, Zenon
  <2>4. IsAvg(g)
    <3>1. ASSUME NEW i \in p..n, i # p PROVE F[i][g[i - 1]] = Smooth(g[i - 1], xs[i], p, w)
      <4>1. i - 1 \in p..n
        BY <1>1, <3>1
      <4>2. g[i - 1] \in Fraction
        BY <4>1
      <4> QED
        BY <3>1, <4>2
    <3>2. \A i \in p..n : g[i] = IF i = p THEN seed ELSE Smooth(g[i - 1], xs[i], p, w)
      BY <2>3, <3>1 DEF Recurs
    <3> QED
      BY <3>2
  <2>5. IsAvg(avg)
    <3> HIDE DEF IsAvg
    <3> QED
      BY <2>4
  <2> HIDE DEF avg, seed, F
  <2>6. \A i \in p..n : avg[i] = IF i = p THEN seed ELSE Smooth(avg[i - 1], xs[i], p, w)
    BY <2>5
  <2>7. \A i \in p..n : avg[i] \in Fraction
    <3> DEFINE T == {j \in p..n : avg[j] \in Fraction}
    <3>1. p \in T
      BY <1>1, <1>5, <2>1, <2>6
    <3>2. ASSUME NEW i \in (p + 1)..n, i - 1 \in T PROVE i \in T
      <4>1. i \in p..n /\ i # p /\ avg[i - 1] \in Fraction
        BY <1>1, <3>2
      <4>2. avg[i] = Smooth(avg[i - 1], xs[i], p, w)
        BY <2>6, <4>1
      <4>3. Smooth(avg[i - 1], xs[i], p, w) \in Fraction
        BY <1>2, <4>1, SmoothFraction
      <4> QED
        BY <4>1, <4>2, <4>3
    <3> HIDE DEF T
    <3>3. \A i \in p..n : i \in T
      BY <1>1, <3>1, <3>2, IntervalInduction, Zenon
    <3> QED
      BY <3>3 DEF T
  <2>8. avg[p] = seed /\ \A i \in (p + 1)..n : avg[i] = Smooth(avg[i - 1], xs[i], p, w)
    BY <1>1, <1>5, <2>6
  <2> QED
    BY <1>3, <1>s, <2>7, <2>8 DEF seed
<1> QED
  BY <1>1, <1>4, <1>5

\* calculate_ema has a value for each price from the period-th on.
LEMMA EmaValues ==
  ASSUME NEW s \in Seq(Int), NEW p \in Nat \ {0}
  PROVE  /\ calculate_ema(s, p) \in Seq(Fraction)
         /\ Len(calculate_ema(s, p)) = IF p <= Len(s) THEN Len(s) - p + 1 ELSE 0
         /\ \A k \in 1..(Len(s) - p + 1) : calculate_ema(s, p)[k] = Smoothed(s, p, 2)[k + p - 1]
<1> DEFINE n == Len(s)  e == calculate_ema(s, p)  m == IF p <= n THEN n - p + 1 ELSE 0
<1>1. n \in Nat /\ m \in Nat /\ 1..(n - p + 1) = 1..m
  BY LenProperties
<1>2. e = [k \in 1..m |-> Smoothed(s, p, 2)[k + p - 1]]
  BY <1>1 DEF calculate_ema
<1>3. \A k \in 1..m : Smoothed(s, p, 2)[k + p - 1] \in Fraction
  <2> SUFFICES ASSUME NEW k \in 1..m PROVE Smoothed(s, p, 2)[k + p - 1] \in Fraction
    OBVIOUS
  <2>1. k + p - 1 \in p..n /\ 2 \in Nat \ {0}
    BY <1>1
  <2>2. \A i \in p..n : Smoothed(s, p, 2)[i] \in Fraction
    BY <2>1, Averages
  <2> QED
    BY <2>1, <2>2
<1> HIDE DEF e, m
<1>4. e \in [1..m -> Fraction]
  BY <1>2, <1>3
<1>5. e \in Seq(Fraction) /\ Len(e) = m
  BY <1>1, <1>4, IsASeq, LenProperties
<1> QED
  BY <1>1, <1>2, <1>5 DEF e, m

-----------------------------------------------------------------------------
(***************************************************************************)
(* A candle at the end of the list leaves the values before it alone.      *)
(***************************************************************************)
LEMMA SumKeepsPrefix ==
  ASSUME NEW s \in Seq(Int), NEW x \in Int
  PROVE  \A k \in 0..Len(s) : SumOfFirst(Append(s, x), k) = SumOfFirst(s, k)
<1> DEFINE n == Len(s)  t == Append(s, x)
           T == {k \in 0..n : SumOfFirst(t, k) = SumOfFirst(s, k)}
<1>1. /\ n \in Nat /\ t \in Seq(Int) /\ Len(t) = n + 1
      /\ \A i \in 1..n : t[i] = s[i]
  BY LenProperties, AppendProperties
<1> HIDE DEF n, t
<1>2. 0 \in T
  BY <1>1, Sums
<1>3. ASSUME NEW k \in (0 + 1)..n, k - 1 \in T PROVE k \in T
  <2>1. k \in 1..Len(s) /\ k \in 1..Len(t) /\ k \in 0..n
    BY <1>1 DEF n
  <2>2. SumOfFirst(s, k) = SumOfFirst(s, k - 1) + s[k]
    BY <2>1, Sums
  <2>3. SumOfFirst(t, k) = SumOfFirst(t, k - 1) + t[k]
    BY <1>1, <2>1, Sums
  <2> QED
    BY <1>1, <1>3, <2>1, <2>2, <2>3 DEF n
<1> HIDE DEF T
<1>4. 0 \in Int /\ n \in Int
  BY <1>1
<1>5. \A k \in 0..n : k \in T
  BY <1>2, <1>3, <1>4, IntervalInduction, Zenon
<1> QED
  BY <1>5 DEF T, n, t

LEMMA SmoothedKeepsPrefix ==
  ASSUME NEW s \in Seq(Int), NEW x \in Int, NEW p \in Nat \ {0}, NEW w \in Nat \ {0}
  PROVE  \A i \in p..Len(s) : Smoothed(Append(s, x), p, w)[i] = Smoothed(s, p, w)[i]
<1> DEFINE n == Len(s)  t == Append(s, x)
           a == Smoothed(s, p, w)  b == Smoothed(t, p, w)
           T == {i \in p..n : b[i] = a[i]}
<1>1. /\ n \in Nat /\ t \in Seq(Int) /\ Len(t) = n + 1
      /\ \A i \in 1..n : t[i] = s[i]
  BY LenProperties, AppendProperties
<1> HIDE DEF t
<1>2. /\ p <= n => a[p] = [n |-> SumOfFirst(s, p), d |-> p]
      /\ \A i \in (p + 1)..n : a[i] = Smooth(a[i - 1], s[i], p, w)
  BY Averages
<1>3. /\ p <= n + 1 => b[p] = [n |-> SumOfFirst(t, p), d |-> p]
      /\ \A i \in (p + 1)..(n + 1) : b[i] = Smooth(b[i - 1], t[i], p, w)
  <2>1. /\ p <= Len(t) => b[p] = [n |-> SumOfFirst(t, p), d |-> p]
        /\ \A i \in (p + 1)..Len(t) : b[i] = Smooth(b[i - 1], t[i], p, w)
    <3>1. t \in Seq(Int)
      BY <1>1
    <3> HIDE <1>1
    <3> QED
      BY <3>1, Averages
  <2> HIDE DEF b
  <2> QED
    BY <1>1, <2>1
<1> HIDE DEF n, a, b
<1>4. p <= n => p \in T
  <2> SUFFICES ASSUME p <= n PROVE b[p] = a[p]
    BY <1>1
  <2>1. SumOfFirst(t, p) = SumOfFirst(s, p)
    BY <1>1, SumKeepsPrefix DEF n, t
  <2> QED
    BY <1>1, <1>2, <1>3, <2>1
<1>5. ASSUME NEW i \in (p + 1)..n, i - 1 \in T PROVE i \in T
  <2>1. i \in p..n /\ i \in (p + 1)..(n + 1) /\ t[i] = s[i] /\ b[i - 1] = a[i - 1]
    BY <1>1, <1>5
  <2>2. b[i] = Smooth(b[i - 1], t[i], p, w)
    BY <1>3, <2>1
  <2>3. a[i] = Smooth(a[i - 1], s[i], p, w)
    BY <1>2, <1>5
  <2> QED
    BY <2>1, <2>2, <2>3
<1> HIDE DEF T
<1>6. p \in Int /\ n \in Int
  BY <1>1
<1>7. \A i \in p..n : i \in T
  BY <1>4, <1>5, <1>6, IntervalInduction, Zenon
<1> QED
  BY <1>7 DEF T, n, t, a, b

-----------------------------------------------------------------------------
(***************************************************************************)
(* The mirrored market.                                                    *)
(***************************************************************************)
IsMirror(s, t) == Len(t) = Len(s) /\ \A i \in 1..Len(s) : t[i] = -s[i]

LEMMA SumMirrors ==
  ASSUME NEW s \in Seq(Int), NEW t \in Seq(Int), IsMirror(s, t)
  PROVE  \A k \in 0..Len(s) : SumOfFirst(t, k) = -SumOfFirst(s, k)
<1> DEFINE n == Len(s)
           T == {k \in 0..n : SumOfFirst(t, k) = -SumOfFirst(s, k)}
<1>1. n \in Nat /\ Len(t) = n /\ \A i \in 1..n : t[i] = -s[i] /\ s[i] \in Int
  BY LenProperties, ElementOfSeq DEF IsMirror
<1>2. 0 \in T
  <2>1. SumOfFirst(s, 0) = 0 /\ SumOfFirst(t, 0) = 0
    BY Sums
  <2> QED
    BY <1>1, <2>1
<1>3. ASSUME NEW k \in (0 + 1)..n, k - 1 \in T PROVE k \in T
  <2>1. k \in 1..Len(s) /\ k \in 1..Len(t) /\ k \in 0..n /\ k - 1 \in 0..Len(s)
    BY <1>1
  <2>2. SumOfFirst(s, k) = SumOfFirst(s, k - 1) + s[k] /\ SumOfFirst(s, k - 1) \in Int
    BY <2>1, Sums
  <2>3. SumOfFirst(t, k) = SumOfFirst(t, k - 1) + t[k]
    BY <2>1, Sums
  <2> QED
    BY <1>1, <1>3, <2>1, <2>2, <2>3
<1> HIDE DEF T, n
<1>4. 0 \in Int /\ n \in Int
  BY <1>1
<1>5. \A k \in 0..n : k \in T
  BY <1>2, <1>3, <1>4, IntervalInduction, Zenon
<1> QED
  BY <1>5 DEF T, n

\* The fractions a and b are each other's negative.
Opposed(a, b) == b.n = -a.n /\ b.d = a.d

LEMMA SmoothMirrors ==
  ASSUME NEW a \in Fraction, NEW b \in Fraction, NEW x \in Int, NEW p \in Nat \ {0},
         NEW w \in Nat \ {0}, Opposed(a, b)
  PROVE  Opposed(Smooth(a, x, p, w), Smooth(b, -x, p, w))
<1>1. a.n \in Int /\ a.d \in Int /\ b.n = -a.n /\ b.d = a.d /\ -x \in Int
  BY DEF Fraction, Opposed
<1>2. \A y, z \in Int : (-y) * z = -(y * z) /\ y * (-z) = -(y * z) /\ y * z \in Int
  OBVIOUS
<1>3. w * (-x) * a.d + (p - 1) * (-a.n) = -(w * x * a.d + (p - 1) * a.n)
  <2>1. w * (-x) = -(w * x) /\ w * x \in Int
    BY <1>2
  <2>2. (-(w * x)) * a.d = -(w * x * a.d) /\ w * x * a.d \in Int
    BY <1>1, <1>2, <2>1
  <2>3. (p - 1) * (-a.n) = -((p - 1) * a.n) /\ (p - 1) * a.n \in Int
    BY <1>1, <1>2
  <2> QED
    BY <2>1, <2>2, <2>3
<1>4. /\ Smooth(a, x, p, w).n = w * x * a.d + (p - 1) * a.n
      /\ Smooth(b, -x, p, w).n = w * (-x) * b.d + (p - 1) * b.n
      /\ Smooth(a, x, p, w).d = (p - 1 + w) * a.d
      /\ Smooth(b, -x, p, w).d = (p - 1 + w) * b.d
  BY DEF Smooth
<1> QED
  BY <1>1, <1>3, <1>4 DEF Opposed

LEMMA SmoothedMirrors ==
  ASSUME NEW s \in Seq(Int), NEW t \in Seq(Int), IsMirror(s, t),
         NEW p \in Nat \ {0}, NEW w \in Nat \ {0}
  PROVE  \A i \in p..Len(s) : Opposed(Smoothed(s, p, w)[i], Smoothed(t, p, w)[i])
<1> DEFINE n == Len(s)  a == Smoothed(s, p, w)  b == Smoothed(t, p, w)
           T == {i \in p..n : Opposed(a[i], b[i])}
<1>1. n \in Nat /\ Len(t) = n /\ \A i \in 1..n : t[i] = -s[i] /\ s[i] \in Int
  BY LenProperties, ElementOfSeq DEF IsMirror
<1>2. /\ \A i \in p..n : a[i] \in Fraction
      /\ p <= n => a[p] = [n |-> SumOfFirst(s, p), d |-> p]
      /\ \A i \in (p + 1)..n : a[i] = Smooth(a[i - 1], s[i], p, w)
  BY Averages
<1>3. /\ \A i \in p..n : b[i] \in Fraction
      /\ p <= n => b[p] = [n |-> SumOfFirst(t, p), d |-> p]
      /\ \A i \in (p + 1)..n : b[i] = Smooth(b[i - 1], t[i], p, w)
  <2>1. /\ \A i \in p..Len(t) : b[i] \in Fraction
        /\ p <= Len(t) => b[p] = [n |-> SumOfFirst(t, p), d |-> p]
        /\ \A i \in (p + 1)..Len(t) : b[i] = Smooth(b[i - 1], t[i], p, w)
    BY Averages
  <2> HIDE DEF b, n
  <2> QED
    BY <1>1, <2>1
<1> HIDE DEF a, b
<1>4. p <= n => p \in T
  <2> SUFFICES ASSUME p <= n PROVE p \in T
    OBVIOUS
  <2>1. SumOfFirst(t, p) = -SumOfFirst(s, p)
    BY <1>1, SumMirrors
  <2>2. a[p].n = SumOfFirst(s, p) /\ a[p].d = p /\ b[p].n = SumOfFirst(t, p) /\ b[p].d = p
    BY <1>2, <1>3
  <2> QED
    BY <1>1, <2>1, <2>2 DEF Opposed
<1> HIDE DEF n
<1>5. ASSUME NEW i \in (p + 1)..n, i - 1 \in T PROVE i \in T
  <2>1. i \in p..n /\ i - 1 \in p..n /\ i \in 1..n
    BY <1>1
  <2>2. a[i - 1] \in Fraction /\ b[i - 1] \in Fraction /\ s[i] \in Int /\ t[i] = -s[i]
        /\ Opposed(a[i - 1], b[i - 1])
    BY <1>1, <1>2, <1>3, <1>5, <2>1
  <2>3. a[i] = Smooth(a[i - 1], s[i], p, w) /\ b[i] = Smooth(b[i - 1], -s[i], p, w)
    BY <1>2, <1>3, <2>2
  <2>4. Opposed(a[i], b[i])
    BY <2>2, <2>3, SmoothMirrors
  <2> QED
    BY <2>1, <2>4
<1> HIDE DEF T
<1>6. p \in Int /\ n \in Int
  BY <1>1
<1>7. \A i \in p..n : i \in T
  BY <1>4, <1>5, <1>6, IntervalInduction, Zenon
<1> QED
  BY <1>7 DEF T, n, a, b

LEMMA LessMirrors ==
  ASSUME NEW a \in Fraction, NEW b \in Fraction, NEW c \in Fraction, NEW e \in Fraction,
         Opposed(a, c), Opposed(b, e)
  PROVE  Less(c, e) <=> Less(b, a)
<1>1. /\ a.n \in Int /\ a.d \in Int /\ b.n \in Int /\ b.d \in Int
      /\ c.n = -a.n /\ c.d = a.d /\ e.n = -b.n /\ e.d = b.d
  BY DEF Fraction, Opposed
<1>2. (-a.n) * b.d = -(a.n * b.d) /\ (-b.n) * a.d = -(b.n * a.d)
      /\ a.n * b.d \in Int /\ b.n * a.d \in Int
  <2>1. \A x, y \in Int : (-x) * y = -(x * y) /\ x * y \in Int
    OBVIOUS
  <2> QED
    BY <1>1, <2>1
<1> QED
  BY <1>1, <1>2 DEF Less

-----------------------------------------------------------------------------
(***************************************************************************)
(* Averages of natural numbers, and of one number over and over.           *)
(***************************************************************************)
LEMMA NatProduct ==
  \A a, b \in Nat : a * b \in Nat /\ (a * b = 0 <=> a = 0 \/ b = 0)
OBVIOUS

LEMMA NaturalSeq ==
  ASSUME NEW xs \in Seq(Nat)
  PROVE  xs \in Seq(Int) /\ Len(xs) \in Nat /\ \A i \in 1..Len(xs) : xs[i] \in Nat
<1>1. Nat \subseteq Int
  OBVIOUS
<1> QED
  BY <1>1, SeqMonotonic, LenProperties, ElementOfSeq

LEMMA SumOfNaturals ==
  ASSUME NEW xs \in Seq(Nat)
  PROVE  \A k \in 0..Len(xs) : /\ SumOfFirst(xs, k) \in Nat
                               /\ SumOfFirst(xs, k) = 0 <=> \A j \in 1..k : xs[j] = 0
<1> DEFINE n == Len(xs)
           Zero(k) == \A j \in 1..k : xs[j] = 0
           T == {k \in 0..n : SumOfFirst(xs, k) \in Nat /\ (SumOfFirst(xs, k) = 0 <=> Zero(k))}
<1>1. n \in Nat /\ xs \in Seq(Int) /\ \A i \in 1..n : xs[i] \in Nat
  BY NaturalSeq
<1>2. 0 \in T
  BY <1>1, Sums
<1>3. ASSUME NEW k \in (0 + 1)..n, k - 1 \in T PROVE k \in T
  <2>1. k \in 1..Len(xs) /\ k \in 0..n
    BY <1>1
  <2>2. SumOfFirst(xs, k) = SumOfFirst(xs, k - 1) + xs[k] /\ xs[k] \in Nat
    BY <1>1, <2>1, Sums
  <2>3. SumOfFirst(xs, k - 1) \in Nat /\ (SumOfFirst(xs, k - 1) = 0 <=> Zero(k - 1))
    BY <1>3
  <2>4. Zero(k) <=> Zero(k - 1) /\ xs[k] = 0
    BY <2>1
  <2> HIDE DEF Zero
  <2> QED
    BY <2>1, <2>2, <2>3, <2>4
<1> HIDE DEF T, n
<1>4. 0 \in Int /\ n \in Int
  BY <1>1
<1>5. \A k \in 0..n : k \in T
  BY <1>2, <1>3, <1>4, IntervalInduction, Zenon
<1> QED
  BY <1>5 DEF T, n

\* An average of natural numbers is 0 if and only if all of them are.
LEMMA AverageOfNaturals ==
  ASSUME NEW xs \in Seq(Nat), NEW p \in Nat \ {0, 1}, NEW w \in Nat \ {0}
  PROVE  \A i \in p..Len(xs) :
           /\ Smoothed(xs, p, w)[i].n \in Nat
           /\ Smoothed(xs, p, w)[i].n = 0 <=> \A j \in 1..i : xs[j] = 0
<1> DEFINE n == Len(xs)  a == Smoothed(xs, p, w)
           Zero(i) == \A j \in 1..i : xs[j] = 0
           T == {i \in p..n : a[i].n \in Nat /\ (a[i].n = 0 <=> Zero(i))}
<1>1. n \in Nat /\ xs \in Seq(Int) /\ \A i \in 1..n : xs[i] \in Nat
  BY NaturalSeq
<1>2. /\ \A i \in p..n : a[i] \in Fraction
      /\ p <= n => a[p] = [n |-> SumOfFirst(xs, p), d |-> p]
      /\ \A i \in (p + 1)..n : a[i] = Smooth(a[i - 1], xs[i], p, w)
  <2> HIDE DEF n
  <2>1. p \in Nat \ {0}
    OBVIOUS
  <2> QED
    BY <1>1, <2>1, Averages DEF n
<1> HIDE DEF a
<1>3. p <= n => p \in T
  <2> SUFFICES ASSUME p <= n PROVE p \in T
    OBVIOUS
  <2>1. a[p].n = SumOfFirst(xs, p)
    BY <1>2
  <2>2. SumOfFirst(xs, p) \in Nat /\ (SumOfFirst(xs, p) = 0 <=> Zero(p))
    BY <1>1, SumOfNaturals
  <2> HIDE DEF Zero
  <2> QED
    BY <1>1, <2>1, <2>2
<1> HIDE DEF n
<1>4. ASSUME NEW i \in (p + 1)..n, i - 1 \in T PROVE i \in T
  <2>1. i \in p..n /\ i - 1 \in p..n /\ i \in 1..n
    BY <1>1
  <2>2. /\ a[i - 1] \in Fraction /\ a[i - 1].n \in Nat /\ xs[i] \in Nat
        /\ a[i - 1].n = 0 <=> Zero(i - 1)
    BY <1>1, <1>2, <1>4, <2>1
  <2>3. a[i].n = w * xs[i] * a[i - 1].d + (p - 1) * a[i - 1].n
    <3>1. a[i] = Smooth(a[i - 1], xs[i], p, w)
      BY <1>2
    <3> QED
      BY <3>1 DEF Smooth
  <2>4. /\ w * xs[i] * a[i - 1].d \in Nat
        /\ w * xs[i] * a[i - 1].d = 0 <=> xs[i] = 0
    <3>1. w * xs[i] \in Nat /\ (w * xs[i] = 0 <=> xs[i] = 0)
      BY <2>2, NatProduct
    <3>2. a[i - 1].d \in Nat \ {0}
      BY <2>2 DEF Fraction
    <3> QED
      BY <3>1, <3>2, NatProduct
  <2>5. /\ (p - 1) * a[i - 1].n \in Nat
        /\ (p - 1) * a[i - 1].n = 0 <=> a[i - 1].n = 0
    <3>1. p - 1 \in Nat /\ p - 1 # 0
      OBVIOUS
    <3> QED
      BY <2>2, <3>1, NatProduct
  <2>6. Zero(i) <=> Zero(i - 1) /\ xs[i] = 0
    BY <1>1, <2>1
  <2> HIDE DEF Zero
  <2>7. a[i].n \in Nat /\ (a[i].n = 0 <=> Zero(i))
    BY <2>2, <2>3, <2>4, <2>5, <2>6
  <2> QED
    BY <2>1, <2>7
<1> HIDE DEF T
<1>5. p \in Int /\ n \in Int
  BY <1>1
<1>6. \A i \in p..n : i \in T
  BY <1>3, <1>4, <1>5, IntervalInduction, Zenon
<1> QED
  BY <1>6 DEF T, n, a

\* All averages of a price that does not move are that price.
LEMMA FlatAverage ==
  ASSUME NEW s \in Seq(Int), NEW c \in Int, \A i \in 1..Len(s) : s[i] = c,
         NEW p \in Nat \ {0}, NEW w \in Nat \ {0}
  PROVE  \A i \in p..Len(s) : Smoothed(s, p, w)[i].n = c * Smoothed(s, p, w)[i].d
<1> DEFINE n == Len(s)  a == Smoothed(s, p, w)
           U == {k \in 0..n : SumOfFirst(s, k) = c * k}
           T == {i \in p..n : a[i].n = c * a[i].d}
<1>1. n \in Nat /\ \A i \in 1..n : s[i] = c
  BY LenProperties
<1>2. \A x, y, z \in Int : x * (y + z) = x * y + x * z /\ x * (y * z) = y * (x * z)
                           /\ x * 1 = x /\ x * y \in Int /\ x * 0 = 0
  OBVIOUS
<1>3. \A k \in 0..n : SumOfFirst(s, k) = c * k
  <2>1. 0 \in U
    BY <1>1, <1>2, Sums
  <2>2. ASSUME NEW k \in (0 + 1)..n, k - 1 \in U PROVE k \in U
    <3>1. k \in 1..Len(s) /\ k \in 0..n /\ k - 1 \in Int /\ k = (k - 1) + 1
      BY <1>1
    <3>2. SumOfFirst(s, k) = SumOfFirst(s, k - 1) + c
      BY <1>1, <3>1, Sums
    <3>3. c * ((k - 1) + 1) = c * (k - 1) + c
      BY <1>2, <3>1
    <3> QED
      BY <2>2, <3>1, <3>2, <3>3
  <2> HIDE DEF U, n
  <2>3. 0 \in Int /\ n \in Int
    BY <1>1
  <2>4. \A k \in 0..n : k \in U
    BY <2>1, <2>2, <2>3, IntervalInduction, Zenon
  <2> QED
    BY <2>4 DEF U
<1>4. /\ \A i \in p..n : a[i] \in Fraction
      /\ p <= n => a[p] = [n |-> SumOfFirst(s, p), d |-> p]
      /\ \A i \in (p + 1)..n : a[i] = Smooth(a[i - 1], s[i], p, w)
  BY Averages
<1> HIDE DEF n, a
<1>5. p <= n => p \in T
  BY <1>1, <1>3, <1>4
<1>6. ASSUME NEW i \in (p + 1)..n, i - 1 \in T PROVE i \in T
  <2>1. i \in p..n /\ i - 1 \in p..n /\ i \in 1..n
    BY <1>1
  <2> DEFINE e == a[i - 1].d
  <2>2. a[i - 1] \in Fraction /\ e \in Int /\ a[i - 1].n = c * e /\ s[i] = c
    BY <1>1, <1>4, <1>6, <2>1 DEF Fraction
  <2>3. a[i].n = w * c * e + (p - 1) * (c * e) /\ a[i].d = (p - 1 + w) * e
    <3>1. a[i] = Smooth(a[i - 1], c, p, w)
      BY <1>4, <2>2
    <3> QED
      BY <2>2, <3>1 DEF Smooth
  <2> HIDE DEF e
  <2>4. w * c * e = w * (c * e) /\ w * (c * e) = c * (w * e)
        /\ (p - 1) * (c * e) = c * ((p - 1) * e)
    BY <2>2, <1>2
  <2>5. (p - 1 + w) * e = (p - 1) * e + w * e /\ (p - 1) * e \in Int /\ w * e \in Int
    BY <2>2
  <2>6. c * ((p - 1) * e + w * e) = c * ((p - 1) * e) + c * (w * e)
    BY <1>2, <2>5
  <2>7. c * ((p - 1) * e) \in Int /\ c * (w * e) \in Int
    BY <1>2, <2>5
  <2>8. a[i].n = c * a[i].d
    BY <2>3, <2>4, <2>5, <2>6, <2>7
  <2> QED
    BY <2>1, <2>8
<1> HIDE DEF T
<1>7. p \in Int /\ n \in Int
  BY <1>1
<1>8. \A i \in p..n : i \in T
  BY <1>5, <1>6, <1>7, IntervalInduction, Zenon
<1> QED
  BY <1>8 DEF T, n, a

-----------------------------------------------------------------------------
(***************************************************************************)
(* RSI.                                                                    *)
(***************************************************************************)
Gains(s) == [i \in 1..(Len(s) - 1) |-> Gain(s[i + 1] - s[i])]
Losses(s) == [i \in 1..(Len(s) - 1) |-> Loss(s[i + 1] - s[i])]

LEMMA GainsAndLosses ==
  ASSUME NEW s \in Seq(Int), Len(s) >= 1
  PROVE  /\ Gains(s) \in Seq(Nat) /\ Losses(s) \in Seq(Nat)
         /\ Len(Gains(s)) = Len(s) - 1 /\ Len(Losses(s)) = Len(s) - 1
         /\ \A i \in 1..(Len(s) - 1) : /\ Gains(s)[i] = Gain(s[i + 1] - s[i])
                                       /\ Losses(s)[i] = Loss(s[i + 1] - s[i])
<1> DEFINE n == Len(s) - 1
<1>1. n \in Nat
  BY LenProperties
<1>2. \A i \in 1..n : s[i + 1] - s[i] \in Int
  <2> SUFFICES ASSUME NEW i \in 1..n PROVE s[i + 1] - s[i] \in Int
    OBVIOUS
  <2>1. i \in 1..Len(s) /\ i + 1 \in 1..Len(s)
    BY <1>1
  <2> QED
    BY <2>1, ElementOfSeq
<1>3. \A x \in Int : Gain(x) \in Nat /\ Loss(x) \in Nat
  BY DEF Gain, Loss
<1>4. Gains(s) \in [1..n -> Nat] /\ Losses(s) \in [1..n -> Nat]
  BY <1>2, <1>3 DEF Gains, Losses
<1> HIDE DEF n
<1>5. /\ Gains(s) \in Seq(Nat) /\ Len(Gains(s)) = n
      /\ Losses(s) \in Seq(Nat) /\ Len(Losses(s)) = n
  BY <1>1, <1>4, IsASeq, LenProperties
<1> QED
  BY <1>5 DEF Gains, Losses, n

\* The numerators of the averages of Wilder at the end of s.
LastGain(s, p) == Smoothed(Gains(s), p, 1)[Len(s) - 1].n
LastLoss(s, p) == Smoothed(Losses(s), p, 1)[Len(s) - 1].n

LEMMA LastRsi ==
  ASSUME NEW s \in Seq(Int), NEW p \in Nat \ {0}
  PROVE  LET rsi == calculate_rsi(s, p)
         IN  /\ Len(rsi) \in Nat
             /\ Len(rsi) >= 1 <=> Len(s) >= p + 2
             /\ Len(s) >= p + 2 =>
                  rsi[Len(rsi)] = IF LastLoss(s, p) = 0 THEN [n |-> 100, d |-> 1]
                                  ELSE [n |-> 100 * LastGain(s, p),
                                        d |-> LastGain(s, p) + LastLoss(s, p)]
<1> DEFINE n == Len(s) - 1
           deltas == [i \in 1..n |-> s[i + 1] - s[i]]
           value(k) == LET g == Smoothed(Gains(s), p, 1)[k + p].n
                           l == Smoothed(Losses(s), p, 1)[k + p].n
                       IN  IF l = 0 THEN [n |-> 100, d |-> 1] ELSE [n |-> 100 * g, d |-> g + l]
           rsi == calculate_rsi(s, p)
<1>1. Len(s) \in Nat
  BY LenProperties
<1>2. DOMAIN deltas = 1..n
  OBVIOUS
<1>3. /\ [i \in DOMAIN deltas |-> Gain(deltas[i])] = Gains(s)
      /\ [i \in DOMAIN deltas |-> Loss(deltas[i])] = Losses(s)
  BY DEF Gains, Losses
<1>4. Len(deltas) = IF Len(s) >= 1 THEN n ELSE 0
  <2>1. CASE Len(s) >= 1
    <3>1. n \in Nat
      BY <1>1, <2>1
    <3> HIDE DEF n
    <3> QED
      BY <1>2, <2>1, <3>1
  <2>2. CASE ~(Len(s) >= 1)
    <3>1. 1..n = 1..0
      BY <1>1, <2>2
    <3> HIDE DEF n
    <3>2. deltas = [i \in 1..0 |-> s[i + 1] - s[i]]
      BY <3>1
    <3> HIDE DEF deltas
    <3>3. Len(deltas) = 0
      BY <3>2
    <3> QED
      BY <2>2, <3>3
  <2> QED
    BY <2>1, <2>2
<1>5. rsi = [k \in 1..(Len(deltas) - p) |-> value(k)]
  <2> HIDE DEF deltas
  <2>1. rsi = [k \in 1..(Len(deltas) - p) |->
                LET g == Smoothed([i \in DOMAIN deltas |-> Gain(deltas[i])], p, 1)[k + p].n
                    l == Smoothed([i \in DOMAIN deltas |-> Loss(deltas[i])], p, 1)[k + p].n
                IN  IF l = 0 THEN [n |-> 100, d |-> 1] ELSE [n |-> 100 * g, d |-> g + l]]
    BY DEF calculate_rsi, deltas
  <2> QED
    BY <1>3, <2>1
<1> HIDE DEF deltas, value, rsi
<1>6. CASE Len(s) >= p + 2
  <2>1. Len(deltas) = n /\ n - p \in Nat \ {0} /\ n - p \in 1..(n - p) /\ (n - p) + p = n
    BY <1>1, <1>4, <1>6
  <2> HIDE DEF n
  <2>2. rsi = [k \in 1..(n - p) |-> value(k)]
    BY <1>5, <2>1
  <2>3. Len(rsi) = n - p
    BY <2>1, <2>2
  <2>4. rsi[Len(rsi)] = value(n - p)
    BY <2>1, <2>2, <2>3
  <2>5. value(n - p) = IF LastLoss(s, p) = 0 THEN [n |-> 100, d |-> 1]
                       ELSE [n |-> 100 * LastGain(s, p), d |-> LastGain(s, p) + LastLoss(s, p)]
    <3>1. /\ Smoothed(Gains(s), p, 1)[(n - p) + p].n = LastGain(s, p)
          /\ Smoothed(Losses(s), p, 1)[(n - p) + p].n = LastLoss(s, p)
      BY <2>1 DEF LastGain, LastLoss, n
    <3> QED
      BY <3>1 DEF value
  <2>6. Len(rsi) >= 1 /\ Len(rsi) \in Nat
    BY <2>1, <2>3
  <2> QED
    BY <1>6, <2>4, <2>5, <2>6 DEF rsi
<1>7. CASE ~(Len(s) >= p + 2)
  <2>1. 1..(Len(deltas) - p) = 1..0
    BY <1>1, <1>4, <1>7
  <2>2. rsi = [k \in 1..0 |-> value(k)]
    BY <1>5, <2>1
  <2>3. Len(rsi) = 0
    BY <2>2
  <2> QED
    BY <1>7, <2>3 DEF rsi
<1> QED
  BY <1>6, <1>7

-----------------------------------------------------------------------------
(***************************************************************************)
(* A market that does not fall: the averages stay below the price, and the *)
(* slow one below the fast one.                                            *)
(***************************************************************************)
NonFalling(s) == \A i \in 2..Len(s) : s[i - 1] <= s[i]

LEMMA Product == \A a, b \in Int : a >= 0 /\ b >= 0 => a * b >= 0 /\ a * b \in Int
OBVIOUS

\* The smoothed average is at most x if the one before it is.
LEMMA StepBelowPrice ==
  ASSUME NEW f \in Int, NEW x \in Int, NEW m \in Int, NEW d \in Int, f >= 1, m <= x * d
  PROVE  2 * x * d + (f - 1) * m <= x * ((f + 1) * d)
<1> DEFINE A == 2 * x * d + (f - 1) * m  B == x * ((f + 1) * d)
<1>1. A \in Int /\ B \in Int /\ B - A = (f - 1) * (x * d - m)
  OBVIOUS
<1>2. (f - 1) * (x * d - m) >= 0
  <2>1. f - 1 \in Int /\ f - 1 >= 0 /\ x * d - m \in Int /\ x * d - m >= 0
    OBVIOUS
  <2> QED
    BY <2>1, Product
<1> HIDE DEF A, B
<1>3. A <= B
  BY <1>1, <1>2
<1> QED
  BY <1>3 DEF A, B

\* It is at least the mean of i prices if the one before it, m / d, is at least that
\* of the i - 1 prices before.
LEMMA StepAboveMean ==
  ASSUME NEW f \in Int, NEW i \in Int, NEW x \in Int, NEW m \in Int, NEW d \in Int,
         NEW sum \in Int, f >= 1, i > f, d >= 1, m <= x * d, sum * d <= m * (i - 1)
  PROVE  (sum + x) * ((f + 1) * d) <= (2 * x * d + (f - 1) * m) * i
<1> DEFINE A == (2 * x * d + (f - 1) * m) * i
           B == (f + 1) * (m * (i - 1) + x * d)
           C == (sum + x) * ((f + 1) * d)
<1>1. A - B = (2 * i - f - 1) * (x * d - m)
  OBVIOUS
<1>2. (2 * i - f - 1) * (x * d - m) >= 0
  <2>1. /\ 2 * i - f - 1 \in Int /\ 2 * i - f - 1 >= 0
        /\ x * d - m \in Int /\ x * d - m >= 0
    OBVIOUS
  <2> QED
    BY <2>1, Product
<1>3. B - C = (f + 1) * (m * (i - 1) - sum * d)
  OBVIOUS
<1>4. (f + 1) * (m * (i - 1) - sum * d) >= 0
  <2>1. /\ f + 1 \in Int /\ f + 1 >= 0
        /\ m * (i - 1) - sum * d \in Int /\ m * (i - 1) - sum * d >= 0
    OBVIOUS
  <2> QED
    BY <2>1, Product
<1>5. A \in Int /\ B \in Int /\ C \in Int
  OBVIOUS
<1> HIDE DEF A, B, C
<1>6. C <= A
  BY <1>1, <1>2, <1>3, <1>4, <1>5
<1> QED
  BY <1>6 DEF A, C

\* A price above both averages keeps the slow one, n / e, below the fast one, m / d.
LEMMA StepKeepsOrder ==
  ASSUME NEW f \in Int, NEW s \in Int, NEW x \in Int, NEW m \in Int, NEW d \in Int,
         NEW n \in Int, NEW e \in Int,
         f >= 1, s >= f, d >= 1, e >= 1, m <= x * d, n * d <= m * e
  PROVE  (2 * x * e + (s - 1) * n) * ((f + 1) * d) <= (2 * x * d + (f - 1) * m) * ((s + 1) * e)
<1> DEFINE A == (2 * x * e + (s - 1) * n) * ((f + 1) * d)
           B == (2 * x * d + (f - 1) * m) * ((s + 1) * e)
           C == (s - f) * (e * (x * d - m))
           D == ((f + 1) * (s - 1)) * (m * e - n * d)
<1>1. A \in Int /\ B \in Int /\ B - A = 2 * C + D
  OBVIOUS
<1>2. C >= 0 /\ C \in Int
  <2>1. s - f \in Int /\ s - f >= 0 /\ x * d - m \in Int /\ x * d - m >= 0
    OBVIOUS
  <2>2. e * (x * d - m) \in Int /\ e * (x * d - m) >= 0
    BY <2>1, Product
  <2> QED
    BY <2>1, <2>2, Product
<1>3. D >= 0 /\ D \in Int
  <2>1. /\ f + 1 \in Int /\ f + 1 >= 0 /\ s - 1 \in Int /\ s - 1 >= 0
        /\ m * e - n * d \in Int /\ m * e - n * d >= 0
    OBVIOUS
  <2>2. (f + 1) * (s - 1) \in Int /\ (f + 1) * (s - 1) >= 0
    BY <2>1, Product
  <2> QED
    BY <2>1, <2>2, Product
<1> HIDE DEF A, B, C, D
<1>4. A <= B
  BY <1>1, <1>2, <1>3
<1> QED
  BY <1>4 DEF A, B

LEMMA SumBelowLast ==
  ASSUME NEW s \in Seq(Int), NonFalling(s)
  PROVE  \A k \in 1..Len(s) : SumOfFirst(s, k) <= s[k] * k
<1> DEFINE n == Len(s)  T == {k \in 1..n : SumOfFirst(s, k) <= s[k] * k}
<1>1. n \in Nat /\ \A i \in 1..n : s[i] \in Int
  BY LenProperties, ElementOfSeq
<1>2. 1 <= n => 1 \in T
  <2> SUFFICES ASSUME 1 <= n PROVE 1 \in T
    OBVIOUS
  <2>1. SumOfFirst(s, 1) = SumOfFirst(s, 1 - 1) + s[1] /\ SumOfFirst(s, 0) = 0 /\ 1 - 1 = 0
    BY <1>1, Sums
  <2> QED
    BY <1>1, <2>1
<1>3. ASSUME NEW k \in (1 + 1)..n, k - 1 \in T PROVE k \in T
  <2>1. k \in 1..n /\ k \in 2..n /\ k - 1 \in 1..n /\ k - 1 \in 0..n
    BY <1>1
  <2> DEFINE x == s[k]  y == s[k - 1]  sum == SumOfFirst(s, k - 1)
  <2>2. /\ x \in Int /\ y \in Int /\ sum \in Int /\ y <= x /\ sum <= y * (k - 1)
        /\ SumOfFirst(s, k) = sum + x
    BY <1>1, <1>3, <2>1, Sums DEF NonFalling
  <2> HIDE DEF x, y, sum
  <2>3. (x - y) * (k - 1) >= 0
    BY <2>1, <2>2, Product
  <2>4. x * k - (y * (k - 1) + x) = (x - y) * (k - 1) /\ x * k \in Int /\ y * (k - 1) \in Int
    BY <2>2
  <2>5. sum + x <= x * k
    BY <2>2, <2>3, <2>4
  <2> QED
    BY <2>1, <2>2, <2>5 DEF x
<1> HIDE DEF T, n
<1>4. 1 \in Int /\ n \in Int
  BY <1>1
<1>5. \A k \in 1..n : k \in T
  BY <1>2, <1>3, <1>4, IntervalInduction, Zenon
<1> QED
  BY <1>5 DEF T, n

\* In a market that does not fall an exponential average is at most the last price and
\* at least the mean of all prices up to it.
BetweenMeanAndPrice(s, p, i) ==
  LET a == Smoothed(s, p, 2)[i]
  IN  a.n <= s[i] * a.d /\ SumOfFirst(s, i) * a.d <= a.n * i

LEMMA AverageFollowsRise ==
  ASSUME NEW s \in Seq(Int), NonFalling(s), NEW p \in Nat \ {0}
  PROVE  \A i \in p..Len(s) : BetweenMeanAndPrice(s, p, i)
<1> DEFINE n == Len(s)  a == Smoothed(s, p, 2)
           T == {i \in p..n : BetweenMeanAndPrice(s, p, i)}
<1>1. n \in Nat /\ 2 \in Nat \ {0} /\ \A i \in 1..n : s[i] \in Int
  BY LenProperties, ElementOfSeq
<1>2. /\ \A i \in p..n : a[i] \in Fraction
      /\ p <= n => a[p] = [n |-> SumOfFirst(s, p), d |-> p]
      /\ \A i \in (p + 1)..n : a[i] = Smooth(a[i - 1], s[i], p, 2)
  BY <1>1, Averages
<1> HIDE DEF a
<1>3. p <= n => p \in T
  <2> SUFFICES ASSUME p <= n PROVE BetweenMeanAndPrice(s, p, p)
    BY <1>1
  <2>1. a[p].n = SumOfFirst(s, p) /\ a[p].d = p /\ p \in 1..n
    BY <1>1, <1>2
  <2>2. SumOfFirst(s, p) <= s[p] * p /\ SumOfFirst(s, p) \in Int
    BY <1>1, <2>1, Sums, SumBelowLast
  <2>3. SumOfFirst(s, p) * p \in Int
    BY <2>2
  <2> QED
    BY <2>1, <2>2, <2>3 DEF BetweenMeanAndPrice, a
<1>4. ASSUME NEW i \in (p + 1)..n, i - 1 \in T PROVE i \in T
  <2> DEFINE m == a[i - 1].n  d == a[i - 1].d  x == s[i]  y == s[i - 1]
             sum == SumOfFirst(s, i - 1)
  <2>1. i \in p..n /\ i \in 1..n /\ i \in 2..n /\ i - 1 \in p..n /\ i - 1 \in 1..n /\ i - 1 \in 0..n
    BY <1>1
  <2>2. /\ m \in Int /\ d \in Int /\ d >= 1 /\ x \in Int /\ y \in Int /\ y <= x /\ sum \in Int
        /\ SumOfFirst(s, i) = sum + x
    <3>1. a[i - 1] \in Fraction
      BY <1>2, <2>1
    <3>2. m \in Int /\ d \in Int /\ d >= 1
      BY <3>1 DEF Fraction
    <3>3. x \in Int /\ y \in Int /\ y <= x
      BY <1>1, <2>1 DEF NonFalling
    <3>4. sum \in Int /\ SumOfFirst(s, i) = sum + x
      BY <2>1, Sums
    <3> QED
      BY <3>2, <3>3, <3>4
  <2>3. m <= y * d /\ sum * d <= m * (i - 1)
    BY <1>4 DEF BetweenMeanAndPrice, a
  <2>4. a[i].n = 2 * x * d + (p - 1) * m /\ a[i].d = (p - 1 + 2) * d
    <3>1. a[i] = Smooth(a[i - 1], s[i], p, 2)
      BY <1>2
    <3> QED
      BY <3>1 DEF Smooth
  <2> HIDE DEF m, d, x, y, sum
  <2>5. m <= x * d
    <3>1. (x - y) * d >= 0
      BY <2>2, Product
    <3>2. x * d - y * d = (x - y) * d /\ x * d \in Int /\ y * d \in Int
      BY <2>2
    <3> QED
      BY <2>2, <2>3, <3>1, <3>2
  <2>6. p \in Int /\ i \in Int /\ p >= 1 /\ i > p /\ p - 1 + 2 = p + 1
    BY <2>1
  <2>7. 2 * x * d + (p - 1) * m <= x * ((p + 1) * d)
    BY <2>2, <2>5, <2>6, StepBelowPrice
  <2>8. (sum + x) * ((p + 1) * d) <= (2 * x * d + (p - 1) * m) * i
    BY <2>2, <2>3, <2>5, <2>6, StepAboveMean
  <2>9. BetweenMeanAndPrice(s, p, i)
    BY <2>2, <2>4, <2>6, <2>7, <2>8 DEF BetweenMeanAndPrice, a, x
  <2> QED
    BY <2>1, <2>9
<1> HIDE DEF T
<1>5. p \in Int /\ n \in Int
  BY <1>1
<1>6. \A i \in p..n : i \in T
  BY <1>3, <1>4, <1>5, IntervalInduction, Zenon
<1> QED
  BY <1>6 DEF T, n

\* The slow average is not above the fast one.
LEMMA SlowStaysBelow ==
  ASSUME NEW s \in Seq(Int), NonFalling(s), NEW f \in Nat \ {0}, NEW p \in Nat \ {0}, f <= p
  PROVE  \A i \in p..Len(s) : AtMost(Smoothed(s, p, 2)[i], Smoothed(s, f, 2)[i])
<1> DEFINE n == Len(s)  a == Smoothed(s, f, 2)  b == Smoothed(s, p, 2)
           Below(i) == b[i].n * a[i].d <= a[i].n * b[i].d
           T == {i \in p..n : Below(i)}
<1>1. n \in Nat /\ 2 \in Nat \ {0} /\ \A i \in 1..n : s[i] \in Int
  BY LenProperties, ElementOfSeq
<1>2. /\ \A i \in p..n : b[i] \in Fraction
      /\ p <= n => b[p] = [n |-> SumOfFirst(s, p), d |-> p]
      /\ \A i \in (p + 1)..n : b[i] = Smooth(b[i - 1], s[i], p, 2)
  BY <1>1, Averages
<1>3. /\ \A i \in f..n : a[i] \in Fraction
      /\ f <= n => a[f] = [n |-> SumOfFirst(s, f), d |-> f]
      /\ \A i \in (f + 1)..n : a[i] = Smooth(a[i - 1], s[i], f, 2)
  BY <1>1, Averages
<1>4. \A i \in f..n : a[i].n <= s[i] * a[i].d /\ SumOfFirst(s, i) * a[i].d <= a[i].n * i
  BY AverageFollowsRise DEF BetweenMeanAndPrice
<1> HIDE DEF a, b
<1>5. p <= n => p \in T
  BY <1>1, <1>2, <1>4
<1>6. ASSUME NEW i \in (p + 1)..n, i - 1 \in T PROVE i \in T
  <2> DEFINE m == a[i - 1].n  d == a[i - 1].d  k == b[i - 1].n  e == b[i - 1].d
             x == s[i]  y == s[i - 1]
  <2>1. /\ i \in p..n /\ i \in 1..n /\ i \in 2..n /\ i - 1 \in p..n /\ i - 1 \in f..n
        /\ i - 1 \in 1..n /\ i \in (f + 1)..n
    BY <1>1
  <2>2. /\ m \in Int /\ d \in Int /\ d >= 1 /\ k \in Int /\ e \in Int /\ e >= 1
        /\ x \in Int /\ y \in Int /\ y <= x
    <3>1. a[i - 1] \in Fraction /\ b[i - 1] \in Fraction
      BY <1>2, <1>3, <2>1
    <3>2. m \in Int /\ d \in Int /\ d >= 1 /\ k \in Int /\ e \in Int /\ e >= 1
      BY <3>1 DEF Fraction
    <3>3. x \in Int /\ y \in Int /\ y <= x
      BY <1>1, <2>1 DEF NonFalling
    <3> QED
      BY <3>2, <3>3
  <2>3. m <= y * d /\ k * d <= m * e
    BY <1>4, <1>6, <2>1
  <2>4. /\ a[i].n = 2 * x * d + (f - 1) * m /\ a[i].d = (f - 1 + 2) * d
        /\ b[i].n = 2 * x * e + (p - 1) * k /\ b[i].d = (p - 1 + 2) * e
    <3>1. a[i] = Smooth(a[i - 1], s[i], f, 2) /\ b[i] = Smooth(b[i - 1], s[i], p, 2)
      BY <1>2, <1>3, <2>1
    <3> QED
      BY <3>1 DEF Smooth
  <2> HIDE DEF m, d, k, e, x, y
  <2>5. m <= x * d
    <3>1. (x - y) * d >= 0
      BY <2>2, Product
    <3>2. x * d - y * d = (x - y) * d /\ x * d \in Int /\ y * d \in Int
      BY <2>2
    <3> QED
      BY <2>2, <2>3, <3>1, <3>2
  <2>6. f \in Int /\ p \in Int /\ f >= 1 /\ p >= f /\ f - 1 + 2 = f + 1 /\ p - 1 + 2 = p + 1
    OBVIOUS
  <2>7. (2 * x * e + (p - 1) * k) * ((f + 1) * d) <= (2 * x * d + (f - 1) * m) * ((p + 1) * e)
    BY <2>2, <2>3, <2>5, <2>6, StepKeepsOrder
  <2> QED
    BY <2>1, <2>4, <2>6, <2>7
<1> HIDE DEF T
<1>7. p \in Int /\ n \in Int
  BY <1>1
<1>8. \A i \in p..n : i \in T
  BY <1>5, <1>6, <1>7, IntervalInduction, Zenon
<1>9. \A i \in p..n : a[i].n * b[i].d \in Int /\ b[i].n * a[i].d \in Int
  <2> SUFFICES ASSUME NEW i \in p..n PROVE a[i].n * b[i].d \in Int /\ b[i].n * a[i].d \in Int
    OBVIOUS
  <2>1. a[i] \in Fraction /\ b[i] \in Fraction
    BY <1>2, <1>3
  <2> QED
    BY <2>1 DEF Fraction
<1>10. \A i \in p..n : ~Less(a[i], b[i])
  BY <1>8, <1>9 DEF T, Less
<1> QED
  BY <1>10 DEF AtMost, n, a, b

\* A market that does not fall has no losses.
LEMMA NoLossInRise ==
  ASSUME NEW s \in Seq(Int), NonFalling(s), NEW p \in Nat \ {0, 1}, Len(s) >= p + 2
  PROVE  LastLoss(s, p) = 0
<1> DEFINE n == Len(s) - 1
<1>1. /\ 1 \in Nat \ {0} /\ Len(s) \in Nat /\ Len(s) >= 1 /\ n \in p..n /\ n \in Nat
      /\ \A i \in 1..Len(s) : s[i] \in Int
  BY LenProperties, ElementOfSeq
<1>2. /\ Losses(s) \in Seq(Nat) /\ Len(Losses(s)) = n
      /\ \A i \in 1..n : Losses(s)[i] = Loss(s[i + 1] - s[i])
  BY <1>1, GainsAndLosses
<1>3. \A i \in 1..n : Losses(s)[i] = 0
  <2> SUFFICES ASSUME NEW i \in 1..n PROVE Losses(s)[i] = 0
    OBVIOUS
  <2>1. i + 1 \in 2..Len(s) /\ i \in 1..Len(s) /\ i + 1 \in 1..Len(s) /\ (i + 1) - 1 = i
    BY <1>1
  <2>2. s[i] <= s[i + 1] /\ s[i] \in Int /\ s[i + 1] \in Int
    BY <1>1, <2>1 DEF NonFalling
  <2> QED
    BY <1>2, <2>2 DEF Loss
<1>4. \A i \in p..Len(Losses(s)) :
        Smoothed(Losses(s), p, 1)[i].n = 0 <=> \A j \in 1..i : Losses(s)[j] = 0
  BY <1>1, <1>2, AverageOfNaturals
<1> HIDE DEF n
<1>5. Smoothed(Losses(s), p, 1)[n].n = 0
  BY <1>1, <1>2, <1>3, <1>4
<1> QED
  BY <1>5 DEF LastLoss, n
=============================================================================
