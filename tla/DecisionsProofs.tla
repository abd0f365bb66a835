---------------------------- MODULE DecisionsProofs ----------------------------
(***************************************************************************)
(* Theorems about Decisions, for any tokens, kinds and baselines.          *)
(*                                                                         *)
(* The invariant says that a verdict was made from features that are still *)
(* there: what an edge was detected on has been emitted and stays, what a  *)
(* token was bought on was routed and stays, and the kinds of the tokens   *)
(* never change.  The rest is about the operators: what the scores and the *)
(* confidences of such features can be.  Means and deviations are sums     *)
(* over a sequence, defined by recursion, so the module begins with the    *)
(* induction that this needs.                                              *)
(***************************************************************************)
EXTENDS Decisions, WellFoundedInduction, TLAPS

-------------------------------------------------------------------------------
(* Induction and recursion: a set of naturals has a least element, and the *)
(* rest follows from that.                                                 *)

LEMMA LeastNatural ==
  ASSUME NEW T, T \subseteq Nat, T # {}
  PROVE  \E x \in T : \A y \in T : x <= y
<1>1. PICK x \in T : \A y \in T : ~ (<<y, x>> \in OpToRel(<, Nat))
  BY NatLessThanWellFounded, WFMin
<1>2. \A y \in T : ~ (y < x)
  BY <1>1 DEF OpToRel
<1> QED BY <1>2

LEMMA Induction ==
  ASSUME NEW S, 0 \in S, \A n \in Nat : n \in S => n + 1 \in S
  PROVE  \A n \in Nat : n \in S
<1> DEFINE T == Nat \ S
<1> SUFFICES ASSUME T # {} PROVE FALSE
  OBVIOUS
<1>1. PICK x \in T : \A y \in T : x <= y
  <2> T \subseteq Nat
    OBVIOUS
  <2> HIDE DEF T
  <2> QED BY LeastNatural
<1>2. x - 1 \in Nat /\ x - 1 \notin T
  BY <1>1
<1>3. (x - 1) + 1 = x
  BY <1>1
<1> QED BY <1>2, <1>3

\* A step gives the next value; a function on 0..n that follows one exists.
Steps(V, n) == [V \X (1..n) -> V]
Follows(f, a, n, step) == f[0] = a /\ \A i \in 1..n : f[i] = step[<<f[i - 1], i>>]

LEMMA Recursion ==
  ASSUME NEW V, NEW a \in V, NEW n \in Nat, NEW step \in Steps(V, n)
  PROVE  \E f \in [0..n -> V] : Follows(f, a, n, step)
<1> USE DEF Steps, Follows
<1> DEFINE Starts(f, m) == f[0] = a /\ \A i \in 1..m : f[i] = step[<<f[i - 1], i>>]
           S == {m \in Nat : m <= n => \E f \in [0..m -> V] : Starts(f, m)}
<1>1. 0 \in S
  <2> DEFINE f == [i \in 0..0 |-> a]
  <2> f \in [0..0 -> V] /\ Starts(f, 0)
    OBVIOUS
  <2> QED OBVIOUS
<1>2. ASSUME NEW m \in Nat, m \in S PROVE m + 1 \in S
  <2> SUFFICES ASSUME m + 1 <= n PROVE \E f \in [0..(m + 1) -> V] : Starts(f, m + 1)
    OBVIOUS
  <2>1. PICK f \in [0..m -> V] : Starts(f, m)
    BY <1>2
  <2> DEFINE g == [i \in 0..(m + 1) |-> IF i = m + 1 THEN step[<<f[m], m + 1>>] ELSE f[i]]
  <2>2. g \in [0..(m + 1) -> V]
    <3> <<f[m], m + 1>> \in V \X (1..n)
      OBVIOUS
    <3> QED OBVIOUS
  <2>3. ASSUME NEW i \in 1..(m + 1) PROVE g[i] = step[<<g[i - 1], i>>]
    <3>1. CASE i = m + 1
      <4>1. g[i] = step[<<f[m], m + 1>>]
        BY <3>1
      <4>2. i - 1 = m /\ g[i - 1] = f[m]
        BY <3>1
      <4> HIDE DEF g
      <4> QED BY <4>1, <4>2, <3>1
    <3>2. CASE i # m + 1
      <4>1. i \in 1..m /\ g[i] = f[i] /\ g[i - 1] = f[i - 1]
        <5> i \in 1..m /\ i - 1 \in 0..m /\ i - 1 # m + 1
          BY <3>2
        <5> QED BY <3>2
      <4>2. f[i] = step[<<f[i - 1], i>>]
        BY <4>1, <2>1
      <4> HIDE DEF g
      <4> QED BY <4>1, <4>2
    <3> QED BY <3>1, <3>2
  <2>4. g[0] = a
    BY <2>1
  <2> HIDE DEF g
  <2> QED BY <2>2, <2>3, <2>4
<1> HIDE DEF S
<1>3. n \in S
  BY <1>1, <1>2, Induction
<1> QED BY <1>3 DEF S

-------------------------------------------------------------------------------
(* The operators of the normalisation. *)

\* The values of a signal are a sequence of integers.
LEMMA HistoryType ==
  ASSUME NEW run \in Seq(Tokens \union Past), NEW s \in Signals,
         kind \in [Tokens \union Past -> Kinds]
  PROVE  /\ HistoryFor(run, s) \in Seq(Int)
         /\ run = <<>> => HistoryFor(run, s) = <<>>
<1> DEFINE n == Len(run)
           Next1(p) == IF Of(run[p[2]]).raw[s] = Unknown THEN p[1]
                       ELSE Append(p[1], Of(run[p[2]]).raw[s])
           step == [p \in Seq(Int) \X (1..n) |-> Next1(p)]
           Value(f, i) == IF i = 0 THEN <<>>
                          ELSE IF Of(run[i]).raw[s] = Unknown THEN f[i - 1]
                          ELSE Append(f[i - 1], Of(run[i]).raw[s])
           IsKnown(f) == f = [i \in 0..Len(run) |-> Value(f, i)]
<1>0. n \in Nat
  OBVIOUS
<1>1. \A i \in 1..n : Of(run[i]).raw[s] \in Int
  BY DecisionsAssumption DEF Of, Evidence
<1>2. step \in Steps(Seq(Int), n)
  <2> SUFFICES ASSUME NEW p \in Seq(Int) \X (1..n) PROVE Next1(p) \in Seq(Int)
    BY DEF Steps
  <2>1. p[1] \in Seq(Int) /\ Of(run[p[2]]).raw[s] \in Int
    BY <1>1
  <2> QED BY <2>1
<1>3. PICK f \in [0..n -> Seq(Int)] : Follows(f, <<>>, n, step)
  <2> <<>> \in Seq(Int) /\ n \in Nat
    OBVIOUS
  <2> HIDE DEF step, n
  <2> QED BY <1>2, Recursion
<1>4. IsKnown(f)
  <2>1. ASSUME NEW i \in 1..n PROVE f[i] = Next1(<<f[i - 1], i>>)
    <3>1. <<f[i - 1], i>> \in Seq(Int) \X (1..n)
      <4> HIDE DEF n
      <4>1. i - 1 \in 0..n
        BY <1>0
      <4>2. f[i - 1] \in Seq(Int)
        BY <4>1
      <4> QED BY <4>2
    <3>2. f[i] = step[<<f[i - 1], i>>]
      BY <1>3 DEF Follows
    <3> QED BY <3>1, <3>2
  <2>2. f[0] = <<>>
    BY <1>3 DEF Follows
  <2>3. ASSUME NEW i \in 0..n PROVE f[i] = Value(f, i)
    <3>1. i = 0 \/ i \in 1..n
      BY <1>0
    <3>2. CASE i = 0
      BY <3>2, <2>2
    <3>3. CASE i \in 1..n
      <4>1. i # 0
        BY <3>3, <1>0
      <4>2. f[i] = Next1(<<f[i - 1], i>>)
        BY <3>3, <2>1
      <4> HIDE DEF n
      <4> QED BY <4>1, <4>2
    <3> QED BY <3>1, <3>2, <3>3
  <2> HIDE DEF Value
  <2> QED BY <2>3
<1>5. ASSUME NEW g, IsKnown(g) PROVE g[n] \in Seq(Int) /\ (n = 0 => g[n] = <<>>)
  <2> DEFINE S == {m \in Nat : m <= n => g[m] \in Seq(Int)}
  <2>1. 0 \in S
    BY <1>5
  <2>2. ASSUME NEW m \in Nat, m \in S PROVE m + 1 \in S
    <3> SUFFICES ASSUME m + 1 <= n PROVE g[m + 1] \in Seq(Int)
      OBVIOUS
    <3>1. g[m] \in Seq(Int) /\ (m + 1) - 1 = m /\ m + 1 \in 0..n /\ m + 1 # 0
      BY <2>2
    <3>2. g[m + 1] = IF Of(run[m + 1]).raw[s] = Unknown THEN g[m]
                     ELSE Append(g[m], Of(run[m + 1]).raw[s])
      BY <3>1, <1>5
    <3> QED BY <3>1, <3>2, <1>1
  <2> HIDE DEF S
  <2>3. n \in S
    BY <2>1, <2>2, Induction
  <2>4. g[0] = <<>>
    BY <1>5
  <2> QED BY <2>3, <2>4 DEF S
<1>6. HistoryFor(run, s) = (CHOOSE g : IsKnown(g))[n]
  BY DEF HistoryFor
<1>7. run = <<>> => n = 0
  OBVIOUS
<1> HIDE DEF IsKnown, n
<1> QED BY <1>4, <1>5, <1>6, <1>7

\* The sum of integers is one, and so is that of naturals.
LEMMA TotalType ==
  ASSUME NEW V, V \in {Int, Nat}, NEW values \in Seq(V)
  PROVE  Total(values) \in V
<1> DEFINE n == Len(values)
           step == [p \in V \X (1..n) |-> p[1] + values[p[2]]]
           IsSum(f) == f = [i \in 0..Len(values) |-> IF i = 0 THEN 0 ELSE f[i - 1] + values[i]]
<1>0. n \in Nat /\ 0 \in V /\ \A i \in 1..n : values[i] \in V
  OBVIOUS
<1>1. \A x, y \in V : x + y \in V
  OBVIOUS
<1>2. step \in Steps(V, n)
  BY <1>0, <1>1 DEF Steps
<1>3. PICK f \in [0..n -> V] : Follows(f, 0, n, step)
  <2> HIDE DEF step, n
  <2> QED BY <1>0, <1>2, Recursion
<1>4. IsSum(f)
  <2>1. ASSUME NEW i \in 1..n PROVE f[i] = f[i - 1] + values[i]
    <3>1. <<f[i - 1], i>> \in V \X (1..n)
      <4> HIDE DEF n
      <4>1. i - 1 \in 0..n
        BY <1>0
      <4>2. f[i - 1] \in V
        BY <4>1
      <4> QED BY <4>2
    <3>2. f[i] = step[<<f[i - 1], i>>]
      BY <1>3 DEF Follows
    <3> QED BY <3>1, <3>2
  <2>2. f[0] = 0
    BY <1>3 DEF Follows
  <2> QED BY <2>1, <2>2
<1>5. ASSUME NEW g, IsSum(g) PROVE g[n] \in V
  <2> DEFINE S == {m \in Nat : m <= n => g[m] \in V}
  <2>1. 0 \in S
    BY <1>5, <1>0
  <2>2. ASSUME NEW m \in Nat, m \in S PROVE m + 1 \in S
    <3> SUFFICES ASSUME m + 1 <= n PROVE g[m + 1] \in V
      OBVIOUS
    <3>1. g[m] \in V /\ (m + 1) - 1 = m /\ m + 1 \in 0..n /\ m + 1 # 0
      BY <2>2
    <3>2. g[m + 1] = g[m] + values[m + 1]
      BY <3>1, <1>5
    <3> QED BY <3>1, <3>2, <1>0, <1>1
  <2> HIDE DEF S
  <2>3. n \in S
    BY <2>1, <2>2, <1>0, Induction
  <2> QED BY <2>3 DEF S
<1>6. Total(values) = (CHOOSE g : IsSum(g))[n]
  BY DEF Total
<1> HIDE DEF IsSum
<1> QED BY <1>4, <1>5, <1>6

-------------------------------------------------------------------------------
(* Least and greatest numbers. *)

LEMMA MinIs ==
  ASSUME NEW S \in SUBSET Nat, S # {}
  PROVE  Min(S) \in S /\ \A y \in S : Min(S) <= y
<1>1. \E x \in S : \A y \in S : x <= y
  BY LeastNatural
<1> QED BY <1>1 DEF Min

LEMMA MaxIs ==
  ASSUME NEW n \in Nat, NEW S \in SUBSET (0..n), S # {}
  PROVE  Max(S) \in S /\ \A y \in S : Max(S) >= y
<1> DEFINE T == {k \in 0..n : n - k \in S}
<1>0. T \subseteq Nat
  OBVIOUS
<1>1. T # {}
  <2> PICK x \in S : TRUE
    OBVIOUS
  <2> n - x \in 0..n /\ n - (n - x) = x
    OBVIOUS
  <2> n - x \in T
    OBVIOUS
  <2> HIDE DEF T
  <2> QED OBVIOUS
<1>2. PICK k \in T : \A l \in T : k <= l
  <2> HIDE DEF T
  <2> QED BY <1>0, <1>1, LeastNatural
<1>3. ASSUME NEW y \in S PROVE n - k >= y
  <2> n - y \in 0..n /\ n - (n - y) = y
    OBVIOUS
  <2> n - y \in T
    OBVIOUS
  <2> QED BY <1>2
<1>4. \E x \in S : \A y \in S : x >= y
  BY <1>3
<1> QED BY <1>4 DEF Max

LEMMA MinOfTwo ==
  ASSUME NEW a \in Int, NEW b \in Int
  PROVE  Min({a, b}) = IF a <= b THEN a ELSE b
<1>1. \E x \in {a, b} : \A y \in {a, b} : x <= y
  OBVIOUS
<1> QED BY <1>1 DEF Min

LEMMA MaxOfTwo ==
  ASSUME NEW a \in Int, NEW b \in Int
  PROVE  Max({a, b}) = IF a >= b THEN a ELSE b
<1>1. \E x \in {a, b} : \A y \in {a, b} : x >= y
  OBVIOUS
<1> QED BY <1>1 DEF Max

-------------------------------------------------------------------------------
(* The normalisation. *)

\* The logistic function is at 50 for zero and rises.
LEMMA LogisticRises ==
  ASSUME NEW z \in Int
  PROVE  /\ Logistic(z) \in 0..100
         /\ Logistic(z) >= 55 => z > 0
<1> DEFINE far == IF z < 0 THEN -z ELSE z
           points == {p \in Rise : p[1] <= far}
           S == {p[2] : p \in points}
<1>1. far \in Nat
  OBVIOUS
<1>2. S \subseteq 50..100 /\ 50 \in S /\ (far = 0 => S = {50})
  <2>1. \A p \in Rise : p[1] \in Nat /\ p[2] \in 50..100
    BY DEF Rise
  <2>2. <<0, 50>> \in points
    BY <1>1 DEF Rise
  <2>3. <<0, 50>>[2] = 50
    OBVIOUS
  <2>4. far = 0 => \A p \in points : p = <<0, 50>>
    BY DEF Rise
  <2> HIDE DEF far
  <2>5. S \subseteq 50..100
    BY <2>1
  <2>6. 50 \in S
    BY <2>2, <2>3
  <2>7. far = 0 => \A x \in S : x = 50
    BY <2>3, <2>4
  <2> HIDE DEF S
  <2> QED BY <2>5, <2>6, <2>7
<1>3. Max(S) \in 50..100 /\ (far = 0 => Max(S) = 50)
  <2> HIDE DEF S, far
  <2>1. S \in SUBSET (0..100) /\ S # {} /\ 100 \in Nat
    BY <1>2
  <2>2. Max(S) \in S
    BY <2>1, MaxIs
  <2> QED BY <1>2, <2>2
<1>4. Logistic(z) = IF z < 0 THEN 100 - Max(S) ELSE Max(S)
  BY DEF Logistic
<1> HIDE DEF S
<1> QED BY <1>3, <1>4

LEMMA SquareSign == \A a \in Int : a * a \in Nat
  OBVIOUS

LEMMA QuotientType == \A a \in Nat, b \in Nat \ {0} : a \div b \in Nat
  OBVIOUS

LEMMA QuotientSign == \A a \in Int, b \in Nat \ {0} : a \div b > 0 => a > 0
  OBVIOUS

\* The standard deviation of a baseline with values is a natural number.
LEMMA SigmaType ==
  ASSUME NEW values \in Seq(Int), values # <<>>
  PROVE  Mean(values) \in Int /\ Sigma(values) \in Nat
<1> DEFINE n == Len(values)
           mean == Mean(values)
           squares == [i \in DOMAIN values |-> (values[i] - mean) * (values[i] - mean)]
           variance == Total(squares) \div n
           T == {s \in Nat : (s + 1) * (s + 1) > variance}
<1>1. n \in Nat \ {0} /\ Mean(values) \in Int
  <2>1. n \in Nat \ {0}
    OBVIOUS
  <2>2. Total(values) \in Int
    BY TotalType
  <2> HIDE DEF n
  <2> QED BY <2>1, <2>2 DEF Mean, n
<1>2. squares \in Seq(Nat) /\ Len(squares) = n
  <2>1. \A i \in 1..n : (values[i] - mean) * (values[i] - mean) \in Nat
    BY <1>1, SquareSign
  <2>2. squares \in [1..n -> Nat]
    BY <2>1
  <2> QED BY <2>2, <1>1
<1>3. variance \in Nat
  <2>1. Total(squares) \in Nat
    <3> HIDE DEF squares
    <3> QED BY <1>2, TotalType
  <2> QED BY <2>1, <1>1, QuotientType
<1> HIDE DEF variance
<1>4. PICK s \in T : \A t \in T : s <= t
  <2>1. variance \in T
    BY <1>3
  <2> HIDE DEF T
  <2> QED BY <2>1, LeastNatural DEF T
<1>5. s * s <= variance
  <2>1. CASE s = 0
    BY <2>1, <1>3
  <2>2. CASE s # 0
    <3>1. s - 1 \in Nat /\ s - 1 \notin T /\ (s - 1) + 1 = s
      BY <2>2, <1>4
    <3> QED BY <3>1, <1>3
  <2> QED BY <2>1, <2>2
<1>6. s \in 0..variance
  <2>1. s <= s * s
    OBVIOUS
  <2> QED BY <2>1, <1>5, <1>3
<1>7. Sigma(values) = CHOOSE k \in 0..variance : k * k <= variance /\ (k + 1) * (k + 1) > variance
  BY DEF Sigma, variance
<1>8. \E k \in 0..variance : k * k <= variance /\ (k + 1) * (k + 1) > variance
  BY <1>5, <1>6
<1>9. Sigma(values) \in 0..variance
  BY <1>7, <1>8
<1> QED BY <1>9, <1>3, <1>1

\* A signal whose score reaches the floor of the edge stands above the mean of
\* its baseline, warm or cold.
LEMMA ScoredAboveMean ==
  ASSUME NEW raw \in Int, NEW values \in Seq(Int), values # <<>>,
         NormalizeSignal(raw, values) >= 55
  PROVE  Mean(values) < raw
<1>1. Mean(values) \in Int /\ Sigma(values) \in Nat
  BY SigmaType
<1>2. Len(values) \in Nat /\ MinSamples \in Nat
  BY DecisionsAssumption
<1>3. CASE Len(values) < MinSamples
  <2>1. NormalizeSignal(raw, values) = Logistic(raw - Mean(values))
    BY <1>2, <1>3 DEF NormalizeSignal, Compressed
  <2>2. raw - Mean(values) > 0
    BY <2>1, <1>1, LogisticRises
  <2> QED BY <2>2, <1>1
<1>4. CASE ~ (Len(values) < MinSamples)
  <2> DEFINE d == raw - Mean(values)
  <2>0. d \in Int
    BY <1>1
  <2>1. NormalizeSignal(raw, values) = Logistic(ZScore(raw, values))
    BY <1>2, <1>4 DEF NormalizeSignal, Compressed
  <2>2. CASE Sigma(values) = 0
    <3>1. ZScore(raw, values) = 1000000 * d
      BY <2>2 DEF ZScore
    <3>2. 1000000 * d > 0
      BY <3>1, <2>1, <2>0, LogisticRises
    <3> QED BY <3>2, <1>1
  <2>3. CASE Sigma(values) # 0
    <3>1. ZScore(raw, values) = (10 * d) \div Sigma(values)
      BY <2>3 DEF ZScore
    <3>2. Sigma(values) \in Nat \ {0}
      BY <1>1, <2>3
    <3>3. (10 * d) \div Sigma(values) \in Int
      BY <3>2, <2>0
    <3>4. (10 * d) \div Sigma(values) > 0
      BY <3>1, <3>3, <2>1, LogisticRises
    <3>5. 10 * d > 0
      BY <3>2, <3>4, <2>0, QuotientSign
    <3> QED BY <3>5, <1>1
  <2> QED BY <2>2, <2>3
<1> QED BY <1>3, <1>4

LEMMA NormalizeType ==
  ASSUME NEW raw \in Int, NEW values \in Seq(Int)
  PROVE  NormalizeSignal(raw, values) \in 0..100
<1>1. Compressed(raw, values) \in Int
  <2>1. CASE values = <<>>
    BY <2>1 DEF Compressed
  <2>2. CASE values # <<>>
    <3>1. Mean(values) \in Int /\ Sigma(values) \in Nat
      BY <2>2, SigmaType
    <3>2. ZScore(raw, values) \in Int
      <4>1. CASE Sigma(values) = 0
        BY <4>1, <3>1 DEF ZScore
      <4>2. CASE Sigma(values) # 0
        <5>1. Sigma(values) \in Nat \ {0} /\ 10 * (raw - Mean(values)) \in Int
          BY <4>2, <3>1
        <5>2. ZScore(raw, values) = (10 * (raw - Mean(values))) \div Sigma(values)
          BY <4>2 DEF ZScore
        <5> QED BY <5>1, <5>2
      <4> QED BY <4>1, <4>2
    <3> QED BY <2>2, <3>1, <3>2 DEF Compressed
  <2> QED BY <2>1, <2>2
<1> QED BY <1>1, LogisticRises DEF NormalizeSignal

LEMMA RawLiquidityType ==
  ASSUME NEW usd \in Nat
  PROVE  /\ RawLiquidity(usd) \in 0..103
         /\ usd = 4500 => RawLiquidity(usd) = 84
<1> DEFINE steps == {<<0, 0>>, <<1000, 69>>, <<4000, 83>>, <<4500, 84>>, <<5000, 85>>, <<8000, 90>>,
                     <<9900, 92>>, <<30000, 103>>}
           reached == {s \in steps : s[1] <= usd}
           S == {step[2] : step \in reached}
<1>1. \A s \in steps : s[2] \in 0..103
  OBVIOUS
<1>2. <<0, 0>> \in reached /\ <<0, 0>>[2] = 0
  OBVIOUS
<1>3. usd = 4500 => /\ <<4500, 84>> \in reached /\ <<4500, 84>>[2] = 84
                    /\ \A s \in reached : s[2] <= 84
  OBVIOUS
<1>4. S \in SUBSET (0..103) /\ S # {} /\ 103 \in Nat
  BY <1>1, <1>2
<1>5. usd = 4500 => 84 \in S /\ \A y \in S : y <= 84
  BY <1>3
<1> HIDE DEF S
<1>6. Max(S) \in S /\ \A y \in S : Max(S) >= y
  BY <1>4, MaxIs
<1>7. RawLiquidity(usd) = Max(S)
  BY DEF RawLiquidity, S
<1>8. Max(S) \in 0..103
  BY <1>4, <1>6
<1>9. usd = 4500 => Max(S) <= 84 /\ Max(S) >= 84
  BY <1>5, <1>6
<1> QED BY <1>7, <1>8, <1>9

LEMMA AbsoluteScoreType ==
  ASSUME NEW usd \in Nat
  PROVE  AbsoluteLiquidityScore(usd) \in Int /\ AbsoluteLiquidityScore(usd) <= 100
<1>1. RawLiquidity(usd) \in 0..103 /\ RawLiquidity(Anchor) = 84
  BY RawLiquidityType DEF Anchor
<1> QED BY <1>1 DEF AbsoluteLiquidityScore

\* What is known of a token, and what the features are made of.
LEMMA EvidenceOf ==
  ASSUME NEW t \in Tokens \union Past, kind \in [Tokens \union Past -> Kinds]
  PROVE  Of(t) \in Evidence
BY DecisionsAssumption DEF Of

LEMMA LiquidityScoreType ==
  ASSUME NEW e \in Evidence, NEW values \in Seq(Int)
  PROVE  LiquidityScore(e, values) \in Int /\ LiquidityScore(e, values) <= 100
<1>1. e.usd \in Nat /\ e.raw["liquidity"] \in Int
  BY DEF Evidence, Signals
<1>2. CASE AbsoluteScoring(e)
  BY <1>1, <1>2, AbsoluteScoreType DEF LiquidityScore
<1>3. CASE ~ AbsoluteScoring(e)
  <2>1. NormalizeSignal(e.raw["liquidity"], values) \in 0..100
    BY <1>1, NormalizeType
  <2>2. LiquidityScore(e, values) = Min({55, NormalizeSignal(e.raw["liquidity"], values)})
    BY <1>3 DEF LiquidityScore
  <2> DEFINE x == NormalizeSignal(e.raw["liquidity"], values)
  <2> HIDE DEF x
  <2>3. x \in 0..100 /\ 55 \in Int
    BY <2>1 DEF x
  <2>4. Min({55, x}) = IF 55 <= x THEN 55 ELSE x
    BY <2>3, MinOfTwo
  <2>5. LiquidityScore(e, values) = Min({55, x})
    BY <2>2 DEF x
  <2> QED BY <2>3, <2>4, <2>5
<1> QED BY <1>2, <1>3

LEMMA PriceScoreType ==
  ASSUME NEW price \in Int, NEW values \in Seq(Int)
  PROVE  PriceScore(price, values) \in Int
<1> DEFINE change == IF price = Unknown \/ values = <<>> THEN 0
                     ELSE CASE price > Mean(values) -> 7
                            [] price < Mean(values) -> -7
                            [] OTHER                -> 0
<1>1. change \in Int
  <2>1. CASE price = Unknown \/ values = <<>>
    BY <2>1
  <2>2. CASE ~ (price = Unknown \/ values = <<>>)
    <3>1. Mean(values) \in Int
      BY <2>2, SigmaType
    <3> QED BY <3>1, <2>2
  <2> QED BY <2>1, <2>2
<1> HIDE DEF change
<1>2. Logistic(change) \in 0..100
  BY <1>1, LogisticRises
<1>3. PriceScore(price, values) \in {Logistic(change), 100, 0}
  BY DEF PriceScore, change
<1> QED BY <1>2, <1>3

-------------------------------------------------------------------------------
(* The features. *)

Readings == Seq(Tokens \union Past) \union {Blind}

\* What ProcessWithContext goes by when it has read r.
EvidenceIn(t, r) ==
  IF r = Blind
  THEN [Of(t) EXCEPT !.origin = "birth", !.usd = 0, !.age = 0,
                     !.raw = [s \in Signals |-> Unknown]]
  ELSE Of(t)

Run(r) == IF r = Blind THEN <<>> ELSE r

LEMMA ReadingTypes ==
  ASSUME NEW t \in Tokens, NEW r \in Readings, kind \in [Tokens \union Past -> Kinds]
  PROVE  /\ EvidenceIn(t, r) \in Evidence
         /\ Run(r) \in Seq(Tokens \union Past)
         /\ \A s \in Signals : HistoryFor(Run(r), s) \in Seq(Int)
<1>1. Of(t) \in Evidence
  BY EvidenceOf
<1>2. EvidenceIn(t, r) \in Evidence
  <2>1. CASE r = Blind
    <3>1. Unknown \in Int
      BY DEF Unknown
    <3> QED BY <1>1, <2>1, <3>1 DEF EvidenceIn, Evidence
  <2>2. CASE r # Blind
    BY <1>1, <2>2 DEF EvidenceIn
  <2> QED BY <2>1, <2>2
<1>3. Run(r) \in Seq(Tokens \union Past)
  BY DEF Run, Readings
<1> QED BY <1>2, <1>3, HistoryType

LEMMA FeatureParts ==
  ASSUME NEW t \in Tokens, NEW r
  PROVE  LET e == EvidenceIn(t, r)
             f == Features(t, r)
         IN  /\ f.origin = e.origin /\ f.usd = e.usd
             /\ f.score["liquidity"] = LiquidityScore(e, HistoryFor(Run(r), "liquidity"))
             /\ f.score["price"] =
                  Suppressed(e, "price", PriceScore(e.raw["price"], HistoryFor(Run(r), "price")))
             /\ f.confidence =
                  ModelConfidence(Redistribute(DerivedConfidence(e, Run(r)), Unstable(Run(r))))
BY DEF Features, EvidenceIn, Run, Suppressed, Score, Signals

\* The scores that the slippage model looks at.
LEMMA FeatureTypes ==
  ASSUME NEW t \in Tokens, NEW r \in Readings, kind \in [Tokens \union Past -> Kinds]
  PROVE  LET f == Features(t, r)
         IN  /\ f.usd \in Nat
             /\ f.score["liquidity"] \in Int /\ f.score["liquidity"] <= 100
             /\ f.score["price"] \in Int
<1> DEFINE e == EvidenceIn(t, r)
           price == PriceScore(e.raw["price"], HistoryFor(Run(r), "price"))
<1>1. /\ e \in Evidence
      /\ HistoryFor(Run(r), "liquidity") \in Seq(Int)
      /\ HistoryFor(Run(r), "price") \in Seq(Int)
  BY ReadingTypes DEF Signals
<1> HIDE DEF e
<1>2. e.usd \in Nat /\ e.raw["price"] \in Int
  BY <1>1 DEF Evidence, Signals
<1>3. price \in Int
  BY <1>1, <1>2, PriceScoreType
<1> HIDE DEF price
<1>4. Suppressed(e, "price", price) \in Int
  BY <1>3 DEF Suppressed
<1>5. /\ LiquidityScore(e, HistoryFor(Run(r), "liquidity")) \in Int
      /\ LiquidityScore(e, HistoryFor(Run(r), "liquidity")) <= 100
  BY <1>1, LiquidityScoreType
<1> QED BY <1>2, <1>4, <1>5, FeatureParts DEF e, price

\* The estimate of the slippage is never negative.
LEMMA SlippageType ==
  ASSUME NEW f, f.usd \in Nat,
         f.score["liquidity"] \in Int, f.score["liquidity"] <= 100,
         f.score["price"] \in Int
  PROVE  SlippageP95(f) \in Nat
<1> DEFINE reserve == Max({1, f.usd \div 2})
           p50 == Min({5000, 50000 \div (reserve + 5)})
           moved == 2 * f.score["price"] - 100
           spread == 100 - f.score["liquidity"] + (IF moved < 0 THEN -moved ELSE moved) \div 2
           sigma == Min({100, spread})
           tail == p50 + (165 * p50 * sigma) \div 10000 + 25
<1>1. reserve \in Nat \ {0}
  <2>1. f.usd \div 2 \in Nat
    OBVIOUS
  <2> QED BY <2>1, MaxOfTwo
<1> HIDE DEF reserve
<1>2. p50 \in Nat
  <2>1. 50000 \div (reserve + 5) \in Nat
    BY <1>1
  <2> QED BY <2>1, MinOfTwo
<1>3. spread \in Nat
  OBVIOUS
<1> HIDE DEF p50, spread
<1>4. sigma \in Nat
  BY <1>3, MinOfTwo
<1> HIDE DEF sigma
<1>5. 165 * p50 * sigma \in Nat
  BY <1>2, <1>4
<1>6. tail \in Nat
  <2>1. (165 * p50 * sigma) \div 10000 \in Nat
    BY <1>5, QuotientType
  <2> QED BY <2>1, <1>2
<1>7. SlippageP95(f) = Min({5000, tail})
  BY DEF SlippageP95, reserve, p50, spread, sigma
<1> HIDE DEF tail
<1> QED BY <1>6, <1>7, MinOfTwo

\* What the model is not confident of is worth nothing to any mode.
LEMMA UnsureIsRejected ==
  ASSUME NEW f, f.confidence \in 1..34, NEW slippage \in Nat, NEW m
  PROVE  ~ Accepts(f, slippage, m)
<1>1. ProbabilityUsed(f) = 35
  BY DEF ProbabilityUsed, MinModelConfidence, PriorProbability
<1>2. EvThresholdBps(m) \in {30, 60, 100, 150}
  BY DEF EvThresholdBps
<1> QED BY <1>1, <1>2 DEF Accepts, ExpectedValue

\* A token of unknown age has a confidence of at most ten, unless signals that
\* are not stable give theirs to it.
LEMMA UnknownAgeIsUnsure ==
  ASSUME NEW e \in Evidence, e.age = 0, NEW run,
         \A s \in Signals : HistoryFor(run, s) \in Seq(Int)
  PROVE  ModelConfidence(Redistribute(DerivedConfidence(e, run), {})) \in 1..10
<1> DEFINE w == DerivedConfidence(e, run)
           channels == Signals \union {"safety", "age"}
           given == {w[c] : c \in channels} \ {0}
<1>1. Redistribute(w, {}) = w /\ DOMAIN w = channels
  BY DEF Redistribute, DerivedConfidence
<1>2. w["age"] = 10
  BY DEF DerivedConfidence, AgeConfidence
<1>3. ASSUME NEW n \in Nat PROVE (50 * Min({n, MinSamples})) \div MinSamples \in Nat
  <2>1. MinSamples \in Nat \ {0}
    BY DecisionsAssumption
  <2>2. Min({n, MinSamples}) \in Nat
    BY <2>1, MinOfTwo
  <2> QED BY <2>1, <2>2, QuotientType
<1>4. ASSUME NEW c \in channels PROVE w[c] \in Nat
  <2>1. CASE c = "safety"
    <3>1. e.vouched \in 0..4
      BY DEF Evidence
    <3>2. 40 + 15 * e.vouched \in Nat
      BY <3>1
    <3>3. Min({100, 40 + 15 * e.vouched}) \in Nat
      BY <3>2, MinOfTwo
    <3> QED BY <2>1, <3>3 DEF DerivedConfidence
  <2>2. CASE c = "age"
    BY <1>2, <2>2
  <2>3. CASE c \in Signals
    <3>1. c # "safety" /\ c # "age"
      BY <2>3 DEF Signals
    <3>2. Len(HistoryFor(run, c)) \in Nat
      BY <2>3
    <3>3. DeriveConfidence(e.usd > 0, 0, FALSE) \in Nat
      BY <1>3 DEF DeriveConfidence
    <3>4. DeriveConfidence(e.raw[c] # Unknown, Len(HistoryFor(run, c)),
                           Rough(Known(e.raw[c]), HistoryFor(run, c))) \in Nat
      BY <1>3, <3>2 DEF DeriveConfidence
    <3> QED BY <3>1, <3>3, <3>4 DEF DerivedConfidence
  <2> QED BY <2>1, <2>2, <2>3
<1> HIDE DEF w
<1>5. given \in SUBSET Nat /\ 10 \in given /\ 0 \notin given
  BY <1>2, <1>4
<1>6. ModelConfidence(w) = Min(given)
  BY <1>1, <1>5 DEF ModelConfidence
<1> HIDE DEF given
<1>7. Min(given) \in given /\ Min(given) <= 10
  BY <1>5, MinIs
<1>8. Min(given) \in 1..10
  <2> DEFINE x == Min(given)
  <2> HIDE DEF x
  <2>1. x \in given /\ x <= 10
    BY <1>7 DEF x
  <2>2. x \in Nat /\ x # 0
    BY <1>5, <2>1
  <2> QED BY <2>1, <2>2 DEF x
<1>9. ModelConfidence(Redistribute(w, {})) = Min(given)
  BY <1>1, <1>6
<1> QED BY <1>8, <1>9 DEF w

\* With nothing to measure against, nothing is unstable.
LEMMA NothingUnstable ==
  ASSUME kind \in [Tokens \union Past -> Kinds]
  PROVE  Unstable(<<>>) = {}
<1>1. \A s \in Signals : HistoryFor(<<>>, s) = <<>>
  <2> <<>> \in Seq(Tokens \union Past)
    OBVIOUS
  <2> QED BY HistoryType
<1>2. 0 < MinBars
  BY DecisionsAssumption
<1> QED BY <1>1, <1>2 DEF Unstable, Stable

\* A token of unknown age is bought only on unstable signals.
LEMMA UnknownAgeIsRejected ==
  ASSUME NEW t \in Tokens, NEW r \in Readings, kind \in [Tokens \union Past -> Kinds],
         Of(t).age = 0, r = Blind \/ Unstable(r) = {}, NEW m,
         NEW slippage \in SlippagesUsed(Features(t, r))
  PROVE  ~ Accepts(Features(t, r), slippage, m)
<1> DEFINE e == EvidenceIn(t, r)
           f == Features(t, r)
<1>1. e \in Evidence /\ \A s \in Signals : HistoryFor(Run(r), s) \in Seq(Int)
  BY ReadingTypes
<1>2. e.age = 0
  <2>1. Of(t) \in Evidence
    BY EvidenceOf
  <2> QED BY <2>1 DEF EvidenceIn, Evidence
<1>3. Unstable(Run(r)) = {}
  BY NothingUnstable DEF Run
<1> HIDE DEF e
<1>4. f.confidence \in 1..10
  <2>1. f.confidence = ModelConfidence(Redistribute(DerivedConfidence(e, Run(r)), {}))
    BY <1>3, FeatureParts DEF e
  <2> QED BY <2>1, <1>1, <1>2, UnknownAgeIsUnsure
<1>5. slippage \in Nat
  <2>1. SlippageP95(f) \in Nat
    BY FeatureTypes, SlippageType
  <2> QED BY <2>1 DEF SlippagesUsed, PriorSlippageBps
<1> HIDE DEF f
<1>6. ~ Accepts(f, slippage, m)
  BY <1>4, <1>5, UnsureIsRejected
<1> QED BY <1>6 DEF f

\* An edge that is made of virtual liquidity stands above its peers.
LEMMA EdgeAboveMean ==
  ASSUME NEW t \in Tokens, NEW r \in Readings, kind \in [Tokens \union Past -> Kinds],
         r # Blind, ~ AbsoluteScoring(Of(t)), NEW m, EdgeDetected(Features(t, r), m)
  PROVE  LET peers == HistoryFor(r, "liquidity")
         IN  peers = <<>> \/ Mean(peers) < Of(t).raw["liquidity"]
<1> DEFINE e == Of(t)
           peers == HistoryFor(r, "liquidity")
           score == NormalizeSignal(e.raw["liquidity"], peers)
<1>1. e \in Evidence /\ EvidenceIn(t, r) = e /\ Run(r) = r
  BY EvidenceOf DEF EvidenceIn, Run
<1>2. peers \in Seq(Int)
  BY <1>1, ReadingTypes DEF Signals
<1>3. e.raw["liquidity"] \in Int
  BY <1>1 DEF Evidence, Signals
<1>4. Features(t, r).score["liquidity"] = Min({55, score})
  BY <1>1, FeatureParts DEF LiquidityScore
<1>5. Features(t, r).score["liquidity"] >= 55
  BY DEF EdgeDetected, GraduationStrengths, LaunchStrengths
<1>6. score \in 0..100
  BY <1>2, <1>3, NormalizeType
<1> HIDE DEF score
<1>7. Min({55, score}) = IF 55 <= score THEN 55 ELSE score
  BY <1>6, MinOfTwo
<1>8. score >= 55
  BY <1>4, <1>5, <1>6, <1>7
<1> QED BY <1>2, <1>3, <1>8, ScoredAboveMean DEF score

-------------------------------------------------------------------------------
(* The inductive invariant. *)

\* What a token carries from one stage to the next.
Carried(t) ==
  /\ stage[t] \in {"recorded", "routed"} => snapshot[t] \in Readings
  /\ stage[t] \in {"featured", "detected", "accepted"} => emitted[t] \in Readings
  /\ t \in estimated => routed[t] \in Readings
  /\ stage[t] = "accepted" => t \in estimated

\* The verdicts were made from what is still there.
Verdicts(t) ==
  /\ stage[t] \in {"detected", "accepted"} =>
       \E m \in OperationalModes : EdgeDetected(Features(t, emitted[t]), m)
  /\ stage[t] = "accepted" =>
       \E m \in OperationalModes, slippage \in SlippagesUsed(Features(t, routed[t])) :
         Accepts(Features(t, routed[t]), slippage, m)

DecisionsInv ==
  /\ DecisionsTypeOK
  /\ \A t \in Tokens : Carried(t) /\ Verdicts(t)

LEMMA ReadingsAreSomething == Nothing \notin Readings
<1>1. Nothing # Blind
  BY DEF Nothing, Blind
<1>2. ASSUME Nothing \in Seq(Tokens \union Past) PROVE FALSE
  <2>1. Nothing[1] \in Tokens \union Past
    BY <1>2 DEF Nothing
  <2> QED BY <2>1, DecisionsAssumption DEF Nothing
<1> QED BY <1>1, <1>2 DEF Readings

\* The kinds never change, so neither do the features of a reading.
LEMMA FeaturesFixed ==
  ASSUME kind' = kind
  PROVE  \A t \in Tokens, r \in Readings : Features(t, r)' = Features(t, r)
BY DEF Features, Of, Unstable, HistoryFor, DerivedConfidence

LEMMA DecisionsInitOK == DecisionsInit => DecisionsInv
<1> SUFFICES ASSUME DecisionsInit PROVE DecisionsInv
  OBVIOUS
<1>1. baseline \in Seq(Tokens \union Past)
  <2>1. baseline \in Seq(Past)
    BY DecisionsAssumption DEF DecisionsInit
  <2> QED BY <2>1
<1>2. mishaps \in 0..MaxMishaps
  BY DecisionsAssumption DEF DecisionsInit
<1>3. DecisionsTypeOK
  BY <1>1, <1>2 DEF DecisionsInit, DecisionsTypeOK, DecisionStages, Snapshots
<1>4. \A t \in Tokens : Carried(t) /\ Verdicts(t)
  BY DEF DecisionsInit, Carried, Verdicts
<1> QED BY <1>3, <1>4 DEF DecisionsInv

LEMMA DecisionsTypeStep ==
  ASSUME DecisionsInv, [DecisionsNext]_decisionsVars
  PROVE  DecisionsTypeOK' /\ kind' = kind
<1> USE DEF DecisionsInv, DecisionsTypeOK, DecisionStages, Snapshots
<1>1. CASE UNCHANGED decisionsVars
  BY <1>1 DEF decisionsVars
<1>2. ASSUME NEW t \in Tokens, Extract(t) PROVE DecisionsTypeOK' /\ kind' = kind
  <2>1. baseline' \in Seq(Tokens \union Past)
    BY <1>2 DEF Extract
  <2> QED BY <1>2, <2>1 DEF Extract, Enters
<1>3. ASSUME NEW t \in Tokens, ExtractBlind(t) PROVE DecisionsTypeOK' /\ kind' = kind
  BY <1>3, DecisionsAssumption DEF ExtractBlind, Enters, Mishap
<1>4. ASSUME NEW t \in Tokens, Route(t) PROVE DecisionsTypeOK' /\ kind' = kind
  BY <1>4 DEF Route, Enters
<1>5. ASSUME NEW t \in Tokens, Emit(t) PROVE DecisionsTypeOK' /\ kind' = kind
  BY <1>5 DEF Emit, Enters
<1>6. ASSUME NEW t \in Tokens, ExtractionFails(t) PROVE DecisionsTypeOK' /\ kind' = kind
  BY <1>6, DecisionsAssumption DEF ExtractionFails, Enters, Mishap
<1>7. ASSUME NEW t \in Tokens, Estimate(t) PROVE DecisionsTypeOK' /\ kind' = kind
  BY <1>7 DEF Estimate
<1>8. ASSUME NEW t \in Tokens, Detect(t) PROVE DecisionsTypeOK' /\ kind' = kind
  BY <1>8 DEF Detect, Enters
<1>9. ASSUME NEW t \in Tokens, Validate(t) PROVE DecisionsTypeOK' /\ kind' = kind
  BY <1>9 DEF Validate, Enters
<1>10. ASSUME NEW t \in Tokens, JoinTimesOut(t) PROVE DecisionsTypeOK' /\ kind' = kind
  BY <1>10 DEF JoinTimesOut, Enters
<1>11. CASE RestartStages
  <2>1. baseline' \in Seq(Tokens \union Past)
    BY <1>11 DEF RestartStages
  <2> QED BY <1>11, <2>1, DecisionsAssumption DEF RestartStages, Mishap
<1> QED BY <1>1, <1>2, <1>3, <1>4, <1>5, <1>6, <1>7, <1>8, <1>9, <1>10, <1>11 DEF DecisionsNext

\* A token that the step is not about keeps what it has.
LEMMA OthersUndisturbed ==
  ASSUME DecisionsInv, kind' = kind, NEW t \in Tokens,
         stage'[t] = stage[t], emitted'[t] = emitted[t], routed'[t] = routed[t],
         snapshot'[t] = snapshot[t], t \in estimated' <=> t \in estimated
  PROVE  Carried(t)' /\ Verdicts(t)'
<1>1. Carried(t) /\ Verdicts(t)
  BY DEF DecisionsInv
<1>2. Carried(t)'
  BY <1>1 DEF Carried
<1>3. Verdicts(t)'
  BY <1>1, FeaturesFixed DEF Carried, Verdicts
<1> QED BY <1>2, <1>3

LEMMA DecisionsNextOK ==
  ASSUME DecisionsInv, [DecisionsNext]_decisionsVars
  PROVE  DecisionsInv'
<1>0. DecisionsTypeOK' /\ kind' = kind
  BY DecisionsTypeStep
<1> SUFFICES ASSUME NEW u \in Tokens PROVE Carried(u)' /\ Verdicts(u)'
  BY <1>0 DEF DecisionsInv
<1>a. Carried(u) /\ Verdicts(u) /\ DecisionsTypeOK
  BY DEF DecisionsInv
<1>b. \A r \in Readings : Features(u, r)' = Features(u, r)
  BY <1>0, FeaturesFixed
<1> USE DEF DecisionsTypeOK
<1>1. CASE UNCHANGED decisionsVars
  BY <1>0, <1>1, OthersUndisturbed DEF decisionsVars
<1>2. ASSUME NEW t \in Tokens, Extract(t) PROVE Carried(u)' /\ Verdicts(u)'
  <2>1. CASE u # t
    BY <1>0, <1>a, <1>2, <2>1, OthersUndisturbed DEF Extract, Enters
  <2>2. CASE u = t
    BY <1>a, <1>2, <2>2 DEF Extract, Enters, Carried, Verdicts, Readings
  <2> QED BY <2>1, <2>2
<1>3. ASSUME NEW t \in Tokens, ExtractBlind(t) PROVE Carried(u)' /\ Verdicts(u)'
  <2>1. CASE u # t
    BY <1>0, <1>a, <1>3, <2>1, OthersUndisturbed DEF ExtractBlind, Enters
  <2>2. CASE u = t
    BY <1>a, <1>3, <2>2 DEF ExtractBlind, Enters, Carried, Verdicts, Readings
  <2> QED BY <2>1, <2>2
<1>4. ASSUME NEW t \in Tokens, Route(t) PROVE Carried(u)' /\ Verdicts(u)'
  <2>1. CASE u # t
    BY <1>0, <1>a, <1>4, <2>1, OthersUndisturbed DEF Route, Enters
  <2>2. CASE u = t
    BY <1>a, <1>4, <2>2, ReadingsAreSomething DEF Route, Enters, Carried, Verdicts
  <2> QED BY <2>1, <2>2
<1>5. ASSUME NEW t \in Tokens, Emit(t) PROVE Carried(u)' /\ Verdicts(u)'
  <2>1. CASE u # t
    BY <1>0, <1>a, <1>5, <2>1, OthersUndisturbed DEF Emit, Enters
  <2>2. CASE u = t
    BY <1>a, <1>5, <2>2 DEF Emit, Enters, Carried, Verdicts
  <2> QED BY <2>1, <2>2
<1>6. ASSUME NEW t \in Tokens, ExtractionFails(t) PROVE Carried(u)' /\ Verdicts(u)'
  <2>1. CASE u # t
    BY <1>0, <1>a, <1>6, <2>1, OthersUndisturbed DEF ExtractionFails, Enters
  <2>2. CASE u = t
    BY <1>a, <1>6, <2>2 DEF ExtractionFails, Enters, Carried, Verdicts
  <2> QED BY <2>1, <2>2
<1>7. ASSUME NEW t \in Tokens, Estimate(t) PROVE Carried(u)' /\ Verdicts(u)'
  <2>1. CASE u # t
    BY <1>0, <1>a, <1>7, <2>1, OthersUndisturbed DEF Estimate
  <2>2. CASE u = t
    <3>1. routed[t] \in Readings
      BY <1>a, <1>7 DEF Estimate, Snapshots, Readings
    <3>2. Carried(u)'
      BY <1>a, <1>7, <2>2, <3>1 DEF Estimate, Carried
    <3>3. Verdicts(u)'
      BY <1>a, <1>b, <1>7, <2>2 DEF Estimate, Carried, Verdicts
    <3> QED BY <3>2, <3>3
  <2> QED BY <2>1, <2>2
<1>8. ASSUME NEW t \in Tokens, Detect(t) PROVE Carried(u)' /\ Verdicts(u)'
  <2>1. CASE u # t
    BY <1>0, <1>a, <1>8, <2>1, OthersUndisturbed DEF Detect, Enters
  <2>2. CASE u = t
    <3>1. PICK m \in OperationalModes :
            stage' = [stage EXCEPT ![t] =
              IF EdgeDetected(Features(t, emitted[t]), m) THEN "detected" ELSE "rejected"]
      BY <1>8 DEF Detect, Enters
    <3>2. Carried(u)'
      BY <1>a, <1>8, <2>2, <3>1 DEF Detect, Carried
    <3>3. emitted'[u] = emitted[u] /\ emitted[u] \in Readings
      BY <1>a, <1>8, <2>2 DEF Detect, Carried
    <3>4. stage'[u] = "detected" => EdgeDetected(Features(u, emitted[u]), m)
      BY <1>a, <2>2, <3>1
    <3>5. stage'[u] \in {"detected", "rejected"}
      BY <1>a, <2>2, <3>1
    <3>6. Verdicts(u)'
      BY <1>b, <3>3, <3>4, <3>5 DEF Verdicts
    <3> QED BY <3>2, <3>6
  <2> QED BY <2>1, <2>2
<1>9. ASSUME NEW t \in Tokens, Validate(t) PROVE Carried(u)' /\ Verdicts(u)'
  <2>1. CASE u # t
    BY <1>0, <1>a, <1>9, <2>1, OthersUndisturbed DEF Validate, Enters
  <2>2. CASE u = t
    <3>1. PICK m \in OperationalModes, slippage \in SlippagesUsed(Features(t, routed[t])) :
            stage' = [stage EXCEPT ![t] =
              IF Accepts(Features(t, routed[t]), slippage, m) THEN "accepted" ELSE "rejected"]
      BY <1>9 DEF Validate, Enters
    <3>2. Carried(u)'
      BY <1>a, <1>9, <2>2, <3>1 DEF Validate, Carried
    <3>3. /\ emitted'[u] = emitted[u] /\ emitted[u] \in Readings
          /\ routed'[u] = routed[u] /\ routed[u] \in Readings
      BY <1>a, <1>9, <2>2 DEF Validate, Carried
    <3>4. /\ slippage \in SlippagesUsed(Features(u, routed[u]))
          /\ stage'[u] = "accepted" => Accepts(Features(u, routed[u]), slippage, m)
      BY <1>a, <2>2, <3>1
    <3>5. stage'[u] \in {"accepted", "rejected"} /\ stage[u] = "detected"
      BY <1>a, <1>9, <2>2, <3>1 DEF Validate
    <3>6. Verdicts(u)'
      BY <1>a, <1>b, <3>3, <3>4, <3>5 DEF Verdicts
    <3> QED BY <3>2, <3>6
  <2> QED BY <2>1, <2>2
<1>10. ASSUME NEW t \in Tokens, JoinTimesOut(t) PROVE Carried(u)' /\ Verdicts(u)'
  <2>1. CASE u # t
    BY <1>0, <1>a, <1>10, <2>1, OthersUndisturbed DEF JoinTimesOut, Enters
  <2>2. CASE u = t
    BY <1>a, <1>10, <2>2 DEF JoinTimesOut, Enters, Carried, Verdicts
  <2> QED BY <2>1, <2>2
<1>11. CASE RestartStages
  <2>1. /\ stage'[u] = stage[u] /\ stage[u] \notin {"recorded", "routed"}
        \/ stage'[u] = "screened"
    BY <1>11 DEF RestartStages
  <2>2. emitted' = emitted /\ routed' = routed /\ estimated' = estimated
    BY <1>11 DEF RestartStages
  <2>3. Carried(u)'
    BY <1>a, <2>1, <2>2 DEF Carried
  <2>4. Verdicts(u)'
    BY <1>a, <1>b, <2>1, <2>2 DEF Carried, Verdicts
  <2> QED BY <2>3, <2>4
<1> QED BY <1>1, <1>2, <1>3, <1>4, <1>5, <1>6, <1>7, <1>8, <1>9, <1>10, <1>11 DEF DecisionsNext

LEMMA DecisionsInvariant == DecisionsSpec => []DecisionsInv
<1>1. DecisionsInv /\ [DecisionsNext]_decisionsVars => DecisionsInv'
  BY DecisionsNextOK
<1> QED BY DecisionsInitOK, <1>1, PTL DEF DecisionsSpec

-------------------------------------------------------------------------------
(* Theorems. *)

\* The state of the stages stays within its types, for any tokens and kinds.
THEOREM DecisionsTypeCorrect == DecisionsSpec => []DecisionsTypeOK
<1>1. DecisionsInv => DecisionsTypeOK
  BY DEF DecisionsInv
<1> QED BY DecisionsInvariant, <1>1, PTL

\* The edge is made of a birth with nothing but the virtual liquidity only if it
\* stands above the mean of the births before it, for any tokens, any history of
\* the baseline and any threshold of a warm one (DetectEdge, NormalizeSignal).
THEOREM BirthsBlockEachOther == DecisionsSpec => []BirthBlockedByPeers
<1>1. DecisionsInv => BirthBlockedByPeers
  <2> SUFFICES ASSUME DecisionsInv, NEW t \in Tokens,
                      stage[t] \in {"detected", "accepted"}, emitted[t] # Blind,
                      ~ AbsoluteScoring(Of(t))
               PROVE  LET peers == HistoryFor(emitted[t], "liquidity")
                      IN  peers = <<>> \/ Mean(peers) < Of(t).raw["liquidity"]
    BY DEF BirthBlockedByPeers
  <2>1. emitted[t] \in Readings /\ kind \in [Tokens \union Past -> Kinds]
    BY DEF DecisionsInv, DecisionsTypeOK, Carried
  <2>2. PICK m \in OperationalModes : EdgeDetected(Features(t, emitted[t]), m)
    BY DEF DecisionsInv, Verdicts
  <2> DEFINE r == emitted[t]
  <2> HIDE DEF r
  <2>3. LET peers == HistoryFor(r, "liquidity")
        IN  peers = <<>> \/ Mean(peers) < Of(t).raw["liquidity"]
    BY <2>1, <2>2, EdgeAboveMean DEF r
  <2> QED BY <2>3 DEF r
<1> QED BY DecisionsInvariant, <1>1, PTL

\* A token of unknown age is bought only when signals are unstable, in any mode
\* and whatever the features are (ProcessWithEstimatesAt, deriveTokenAgeConfidence).
THEOREM StableUnknownAgeNotBought == DecisionsSpec => []UnknownAgeNeedsInstability
<1>1. DecisionsInv => UnknownAgeNeedsInstability
  <2> SUFFICES ASSUME DecisionsInv, NEW t \in Tokens,
                      stage[t] = "accepted", Of(t).age = 0, Unstable(routed[t]) = {}
               PROVE  FALSE
    BY DEF UnknownAgeNeedsInstability
  <2>1. routed[t] \in Readings /\ kind \in [Tokens \union Past -> Kinds]
    BY DEF DecisionsInv, DecisionsTypeOK, Carried
  <2>2. PICK m \in OperationalModes, slippage \in SlippagesUsed(Features(t, routed[t])) :
          Accepts(Features(t, routed[t]), slippage, m)
    BY DEF DecisionsInv, Verdicts
  <2> QED BY <2>1, <2>2, UnknownAgeIsRejected
<1> QED BY DecisionsInvariant, <1>1, PTL
================================================================================
