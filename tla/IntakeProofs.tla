---------------------------- MODULE IntakeProofs ----------------------------
(***************************************************************************)
(* Theorems about Ingestion, Market and Baselines: their types, that the   *)
(* watermark of a family names data that is there, that the modes that do  *)
(* not explore admit on what is true of a token, and that a looser mode    *)
(* loses none, for any launches, families, tokens, keys and bounds.        *)
(* Behaviours of MCIntake are behaviours of each of the three.             *)
(*                                                                         *)
(* Oldest and LatestRow choose the least of a set; that there is one       *)
(* follows from the natural numbers being well founded, and so do the      *)
(* equations of a sum over a finite set.                                   *)
(***************************************************************************)
EXTENDS MCIntake, WellFoundedInduction, SequenceTheorems, FiniteSetTheorems, TLAPS

\* A set of numbers has a least one.
LEMMA LeastNatural ==
  ASSUME NEW T, T \subseteq Nat, T # {}
  PROVE  \E x \in T : \A y \in T : x <= y
<1>1. PICK x \in T : \A y \in T : ~ (<<y, x>> \in OpToRel(<, Nat))
  BY NatLessThanWellFounded, WFMin
<1>2. \A y \in T : ~ (y < x)
  BY <1>1 DEF OpToRel
<1> QED BY <1>2

-------------------------------------------------------------------------------
(* Sums. *)

\* What the fold of Functions does: it takes one element after the other, as CHOOSE has it.
Picked(s) == CHOOSE x \in s : TRUE
Unrolled(f, g) == g = [s \in SUBSET DOMAIN f |-> IF s = {} THEN 0 ELSE f[Picked(s)] + g[s \ {Picked(s)}]]

LEMMA SumUnrolled ==
  ASSUME NEW f
  PROVE  SumOf(f) = (CHOOSE g : Unrolled(f, g))[DOMAIN f]
BY DEF SumOf, FoldFunction, FoldFunctionOnSet, MapThenFoldSet, Unrolled, Picked

\* Sets of at most n elements.
Small(S, n) == {s \in SUBSET S : Cardinality(s) <= n}

LEMMA PickedSmaller ==
  ASSUME NEW S, IsFiniteSet(S), NEW s \in SUBSET S, s # {}
  PROVE  /\ Picked(s) \in s /\ s \ {Picked(s)} \in SUBSET S
         /\ Cardinality(s) \in Nat /\ Cardinality(s \ {Picked(s)}) = Cardinality(s) - 1
<1>1. Picked(s) \in s
  BY DEF Picked
<1>2. IsFiniteSet(s)
  BY FS_Subset
<1> QED BY <1>1, <1>2, FS_RemoveElement, FS_CardinalityType

Unrolls(f, g, T) ==
  \A s \in T : g[s] = IF s = {} THEN 0 ELSE f[Picked(s)] + g[s \ {Picked(s)}]

\* The sum over a finite set exists.
LEMMA SumExists ==
  ASSUME NEW S, IsFiniteSet(S), NEW f \in [S -> Int]
  PROVE  \E g \in [SUBSET S -> Int] : Unrolls(f, g, SUBSET S)
<1> DEFINE Has(n) == \E g \in [Small(S, n) -> Int] : Unrolls(f, g, Small(S, n))
           T == {n \in Nat : ~ Has(n)}
<1>1. Has(0)
  <2> DEFINE g == [s \in Small(S, 0) |-> 0]
  <2>1. ASSUME NEW s \in Small(S, 0) PROVE s = {}
    <3>1. IsFiniteSet(s) /\ Cardinality(s) = 0
      BY FS_Subset, FS_CardinalityType DEF Small
    <3> QED BY <3>1, FS_EmptySet
  <2>2. g \in [Small(S, 0) -> Int] /\ Unrolls(f, g, Small(S, 0))
    BY <2>1 DEF Unrolls
  <2> QED BY <2>2
<1>2. ASSUME NEW n \in Nat, Has(n) PROVE Has(n + 1)
  <2>1. PICK g \in [Small(S, n) -> Int] : Unrolls(f, g, Small(S, n))
    BY <1>2
  <2> DEFINE h == [s \in Small(S, n + 1) |-> IF s = {} THEN 0 ELSE f[Picked(s)] + g[s \ {Picked(s)}]]
  <2>2. ASSUME NEW s \in Small(S, n + 1), s # {}
        PROVE  Picked(s) \in S /\ s \ {Picked(s)} \in Small(S, n)
    BY <2>2, PickedSmaller DEF Small
  <2>3. h \in [Small(S, n + 1) -> Int]
    BY <2>2
  <2>4. ASSUME NEW s \in Small(S, n) PROVE s \in Small(S, n + 1) /\ h[s] = g[s]
    <3>1. s \in Small(S, n + 1)
      <4> Cardinality(s) \in Nat
        BY FS_Subset, FS_CardinalityType DEF Small
      <4> QED BY DEF Small
    <3> QED BY <2>1, <3>1 DEF Unrolls
  <2>5. Unrolls(f, h, Small(S, n + 1))
    <3> SUFFICES ASSUME NEW s \in Small(S, n + 1), s # {} PROVE h[s] = f[Picked(s)] + h[s \ {Picked(s)}]
      <4> {} \in Small(S, n + 1) => h[{}] = 0
        OBVIOUS
      <4> HIDE DEF h
      <4> QED BY DEF Unrolls
    <3>1. h[s] = f[Picked(s)] + g[s \ {Picked(s)}]
      OBVIOUS
    <3>2. h[s \ {Picked(s)}] = g[s \ {Picked(s)}]
      BY <2>2, <2>4
    <3> HIDE DEF h
    <3> QED BY <3>1, <3>2
  <2> HIDE DEF h
  <2> QED BY <2>3, <2>5
<1>3. \A n \in Nat : Has(n)
  <2> SUFFICES ASSUME T # {} PROVE FALSE
    OBVIOUS
  <2> HIDE DEF Has
  <2>1. PICK n \in T : \A m \in T : n <= m
    <3> T \subseteq Nat
      OBVIOUS
    <3> HIDE DEF T
    <3> QED BY LeastNatural
  <2>2. n # 0
    BY <1>1
  <2>3. n - 1 \in Nat /\ n - 1 \notin T /\ (n - 1) + 1 = n
    BY <2>1, <2>2
  <2>4. Has(n - 1)
    BY <2>3
  <2>5. Has((n - 1) + 1)
    BY <1>2, <2>3, <2>4
  <2> QED BY <2>3, <2>5
<1>4. Cardinality(S) \in Nat
  BY FS_CardinalityType
<1>5. Small(S, Cardinality(S)) = SUBSET S
  BY FS_Subset DEF Small
<1> QED BY <1>3, <1>4, <1>5

\* Of some sets one is smallest.
LEMMA SmallestSet ==
  ASSUME NEW S, IsFiniteSet(S), NEW T, T \subseteq SUBSET S, T # {}
  PROVE  \E s \in T : \A r \in T : Cardinality(s) <= Cardinality(r)
<1> DEFINE sizes == {Cardinality(s) : s \in T}
<1>1. \A s \in T : Cardinality(s) \in Nat
  BY FS_Subset, FS_CardinalityType
<1>2. PICK n \in sizes : \A m \in sizes : n <= m
  <2> sizes \subseteq Nat /\ sizes # {}
    BY <1>1
  <2> HIDE DEF sizes
  <2> QED BY LeastNatural
<1> QED BY <1>2

\* The sum follows the equations of its unrolling, and these have one solution.
LEMMA SumEquations ==
  ASSUME NEW S, IsFiniteSet(S), NEW f \in [S -> Int]
  PROVE  \E g \in [SUBSET S -> Int] : Unrolls(f, g, SUBSET S) /\ SumOf(f) = g[S]
<1> DEFINE c == CHOOSE g : Unrolled(f, g)
<1>1. PICK g \in [SUBSET S -> Int] : Unrolls(f, g, SUBSET S)
  BY SumExists
<1>2. Unrolled(f, g)
  <2> DEFINE u == [s \in SUBSET S |-> IF s = {} THEN 0 ELSE f[Picked(s)] + g[s \ {Picked(s)}]]
  <2>1. \A s \in SUBSET S : g[s] = u[s]
    BY <1>1 DEF Unrolls
  <2>2. g = [s \in SUBSET S |-> g[s]] /\ u = [s \in SUBSET S |-> u[s]]
    OBVIOUS
  <2>3. g = u
    <3> HIDE DEF u
    <3> QED BY <2>1, <2>2
  <2> QED BY <2>3 DEF Unrolled
<1>3. Unrolled(f, c)
  BY <1>2
<1>4. SumOf(f) = c[S]
  BY SumUnrolled
<1> HIDE DEF c
<1>5. Unrolls(f, c, SUBSET S)
  BY <1>3 DEF Unrolled, Unrolls
<1> DEFINE Bad == {s \in SUBSET S : c[s] # g[s]}
<1>6. Bad = {}
  <2> SUFFICES ASSUME Bad # {} PROVE FALSE
    OBVIOUS
  <2>1. PICK s \in Bad : \A r \in Bad : Cardinality(s) <= Cardinality(r)
    <3> Bad \subseteq SUBSET S
      OBVIOUS
    <3> HIDE DEF Bad
    <3> QED BY SmallestSet
  <2>2. s # {}
    <3> {} \in SUBSET S
      OBVIOUS
    <3> c[{}] = 0 /\ g[{}] = 0
      BY <1>1, <1>5 DEF Unrolls
    <3> QED OBVIOUS
  <2>3. s \ {Picked(s)} \notin Bad /\ s \ {Picked(s)} \in SUBSET S
    BY <2>1, <2>2, PickedSmaller
  <2>4. c[s \ {Picked(s)}] = g[s \ {Picked(s)}]
    BY <2>3
  <2>5. c[s] = f[Picked(s)] + c[s \ {Picked(s)}] /\ g[s] = f[Picked(s)] + g[s \ {Picked(s)}]
    BY <1>1, <1>5, <2>2 DEF Unrolls
  <2> QED BY <2>4, <2>5
<1>7. c[S] = g[S]
  BY <1>6
<1> QED BY <1>1, <1>4, <1>7

\* A sum of larger parts is larger.
LEMMA SumMonotone ==
  ASSUME NEW S, IsFiniteSet(S), NEW f \in [S -> Int], NEW h \in [S -> Int],
         \A x \in S : f[x] <= h[x]
  PROVE  SumOf(f) \in Int /\ SumOf(h) \in Int /\ SumOf(f) <= SumOf(h)
<1>1. PICK g \in [SUBSET S -> Int] : Unrolls(f, g, SUBSET S) /\ SumOf(f) = g[S]
  BY SumEquations
<1>2. PICK k \in [SUBSET S -> Int] : Unrolls(h, k, SUBSET S) /\ SumOf(h) = k[S]
  BY SumEquations
<1> DEFINE Bad == {s \in SUBSET S : ~ (g[s] <= k[s])}
<1>3. Bad = {}
  <2> SUFFICES ASSUME Bad # {} PROVE FALSE
    OBVIOUS
  <2>1. PICK s \in Bad : \A r \in Bad : Cardinality(s) <= Cardinality(r)
    <3> Bad \subseteq SUBSET S
      OBVIOUS
    <3> HIDE DEF Bad
    <3> QED BY SmallestSet
  <2>2. s # {}
    <3>1. {} \in SUBSET S
      OBVIOUS
    <3>2. g[{}] = 0 /\ k[{}] = 0
      BY <1>1, <1>2, <3>1 DEF Unrolls
    <3>3. g[s] = 0 /\ k[s] = 0 => s \notin Bad
      OBVIOUS
    <3> QED BY <2>1, <3>2, <3>3
  <2>3. Picked(s) \in S /\ s \ {Picked(s)} \notin Bad /\ s \ {Picked(s)} \in SUBSET S
    BY <2>1, <2>2, PickedSmaller
  <2>4. g[s \ {Picked(s)}] <= k[s \ {Picked(s)}]
    BY <2>3
  <2>5. g[s] = f[Picked(s)] + g[s \ {Picked(s)}] /\ k[s] = h[Picked(s)] + k[s \ {Picked(s)}]
    BY <1>1, <1>2, <2>2 DEF Unrolls
  <2>6. /\ f[Picked(s)] \in Int /\ h[Picked(s)] \in Int /\ f[Picked(s)] <= h[Picked(s)]
        /\ g[s \ {Picked(s)}] \in Int /\ k[s \ {Picked(s)}] \in Int
    BY <2>3
  <2> HIDE DEF Bad
  <2>7. g[s] <= k[s]
    BY <2>4, <2>5, <2>6
  <2> QED BY <2>1, <2>7 DEF Bad
<1> QED BY <1>1, <1>2, <1>3

\* A sum of natural numbers is one.
LEMMA SumOfNaturals ==
  ASSUME NEW S, IsFiniteSet(S), NEW f \in [S -> Nat]
  PROVE  SumOf(f) \in Nat
<1> DEFINE zero == [x \in S |-> 0]
<1>1. zero \in [S -> Int] /\ f \in [S -> Int] /\ \A x \in S : zero[x] <= f[x]
  OBVIOUS
<1>2. SumOf(zero) = 0
  <2>1. PICK g \in [SUBSET S -> Int] : Unrolls(zero, g, SUBSET S) /\ SumOf(zero) = g[S]
    BY <1>1, SumEquations
  <2> DEFINE Bad == {s \in SUBSET S : g[s] # 0}
  <2>2. Bad = {}
    <3> SUFFICES ASSUME Bad # {} PROVE FALSE
      OBVIOUS
    <3>1. PICK s \in Bad : \A r \in Bad : Cardinality(s) <= Cardinality(r)
      <4> Bad \subseteq SUBSET S
        OBVIOUS
      <4> HIDE DEF Bad
      <4> QED BY SmallestSet
    <3>2. s # {}
      BY <2>1 DEF Unrolls
    <3>3. Picked(s) \in S /\ s \ {Picked(s)} \notin Bad /\ s \ {Picked(s)} \in SUBSET S
      BY <3>1, <3>2, PickedSmaller
    <3>4. g[s] = zero[Picked(s)] + g[s \ {Picked(s)}]
      BY <2>1, <3>2 DEF Unrolls
    <3> QED BY <3>3, <3>4
  <2> QED BY <2>1, <2>2
<1> HIDE DEF zero
<1>3. SumOf(f) \in Int /\ SumOf(zero) <= SumOf(f)
  BY <1>1, SumMonotone
<1> QED BY <1>2, <1>3

-------------------------------------------------------------------------------
(* Ingestion. *)

Launched == {e.launch : e \in events}

\* What a notification has done already.
NoticeOK(l) ==
  /\ notice[l] = "row" => l \in Launched
  /\ notice[l] = "mark" => l \in marketData

\* A round is at the oldest launch of its list, which belongs to the family.
GapOK(f) ==
  /\ gap[f] \in [at : GapStations, todo : SUBSET {l \in Launches : FamilyOf(l) = f}]
  /\ gap[f].at # "rest" => gap[f].todo # {}
  /\ gap[f].at = "row" => Oldest(gap[f].todo) \in Launched
  /\ gap[f].at = "mark" => Oldest(gap[f].todo) \in marketData

IngestionInv ==
  /\ IngestionTypeOK
  /\ gap \in [Families -> [at : GapStations, todo : SUBSET Launches]]
  /\ \A l \in Launches : NoticeOK(l)
  /\ \A f \in Families : GapOK(f)
  /\ WatermarkHasData

\* A counter below its bound counts on.
LEMMA Counted ==
  ASSUME NEW bound \in Nat, NEW n \in 0..bound, n < bound
  PROVE  n + 1 \in 0..bound
OBVIOUS

LEMMA BoundTypes ==
  /\ MaxSlot \in Nat \ {0} /\ PoolSize \in Nat /\ MaxGap \in Nat /\ GapBatch \in Nat
  /\ IngestFaults \in Nat /\ MaxTraffic \in Nat
BY IngestionAssumption

LEMMA LaunchTypes ==
  ASSUME NEW l \in Launches
  PROVE  /\ FamilyOf(l) \in Families
         /\ Launch[l].slot \in 1..MaxSlot
         /\ Launch[l].creator \in {"wallet", "factory", ""}
         /\ CreatorIdentity(l) \in {"wallet", ""}
BY IngestionAssumption DEF FamilyOf, CreatorIdentity

LEMMA OldestIn ==
  ASSUME NEW L \in SUBSET Launches, L # {}
  PROVE  Oldest(L) \in L
<1> DEFINE T == {Launch[l].slot : l \in L}
<1>1. ASSUME NEW l \in L PROVE Launch[l].slot \in Nat
  <2> l \in Launches
    OBVIOUS
  <2> Launch[l].slot \in 1..MaxSlot
    BY LaunchTypes
  <2> QED BY BoundTypes
<1>2. PICK x \in T : \A y \in T : x <= y
  <2> T \subseteq Nat /\ T # {}
    BY <1>1
  <2> HIDE DEF T
  <2> QED BY LeastNatural
<1>3. PICK l \in L : x = Launch[l].slot
  BY <1>2
<1>4. \A m \in L : Launch[l].slot <= Launch[m].slot
  BY <1>2, <1>3
<1> QED BY <1>4 DEF Oldest

\* An event, once it is there, stays, and the emitter leaves one for its launch.
LEMMA EventInserted ==
  ASSUME NEW l \in Launches, NEW c \in {"wallet", "factory", ""},
         \A e \in events : e.launch \in Launches /\ e.creator \in {"wallet", "factory", ""},
         InsertMarketEvent(l, c)
  PROVE  /\ \A e \in events' : e.launch \in Launches /\ e.creator \in {"wallet", "factory", ""}
         /\ Launched \subseteq Launched'
         /\ l \in Launched'
<1>1. CASE \E e \in events : e.launch = l
  BY <1>1 DEF InsertMarketEvent, Launched
<1>2. CASE ~ \E e \in events : e.launch = l
  <2> DEFINE new == [launch |-> l, token |-> Token(l), creator |-> c]
  <2>1. events' = events \union {new}
    BY <1>2 DEF InsertMarketEvent
  <2>2. new.launch = l /\ new.creator = c
    OBVIOUS
  <2> HIDE DEF new
  <2> QED BY <2>1, <2>2 DEF Launched
<1> QED BY <1>1, <1>2

LEMMA IngestionInitOK == IngestionInit => IngestionInv
<1> SUFFICES ASSUME IngestionInit PROVE IngestionInv
  OBVIOUS
<1>1. IngestionTypeOK
  <2>1. slot \in 0..MaxSlot /\ slips \in 0..IngestFaults
    BY BoundTypes DEF IngestionInit
  <2>2. watermark \in [Families -> 0..MaxSlot] /\ traffic \in [Launches -> 0..GapBatch]
    BY BoundTypes DEF IngestionInit
  <2> QED BY <2>1, <2>2 DEF IngestionInit, IngestionTypeOK, Stations, GapStations, NoGap
<1>2. gap \in [Families -> [at : GapStations, todo : SUBSET Launches]]
  BY DEF IngestionInit, NoGap, GapStations
<1>3. \A l \in Launches : NoticeOK(l)
  BY DEF IngestionInit, NoticeOK
<1>4. \A f \in Families : GapOK(f)
  BY DEF IngestionInit, GapOK, NoGap, GapStations
<1>5. WatermarkHasData
  BY DEF IngestionInit, WatermarkHasData
<1> QED BY <1>1, <1>2, <1>3, <1>4, <1>5 DEF IngestionInv

\* The types alone: every field of the state, step by step.
IngestionTyped ==
  /\ IngestionTypeOK
  /\ gap \in [Families -> [at : GapStations, todo : SUBSET Launches]]

\* What was launched or has its row stays so; what the step does not touch is
\* as good as before.
LEMMA IngestionKept ==
  ASSUME IngestionInv, IngestionTyped', Launched \subseteq Launched',
         marketData \subseteq marketData',
         \A l \in Launches : notice'[l] = notice[l] \/ NoticeOK(l)',
         \A f \in Families : gap'[f] = gap[f] \/ GapOK(f)',
         watermark' = watermark \/ WatermarkHasData'
  PROVE  IngestionInv'
<1>1. ASSUME NEW l \in Launches PROVE NoticeOK(l)'
  <2>1. CASE notice'[l] = notice[l]
    BY <2>1 DEF IngestionInv, NoticeOK
  <2> QED BY <2>1
<1>2. ASSUME NEW f \in Families PROVE GapOK(f)'
  <2>1. CASE gap'[f] = gap[f]
    <3>1. GapOK(f)
      BY DEF IngestionInv
    <3> QED BY <2>1, <3>1 DEF GapOK
  <2> QED BY <2>1
<1>3. WatermarkHasData'
  <2>1. CASE watermark' = watermark
    BY <2>1 DEF IngestionInv, WatermarkHasData
  <2> QED BY <2>1
<1> QED BY <1>1, <1>2, <1>3 DEF IngestionInv, IngestionTyped

\* A watermark that is written names a launch with its row.
LEMMA WatermarkWritten ==
  ASSUME IngestionInv, NEW l \in marketData, l \in Launches, UpsertSolanaIngestionWatermark(l),
         marketData \subseteq marketData'
  PROVE  /\ watermark' \in [Families -> 0..MaxSlot]
         /\ WatermarkHasData'
<1>1. FamilyOf(l) \in Families /\ Launch[l].slot \in 0..MaxSlot
  <2> FamilyOf(l) \in Families /\ Launch[l].slot \in 1..MaxSlot
    BY LaunchTypes
  <2> QED BY BoundTypes
<1>2. /\ watermark \in [Families -> 0..MaxSlot]
      /\ watermark' = [watermark EXCEPT ![FamilyOf(l)] = Launch[l].slot]
  BY DEF IngestionInv, IngestionTypeOK, UpsertSolanaIngestionWatermark
<1>3. ASSUME NEW f \in Families, watermark'[f] > 0
      PROVE  \E m \in marketData' : FamilyOf(m) = f /\ Launch[m].slot = watermark'[f]
  <2>1. CASE f = FamilyOf(l)
    BY <1>1, <1>2, <2>1
  <2>2. CASE f # FamilyOf(l)
    <3>1. watermark'[f] = watermark[f]
      BY <1>2, <2>2
    <3> QED BY <1>3, <3>1 DEF IngestionInv, WatermarkHasData
  <2> QED BY <2>1, <2>2
<1>4. WatermarkHasData'
  BY <1>3 DEF WatermarkHasData
<1> QED BY <1>1, <1>2, <1>4

\* A round that goes on with launches of its family.
LEMMA RoundGoesOn ==
  ASSUME IngestionInv, NEW f \in Families, NEW at \in {"fetch", "row", "mark"},
         NEW todo \in SUBSET {l \in Launches : FamilyOf(l) = f}, Round(f, at, todo),
         at = "row" /\ todo # {} => Oldest(todo) \in Launched',
         at = "mark" /\ todo # {} => Oldest(todo) \in marketData'
  PROVE  /\ gap' \in [Families -> [at : GapStations, todo : SUBSET Launches]]
         /\ \A g \in Families : gap'[g].at \in GapStations /\ gap'[g].todo \subseteq Launches
         /\ \A g \in Families : gap'[g] = gap[g] \/ GapOK(g)'
<1>1. gap \in [Families -> [at : GapStations, todo : SUBSET Launches]]
  BY DEF IngestionInv
<1>2. PICK new : new = (IF todo = {} THEN NoGap ELSE [at |-> at, todo |-> todo])
  OBVIOUS
<1>3. gap' = [gap EXCEPT ![f] = new]
  BY <1>2 DEF Round
<1>4. /\ new \in [at : GapStations, todo : SUBSET {l \in Launches : FamilyOf(l) = f}]
      /\ new.at # "rest" => new.todo # {}
      /\ new.at = "row" => Oldest(new.todo) \in Launched'
      /\ new.at = "mark" => Oldest(new.todo) \in marketData'
  BY <1>2 DEF NoGap, GapStations
<1>5. new \in [at : GapStations, todo : SUBSET Launches]
  BY <1>4
<1>6. gap' \in [Families -> [at : GapStations, todo : SUBSET Launches]]
  BY <1>1, <1>3, <1>5
<1>7. gap'[f] = new /\ \A g \in Families \ {f} : gap'[g] = gap[g]
  BY <1>1, <1>3
<1>8. GapOK(f)'
  BY <1>4, <1>7 DEF GapOK
<1> QED BY <1>6, <1>7, <1>8

\* The launch that a round is at.
LEMMA RoundTypes ==
  ASSUME IngestionInv, NEW f \in Families, gap[f].at # "rest"
  PROVE  /\ gap[f].todo \in SUBSET {l \in Launches : FamilyOf(l) = f}
         /\ gap[f].todo # {}
         /\ Oldest(gap[f].todo) \in Launches
<1>1. GapOK(f)
  BY DEF IngestionInv
<1>2. /\ gap[f].todo \in SUBSET {l \in Launches : FamilyOf(l) = f}
      /\ gap[f].todo # {}
  BY <1>1 DEF GapOK
<1>3. Oldest(gap[f].todo) \in gap[f].todo
  BY <1>2, OldestIn
<1> QED BY <1>2, <1>3

\* A notification that moves is the only one that does.
LEMMA Moved ==
  ASSUME IngestionInv, NEW l \in Launches, NEW to \in Stations, Move(l, to),
         Launched \subseteq Launched', marketData \subseteq marketData',
         to = "row" => l \in Launched', to = "mark" => l \in marketData'
  PROVE  /\ notice' \in [Launches -> Stations]
         /\ \A k \in Launches : notice'[k] = notice[k] \/ NoticeOK(k)'
<1>1. notice \in [Launches -> Stations] /\ notice' = [notice EXCEPT ![l] = to]
  BY DEF IngestionInv, IngestionTypeOK, Move
<1>2. notice'[l] = to /\ \A k \in Launches \ {l} : notice'[k] = notice[k]
  BY <1>1
<1>3. NoticeOK(l)'
  BY <1>2 DEF NoticeOK
<1> QED BY <1>1, <1>2, <1>3

LEMMA LiveStepOK ==
  ASSUME IngestionInv, NEW l \in Launches, LiveStep(l)
  PROVE  IngestionInv'
<1> USE DEF tables
<1>0. /\ IngestionTypeOK /\ IngestionTyped /\ NoticeOK(l)
      /\ {"fetch", "normalize", "row", "mark", "over"} \subseteq Stations
  BY DEF IngestionInv, IngestionTyped, Stations
<1>a. slips < IngestFaults => slips + 1 \in 0..IngestFaults
  BY <1>0, BoundTypes, Counted DEF IngestionTypeOK
<1>1. CASE Accept(l)
  <2>1. PICK to \in {"fetch", "normalize"} : Move(l, to)
    <3>1. Entries(FamilyOf(l)) \subseteq {"fetch", "normalize"}
      BY DEF Entries
    <3>2. \E to \in Entries(FamilyOf(l)) : Move(l, to)
      BY <1>1 DEF Accept
    <3> QED BY <3>1, <3>2
  <2>2. Launched' = Launched /\ marketData' = marketData /\ gap' = gap /\ watermark' = watermark
    BY <1>1 DEF Accept, Launched
  <2>3. /\ notice' \in [Launches -> Stations]
        /\ \A k \in Launches : notice'[k] = notice[k] \/ NoticeOK(k)'
    BY <1>0, <2>1, <2>2, Moved
  <2>4. IngestionTyped'
    BY <1>0, <1>1, <2>3 DEF Accept, IngestionTyped, IngestionTypeOK
  <2> QED BY <2>2, <2>3, <2>4, IngestionKept
<1>2. CASE FetchTransaction(l)
  <2>1. PICK to \in {"normalize", "over"} : Move(l, to)
    BY <1>2 DEF FetchTransaction
  <2>2. Launched' = Launched /\ marketData' = marketData /\ gap' = gap /\ watermark' = watermark
    BY <1>2 DEF FetchTransaction, Launched
  <2>3. /\ notice' \in [Launches -> Stations]
        /\ \A k \in Launches : notice'[k] = notice[k] \/ NoticeOK(k)'
    BY <1>0, <2>1, <2>2, Moved
  <2>4. IngestionTyped'
    BY <1>0, <1>a, <1>2, <2>3 DEF FetchTransaction, Slip, IngestionTyped, IngestionTypeOK
  <2> QED BY <2>2, <2>3, <2>4, IngestionKept
<1>3. CASE NormalizeAndEmit(l)
  <2>1. /\ marketData' = marketData /\ gap' = gap /\ watermark' = watermark
        /\ slot' = slot /\ traffic' = traffic /\ backoff' = backoff /\ slips' \in 0..IngestFaults
    BY <1>0, <1>a, <1>3 DEF NormalizeAndEmit, Slip, IngestionTypeOK
  <2>2. CASE InsertMarketEvent(l, CreatorIdentity(l)) /\ Move(l, "row")
    <3>1. /\ \A e \in events' : e.launch \in Launches /\ e.creator \in {"wallet", "factory", ""}
          /\ Launched \subseteq Launched' /\ l \in Launched'
      <4> CreatorIdentity(l) \in {"wallet", "factory", ""}
        BY LaunchTypes
      <4> QED BY <1>0, <2>2, EventInserted DEF IngestionTypeOK
    <3>2. /\ notice' \in [Launches -> Stations]
          /\ \A k \in Launches : notice'[k] = notice[k] \/ NoticeOK(k)'
      BY <1>0, <2>1, <2>2, <3>1, Moved
    <3>3. IngestionTyped'
      BY <1>0, <2>1, <3>1, <3>2 DEF IngestionTyped, IngestionTypeOK, Launched
    <3> QED BY <2>1, <3>1, <3>2, <3>3, IngestionKept
  <2>3. CASE Move(l, "over") /\ UNCHANGED events
    <3>1. Launched' = Launched
      BY <2>3 DEF Launched
    <3>2. /\ notice' \in [Launches -> Stations]
          /\ \A k \in Launches : notice'[k] = notice[k] \/ NoticeOK(k)'
      BY <1>0, <2>1, <2>3, <3>1, Moved
    <3>3. IngestionTyped'
      BY <1>0, <2>1, <2>3, <3>2 DEF IngestionTyped, IngestionTypeOK
    <3> QED BY <2>1, <3>1, <3>2, <3>3, IngestionKept
  <2> QED BY <1>3, <2>2, <2>3 DEF NormalizeAndEmit
<1>4. CASE EmitRow(l)
  <2>1. /\ events' = events /\ Launched' = Launched /\ gap' = gap /\ watermark' = watermark
        /\ slot' = slot /\ traffic' = traffic /\ backoff' = backoff /\ slips' \in 0..IngestFaults
    BY <1>0, <1>a, <1>4 DEF EmitRow, Slip, Launched, IngestionTypeOK
  <2>2. PICK to \in {"mark", "over"} : Move(l, to) /\ (to = "mark" => l \in marketData')
    BY <1>4 DEF EmitRow, InsertMarketData
  <2>3. marketData \subseteq marketData' /\ marketData' \subseteq Launched
    <3> l \in Launched
      BY <1>0, <1>4 DEF EmitRow, NoticeOK
    <3> QED BY <1>0, <1>4 DEF EmitRow, InsertMarketData, IngestionTypeOK, Launched
  <2>4. /\ notice' \in [Launches -> Stations]
        /\ \A k \in Launches : notice'[k] = notice[k] \/ NoticeOK(k)'
    BY <1>0, <2>1, <2>2, <2>3, Moved
  <2>5. IngestionTyped'
    BY <1>0, <2>1, <2>3, <2>4 DEF IngestionTyped, IngestionTypeOK, Launched
  <2> QED BY <2>1, <2>3, <2>4, <2>5, IngestionKept
<1>5. CASE EmitWatermark(l)
  <2>1. /\ events' = events /\ Launched' = Launched /\ gap' = gap /\ marketData' = marketData
        /\ slot' = slot /\ traffic' = traffic /\ backoff' = backoff /\ slips' \in 0..IngestFaults
        /\ Move(l, "over")
    BY <1>0, <1>a, <1>5 DEF EmitWatermark, Slip, Launched, IngestionTypeOK
  <2>2. /\ notice' \in [Launches -> Stations]
        /\ \A k \in Launches : notice'[k] = notice[k] \/ NoticeOK(k)'
    BY <1>0, <2>1, Moved
  <2>3. l \in marketData
    BY <1>0, <1>5 DEF EmitWatermark, NoticeOK
  <2>4. /\ watermark' \in [Families -> 0..MaxSlot]
        /\ watermark' = watermark \/ WatermarkHasData'
    <3>1. CASE watermark' = watermark
      BY <1>0, <3>1 DEF IngestionTypeOK
    <3>2. CASE UpsertSolanaIngestionWatermark(l)
      BY <2>1, <2>3, <3>2, WatermarkWritten
    <3> QED BY <1>5, <3>1, <3>2 DEF EmitWatermark
  <2>5. IngestionTyped'
    BY <1>0, <2>1, <2>2, <2>4 DEF IngestionTyped, IngestionTypeOK
  <2> QED BY <2>1, <2>2, <2>4, <2>5, IngestionKept
<1> QED BY <1>1, <1>2, <1>3, <1>4, <1>5 DEF LiveStep

\* What the recovery lists are launches of the family.
LEMMA SignaturesOfFamily ==
  ASSUME NEW f
  PROVE  GetSignatures(f) \in SUBSET {l \in Launches : FamilyOf(l) = f}
BY DEF GetSignatures, Recent, OnChain

LEMMA GapStepOK ==
  ASSUME IngestionInv, NEW f \in Families, GapStep(f)
  PROVE  IngestionInv'
<1> USE DEF tables
<1>0. IngestionTypeOK /\ IngestionTyped
  BY DEF IngestionInv, IngestionTyped
<1>a. slips < IngestFaults => slips + 1 \in 0..IngestFaults
  BY <1>0, BoundTypes, Counted DEF IngestionTypeOK
<1>1. CASE GapTick(f)
  <2>1. /\ events' = events /\ Launched' = Launched /\ marketData' = marketData
        /\ notice' = notice /\ watermark' = watermark /\ slot' = slot /\ traffic' = traffic
        /\ backoff' = backoff /\ slips' = slips
    BY <1>1 DEF GapTick, Launched
  <2> DEFINE todo == GetSignatures(f)
  <2>2. Round(f, "fetch", todo) /\ todo \in SUBSET {l \in Launches : FamilyOf(l) = f}
    BY <1>1, SignaturesOfFamily DEF GapTick
  <2> HIDE DEF todo
  <2>3. /\ gap' \in [Families -> [at : GapStations, todo : SUBSET Launches]]
        /\ \A g \in Families : gap'[g].at \in GapStations /\ gap'[g].todo \subseteq Launches
        /\ \A g \in Families : gap'[g] = gap[g] \/ GapOK(g)'
    BY <2>2, RoundGoesOn
  <2>4. IngestionTyped'
    BY <1>0, <2>1, <2>3 DEF IngestionTyped, IngestionTypeOK
  <2> QED BY <2>1, <2>3, <2>4, IngestionKept
<1> DEFINE l == Oldest(gap[f].todo)
           rest == gap[f].todo \ {l}
<1>2. ASSUME gap[f].at # "rest"
      PROVE  /\ l \in Launches
             /\ gap[f].todo \in SUBSET {k \in Launches : FamilyOf(k) = f}
             /\ rest \in SUBSET {k \in Launches : FamilyOf(k) = f}
  BY <1>2, RoundTypes
<1>3. CASE GapEmit(f)
  <2>1. /\ gap[f].at = "fetch" /\ marketData' = marketData /\ notice' = notice
        /\ watermark' = watermark /\ slot' = slot /\ traffic' = traffic /\ backoff' = backoff
    BY <1>3 DEF GapEmit
  <2>2. slips' \in 0..IngestFaults
    BY <1>0, <1>a, <1>3 DEF GapEmit, IngestionTypeOK
  <2>3. CASE InsertMarketEvent(l, Launch[l].creator) /\ Round(f, "row", gap[f].todo)
    <3>1. /\ \A e \in events' : e.launch \in Launches /\ e.creator \in {"wallet", "factory", ""}
          /\ Launched \subseteq Launched' /\ l \in Launched'
      <4>1. l \in Launches
        BY <1>2, <2>1
      <4>2. Launch[l].creator \in {"wallet", "factory", ""}
        BY <4>1, LaunchTypes
      <4>3. \A e \in events : e.launch \in Launches /\ e.creator \in {"wallet", "factory", ""}
        BY <1>0 DEF IngestionTypeOK
      <4> HIDE DEF l
      <4> QED BY <2>3, <4>1, <4>2, <4>3, EventInserted
    <3>2. /\ gap' \in [Families -> [at : GapStations, todo : SUBSET Launches]]
          /\ \A g \in Families : gap'[g].at \in GapStations /\ gap'[g].todo \subseteq Launches
          /\ \A g \in Families : gap'[g] = gap[g] \/ GapOK(g)'
      BY <1>2, <2>1, <2>3, <3>1, RoundGoesOn
    <3>3. IngestionTyped'
      <4> HIDE DEF l
      <4> QED BY <1>0, <2>1, <2>2, <3>1, <3>2 DEF IngestionTyped, IngestionTypeOK, Launched
    <3> QED BY <2>1, <3>1, <3>2, <3>3, IngestionKept
  <2>4. CASE Round(f, "fetch", rest) /\ UNCHANGED events
    <3>1. events' = events /\ Launched' = Launched
      BY <2>4 DEF Launched
    <3>2. /\ gap' \in [Families -> [at : GapStations, todo : SUBSET Launches]]
          /\ \A g \in Families : gap'[g].at \in GapStations /\ gap'[g].todo \subseteq Launches
          /\ \A g \in Families : gap'[g] = gap[g] \/ GapOK(g)'
      <4> HIDE DEF rest
      <4> QED BY <1>2, <2>1, <2>4, RoundGoesOn
    <3>3. IngestionTyped'
      BY <1>0, <2>1, <2>2, <3>1, <3>2 DEF IngestionTyped, IngestionTypeOK
    <3> QED BY <2>1, <3>1, <3>2, <3>3, IngestionKept
  <2> QED BY <1>3, <2>3, <2>4 DEF GapEmit
<1>4. CASE GapRow(f)
  <2>1. /\ gap[f].at = "row" /\ events' = events /\ Launched' = Launched /\ notice' = notice
        /\ watermark' = watermark /\ slot' = slot /\ traffic' = traffic /\ backoff' = backoff
    BY <1>4 DEF GapRow, Launched
  <2>2. slips' \in 0..IngestFaults
    BY <1>0, <1>a, <1>4 DEF GapRow, Slip, IngestionTypeOK
  <2>3. l \in Launched
    <3> GapOK(f)
      BY DEF IngestionInv
    <3> QED BY <2>1 DEF GapOK
  <2>4. /\ marketData \subseteq marketData' /\ marketData' \subseteq Launched
        /\ InsertMarketData(l) => l \in marketData'
    BY <1>0, <1>4, <2>3 DEF GapRow, InsertMarketData, IngestionTypeOK, Launched
  <2>5. PICK at \in {"fetch", "mark"}, todo \in {gap[f].todo, rest} :
          /\ Round(f, at, todo)
          /\ at = "mark" => InsertMarketData(l) /\ todo = gap[f].todo
    BY <1>4 DEF GapRow
  <2>6. todo \in SUBSET {k \in Launches : FamilyOf(k) = f} /\ at \in {"fetch", "row", "mark"}
    BY <1>2, <2>1, <2>5
  <2>7. at = "mark" => Oldest(todo) \in marketData'
    BY <2>4, <2>5
  <2>8. /\ gap' \in [Families -> [at : GapStations, todo : SUBSET Launches]]
        /\ \A g \in Families : gap'[g].at \in GapStations /\ gap'[g].todo \subseteq Launches
        /\ \A g \in Families : gap'[g] = gap[g] \/ GapOK(g)'
    <3> at # "row"
      BY <2>5
    <3> QED BY <2>5, <2>6, <2>7, RoundGoesOn
  <2>9. IngestionTyped'
    BY <1>0, <2>1, <2>2, <2>4, <2>8 DEF IngestionTyped, IngestionTypeOK, Launched
  <2> QED BY <2>1, <2>4, <2>8, <2>9, IngestionKept
<1>5. CASE GapWatermark(f)
  <2>1. /\ gap[f].at = "mark" /\ events' = events /\ Launched' = Launched /\ notice' = notice
        /\ marketData' = marketData /\ slot' = slot /\ traffic' = traffic /\ backoff' = backoff
        /\ Round(f, "fetch", rest)
    BY <1>5 DEF GapWatermark, Launched
  <2>2. slips' \in 0..IngestFaults
    BY <1>0, <1>a, <1>5 DEF GapWatermark, Slip, IngestionTypeOK
  <2>3. l \in marketData /\ l \in Launches
    <3> GapOK(f)
      BY DEF IngestionInv
    <3> QED BY <1>2, <2>1 DEF GapOK
  <2>4. /\ watermark' \in [Families -> 0..MaxSlot]
        /\ watermark' = watermark \/ WatermarkHasData'
    <3>1. CASE watermark' = watermark
      BY <1>0, <3>1 DEF IngestionTypeOK
    <3>2. CASE UpsertSolanaIngestionWatermark(l)
      <4> HIDE DEF l
      <4> QED BY <2>1, <2>3, <3>2, WatermarkWritten
    <3> QED BY <1>5, <3>1, <3>2 DEF GapWatermark
  <2>5. /\ gap' \in [Families -> [at : GapStations, todo : SUBSET Launches]]
        /\ \A g \in Families : gap'[g].at \in GapStations /\ gap'[g].todo \subseteq Launches
        /\ \A g \in Families : gap'[g] = gap[g] \/ GapOK(g)'
    <3> rest \in SUBSET {k \in Launches : FamilyOf(k) = f}
      BY <1>2, <2>1
    <3> HIDE DEF rest
    <3> QED BY <2>1, RoundGoesOn
  <2>6. IngestionTyped'
    BY <1>0, <2>1, <2>2, <2>4, <2>5 DEF IngestionTyped, IngestionTypeOK
  <2> QED BY <2>1, <2>4, <2>5, <2>6, IngestionKept
<1> QED BY <1>1, <1>3, <1>4, <1>5 DEF GapStep

LEMMA IngestionStep == IngestionInv /\ [IngestionNext]_ingestionVars => IngestionInv'
<1> SUFFICES ASSUME IngestionInv, [IngestionNext]_ingestionVars PROVE IngestionInv'
  OBVIOUS
<1> USE DEF tables
<1>0. IngestionTypeOK /\ IngestionTyped
  BY DEF IngestionInv, IngestionTyped
<1>1. CASE NextSlot
  <2>1. /\ events' = events /\ Launched' = Launched /\ marketData' = marketData
        /\ gap' = gap /\ watermark' = watermark /\ backoff' = backoff /\ slips' = slips
    BY <1>1 DEF NextSlot, Launched
  <2>2. slot' \in 0..MaxSlot
    <3>1. slot < MaxSlot /\ slot' = slot + 1 /\ slot \in 0..MaxSlot /\ MaxSlot \in Nat
      BY <1>0, <1>1, BoundTypes DEF NextSlot, IngestionTypeOK
    <3> QED BY <3>1, Counted
  <2>3. /\ notice' \in [Launches -> Stations]
        /\ \A l \in Launches : notice'[l] = notice[l] \/ notice'[l] \in {"over", "waiting"}
    BY <1>0, <1>1 DEF NextSlot, IngestionTypeOK, Stations
  <2>a. traffic' \in [Launches -> 0..GapBatch]
    <3>1. PICK n \in [Webhooks -> 0..MaxTraffic] :
            traffic' = [l \in Launches |->
              IF FamilyOf(l) \in Webhooks /\ Launch[l].slot <= slot'
              THEN InBatch(traffic[l] + n[FamilyOf(l)]) ELSE traffic[l]]
      BY <1>1 DEF NextSlot
    <3>2. ASSUME NEW l \in Launches, FamilyOf(l) \in Webhooks
          PROVE  InBatch(traffic[l] + n[FamilyOf(l)]) \in 0..GapBatch
      <4>1. traffic[l] \in 0..GapBatch /\ n[FamilyOf(l)] \in 0..MaxTraffic
        BY <1>0, <3>2 DEF IngestionTypeOK
      <4>2. GapBatch \in Nat /\ MaxTraffic \in Nat
        BY BoundTypes
      <4> QED BY <4>1, <4>2 DEF InBatch
    <3>3. \A l \in Launches : traffic[l] \in 0..GapBatch
      BY <1>0 DEF IngestionTypeOK
    <3> QED BY <3>1, <3>2, <3>3
  <2>4. IngestionTyped'
    BY <1>0, <2>1, <2>2, <2>3, <2>a DEF IngestionTyped, IngestionTypeOK
  <2>5. \A l \in Launches : notice'[l] = notice[l] \/ NoticeOK(l)'
    BY <2>3 DEF NoticeOK
  <2> QED BY <2>1, <2>4, <2>5, IngestionKept
<1>2. CASE BackoffEnds
  <2>1. /\ events' = events /\ Launched' = Launched /\ marketData' = marketData /\ slot' = slot /\ traffic' = traffic
        /\ gap' = gap /\ watermark' = watermark /\ notice' = notice /\ slips' = slips
        /\ backoff' \in BOOLEAN
    BY <1>2 DEF BackoffEnds, Launched
  <2>2. IngestionTyped'
    BY <1>0, <2>1 DEF IngestionTyped, IngestionTypeOK
  <2> QED BY <2>1, <2>2, IngestionKept
<1>3. CASE IngestionStops
  <2>1. /\ events' = events /\ Launched' = Launched /\ marketData' = marketData /\ slot' = slot /\ traffic' = traffic
        /\ watermark' = watermark /\ backoff' \in BOOLEAN /\ slips < IngestFaults
        /\ slips' = slips + 1
    BY <1>3 DEF IngestionStops, Slip, Launched
  <2>a. slips' \in 0..IngestFaults
    BY <1>0, <2>1, BoundTypes, Counted DEF IngestionTypeOK
  <2>2. /\ notice' \in [Launches -> Stations]
        /\ \A l \in Launches : notice'[l] \in {"ahead", "over"}
    BY <1>3 DEF IngestionStops, Stations
  <2>3. /\ gap' \in [Families -> [at : GapStations, todo : SUBSET Launches]]
        /\ \A f \in Families : gap'[f] = NoGap
    BY <1>3 DEF IngestionStops, NoGap, GapStations
  <2>4. \A f \in Families : GapOK(f)'
    BY <2>3 DEF GapOK, NoGap, GapStations
  <2>5. \A l \in Launches : NoticeOK(l)'
    BY <2>2 DEF NoticeOK
  <2>6. \A f \in Families : gap'[f].at \in GapStations /\ gap'[f].todo \subseteq Launches
    BY <2>3 DEF NoGap, GapStations
  <2>7. IngestionTyped'
    BY <1>0, <2>1, <2>a, <2>2, <2>3, <2>6 DEF IngestionTyped, IngestionTypeOK
  <2> QED BY <2>1, <2>4, <2>5, <2>7, IngestionKept
<1>4. CASE UNCHANGED ingestionVars
  <2>1. /\ events' = events /\ Launched' = Launched /\ marketData' = marketData /\ slot' = slot /\ traffic' = traffic
        /\ gap' = gap /\ watermark' = watermark /\ notice' = notice /\ slips' = slips
        /\ backoff' = backoff
    BY <1>4 DEF ingestionVars, Launched
  <2>2. IngestionTyped'
    BY <1>0, <2>1 DEF IngestionTyped, IngestionTypeOK
  <2> QED BY <2>1, <2>2, IngestionKept
<1> QED BY <1>1, <1>2, <1>3, <1>4, LiveStepOK, GapStepOK DEF IngestionNext

\* Every variable of the ingestion has its type, for every set of launches and
\* families, whatever their routes.
THEOREM IngestionTypeCorrect == IngestionSpec => []IngestionTypeOK
<1>1. IngestionInv => IngestionTypeOK
  BY DEF IngestionInv
<1> QED BY <1>1, IngestionInitOK, IngestionStep, PTL DEF IngestionSpec

\* The watermark a gap is measured from (solana_ingestion_watermark) names a
\* launch that has its row of market data, whatever stops between the event,
\* the row and the watermark, and whichever of the live path and the recovery
\* wrote it.
THEOREM WatermarkNamesData == IngestionSpec => []WatermarkHasData
<1>1. IngestionInv => WatermarkHasData
  BY DEF IngestionInv
<1> QED BY <1>1, IngestionInitOK, IngestionStep, PTL DEF IngestionSpec

-------------------------------------------------------------------------------
(* Market. *)

Fields == {"topic", "address", "uri", "reserves", "liquidity", "age", "supply", "launches",
           "social", "dist", "authorities", "narrative", "described"}

DistOK(d) == d.count \in 0..200 /\ d.share \in 0..100

\* What no probe of a Solana token finds is as ingestion left it.
Rest(f) ==
  /\ {"sim", "lock", "privileges", "wash", "churn", "provider", "tax", "external"} \subseteq DOMAIN f
  /\ f.sim = Unknown /\ f.lock = Unknown /\ f.privileges = Unknown /\ f.wash = Unknown
  /\ f.churn = 0 /\ f.provider = 0 /\ f.tax = 0 /\ f.external = {}
  /\ f.age \in Nat
  /\ Known(f.liquidity) => f.liquidity \in Nat

\* What a pass knows is typed, and no better than the truth.
FactsOK(f) ==
  /\ Rest(f)
  /\ Fields \subseteq DOMAIN f
  /\ Bool(f.social) /\ f.uri \in BOOLEAN
  /\ Known(f.social) /\ f.social = TRUE => truth.links = TRUE \/ truth.listedLinks = TRUE
  /\ Known(f.supply) => f.supply = truth.supply
  /\ Known(f.launches) => f.launches \in Nat
  /\ Known(f.dist) => DistOK(f.dist)

RowOK(r) ==
  /\ Known(r.columns.dist) => DistOK(r.columns.dist)
  /\ Known(r.columns.liquidity) => r.columns.liquidity \in Nat

RowsOK == \E S : rows \in Seq(S) /\ \A r \in S : RowOK(r)

MarketInv ==
  /\ truth \in Truths /\ step \in BatchAt..Idle /\ passes \in 0..MaxPasses
  /\ transport \in {"fresh", "retry"} \union Rescans
  /\ skip \subseteq Range(Order)
  /\ IF step = Idle THEN facts = Nothing ELSE FactsOK(facts)
  /\ payload # Nothing => FactsOK(payload)
  /\ holderCache # Nothing => DistOK(holderCache)
  /\ RowsOK

LEMMA Stages ==
  /\ Range(Order) = {"das", "authorities", "lp", "holders", "metadata", "creator", "narrative"}
  /\ DOMAIN Order = 1..7 /\ DoneAt = 8 /\ GateAt = 9 /\ Idle = 10 /\ BatchAt = 0
  /\ \A i \in 1..7 : Order[i] \in Range(Order)
<1>1. DOMAIN Order = 1..7 /\ Len(Order) = 7
  BY DEF Order
<1>2. Range(Order) = {Order[i] : i \in 1..7}
  BY <1>1 DEF Range
<1>3. /\ Order[1] = "das" /\ Order[2] = "authorities" /\ Order[3] = "lp" /\ Order[4] = "holders"
      /\ Order[5] = "metadata" /\ Order[6] = "creator" /\ Order[7] = "narrative"
  BY DEF Order
<1>4. Range(Order) = {"das", "authorities", "lp", "holders", "metadata", "creator", "narrative"}
  <2>1. \A i \in 1..7 : i = 1 \/ i = 2 \/ i = 3 \/ i = 4 \/ i = 5 \/ i = 6 \/ i = 7
    OBVIOUS
  <2> QED BY <1>2, <1>3, <2>1
<1> QED BY <1>1, <1>2, <1>4 DEF DoneAt, GateAt, Idle, BatchAt

LEMMA TruthTypes ==
  ASSUME truth \in Truths
  PROVE  /\ truth.links \in BOOLEAN /\ truth.listedLinks \in BOOLEAN /\ truth.uri \in BOOLEAN
         /\ truth.launches \in Nat /\ truth.holders \in Nat /\ truth.supply \in Nat
         /\ truth.liquidity \in Nat /\ truth.share \in 0..100 /\ truth.listedShare \in 0..100
BY MarketAssumption

\* A launch brings no fact that a probe would have to find.
LEMMA IngestedOK ==
  ASSUME truth \in Truths, NEW f \in Ingested
  PROVE  FactsOK(f)
<1>1. Rest(f)
  BY TruthTypes DEF Ingested, Rest, Known
<1> QED BY <1>1, TruthTypes DEF Ingested, FactsOK, Fields, Bool, Known

LEMMA DasOK ==
  ASSUME truth \in Truths, NEW f, FactsOK(f), NEW g \in Das(f)
  PROVE  FactsOK(g)
<1>1. CASE g = f
  BY <1>1
<1>2. CASE g = [f EXCEPT !.supply = IF Known(@) THEN @ ELSE truth.supply,
                         !.social = IF Known(@) THEN @ ELSE truth.listedLinks]
  <2>1. /\ DOMAIN g = DOMAIN f /\ g.uri = f.uri /\ g.launches = f.launches /\ g.dist = f.dist
        /\ g.supply = IF Known(f.supply) THEN f.supply ELSE truth.supply
        /\ g.social = IF Known(f.social) THEN f.social ELSE truth.listedLinks
    BY <1>2 DEF FactsOK, Fields
  <2>2. Rest(g)
    BY <1>2, TruthTypes DEF FactsOK, Rest, Known
  <2> QED BY <2>1, TruthTypes, <2>2 DEF FactsOK, Bool, Known
<1> QED BY <1>1, <1>2 DEF Das

LEMMA AuthoritiesOK ==
  ASSUME truth \in Truths, NEW f, FactsOK(f), NEW g \in Authorities(f)
  PROVE  FactsOK(g)
<1>1. CASE g = [f EXCEPT !.authorities = truth.authorities]
  <2>1. /\ DOMAIN g = DOMAIN f /\ g.uri = f.uri /\ g.launches = f.launches /\ g.dist = f.dist
        /\ g.supply = f.supply /\ g.social = f.social
    BY <1>1 DEF FactsOK, Fields
  <2>2. Rest(g)
    BY <1>1, TruthTypes DEF FactsOK, Rest, Known
  <2> QED BY <2>1, <2>2 DEF FactsOK, Bool, Known
<1> QED BY <1>1 DEF Authorities

LEMMA PumpfunLpOK ==
  ASSUME truth \in Truths, NEW f, FactsOK(f), NEW g \in PumpfunLp(f)
  PROVE  FactsOK(g)
<1> DEFINE supplied == [f EXCEPT !.supply = IF OnAmm \/ ~ Known(@) THEN truth.supply ELSE @]
           priced == [supplied EXCEPT !.liquidity = IF OnAmm /\ Known(@) THEN @ ELSE truth.liquidity]
<1>1. /\ DOMAIN supplied = DOMAIN f /\ supplied.uri = f.uri /\ supplied.launches = f.launches
      /\ supplied.dist = f.dist /\ supplied.social = f.social
      /\ supplied.supply = f.supply \/ supplied.supply = truth.supply
  BY DEF FactsOK, Fields
<1>a. Rest(supplied)
  BY TruthTypes DEF FactsOK, Rest, Known
<1>2. FactsOK(supplied)
  <2> HIDE DEF supplied
  <2> QED BY <1>1, <1>a DEF FactsOK, Bool, Known
<1>3. FactsOK(priced)
  <2> HIDE DEF supplied
  <2>1. /\ DOMAIN priced = DOMAIN supplied /\ priced.uri = supplied.uri
        /\ priced.launches = supplied.launches /\ priced.dist = supplied.dist
        /\ priced.social = supplied.social /\ priced.supply = supplied.supply
    BY <1>2 DEF FactsOK, Fields
  <2>2. Rest(priced)
    BY <1>2, TruthTypes DEF FactsOK, Rest, Known
  <2> HIDE DEF priced
  <2> QED BY <1>2, <2>1, <2>2 DEF FactsOK, Bool, Known
<1>4. g \in {f, supplied, priced}
  BY DEF PumpfunLp
<1> HIDE DEF supplied, priced
<1> QED BY <1>2, <1>3, <1>4

\* A share is at most a hundred percent of the supply.
LEMMA HoldersFound ==
  ASSUME truth \in Truths, NEW f, FactsOK(f), NEW g \in HolderDist(f),
         holderCache # Nothing => DistOK(holderCache)
  PROVE  FactsOK(g) /\ (g # f => DistOK(g.dist))
<1>1. ASSUME NEW d, DistOK(d), g = [f EXCEPT !.dist = d]
      PROVE  FactsOK(g) /\ DistOK(g.dist)
  <2>1. /\ DOMAIN g = DOMAIN f /\ g.uri = f.uri /\ g.launches = f.launches /\ g.dist = d
        /\ g.supply = f.supply /\ g.social = f.social
    BY <1>1 DEF FactsOK, Fields
  <2>2. Rest(g)
    BY <1>1, TruthTypes DEF FactsOK, Rest, Known
  <2> QED BY <1>1, <2>1, <2>2 DEF FactsOK, Bool, Known
<1>2. CASE holderCache # Nothing
  BY <1>1, <1>2 DEF HolderDist
<1>3. CASE holderCache = Nothing
  <2>1. ASSUME NEW most \in {20, 200}, NEW listed \in BOOLEAN
        PROVE  DistOK([count |-> Least(truth.holders, most), share |-> HolderShare(f, listed)])
    <3>1. Least(truth.holders, most) \in 0..200
      BY TruthTypes DEF Least
    <3>2. HolderShare(f, listed) \in 0..100
      BY TruthTypes DEF HolderShare
    <3> QED BY <3>1, <3>2 DEF DistOK
  <2>2. \/ g = f
        \/ g = [f EXCEPT !.dist = [count |-> Least(truth.holders, 20), share |-> HolderShare(f, TRUE)]]
        \/ g = [f EXCEPT !.dist = [count |-> Least(truth.holders, 200), share |-> HolderShare(f, FALSE)]]
    BY <1>3 DEF HolderDist
  <2>3. /\ DistOK([count |-> Least(truth.holders, 20), share |-> HolderShare(f, TRUE)])
        /\ DistOK([count |-> Least(truth.holders, 200), share |-> HolderShare(f, FALSE)])
    BY <2>1
  <2> QED BY <1>1, <2>2, <2>3
<1> QED BY <1>2, <1>3

LEMMA SolanaMetadataOK ==
  ASSUME truth \in Truths, NEW f, FactsOK(f), NEW g \in SolanaMetadata(f)
  PROVE  FactsOK(g)
<1>1. CASE g = [f EXCEPT !.social = truth.links, !.described = truth.described]
  <2>1. /\ DOMAIN g = DOMAIN f /\ g.uri = f.uri /\ g.launches = f.launches /\ g.dist = f.dist
        /\ g.supply = f.supply /\ g.social = truth.links
    BY <1>1 DEF FactsOK, Fields
  <2>2. Rest(g)
    BY <1>1, TruthTypes DEF FactsOK, Rest, Known
  <2> QED BY <2>1, TruthTypes, <2>2 DEF FactsOK, Bool, Known
<1>2. CASE g = [f EXCEPT !.social = FALSE]
  <2>1. /\ DOMAIN g = DOMAIN f /\ g.uri = f.uri /\ g.launches = f.launches /\ g.dist = f.dist
        /\ g.supply = f.supply /\ g.social = FALSE
    BY <1>2 DEF FactsOK, Fields
  <2>2. Rest(g)
    BY <1>2, TruthTypes DEF FactsOK, Rest, Known
  <2> QED BY <2>1, <2>2 DEF FactsOK, Bool, Known
<1> QED BY <1>1, <1>2 DEF SolanaMetadata

\* The list of a creator lags by the token itself at most.
LEMMA CreatorReputationOK ==
  ASSUME truth \in Truths, NEW f, FactsOK(f), NEW g \in CreatorReputation(f)
  PROVE  FactsOK(g)
<1>1. ASSUME NEW n \in ListedLaunches, g = [f EXCEPT !.launches = IF n > 0 THEN n - 1 ELSE 0]
      PROVE  FactsOK(g)
  <2>1. /\ DOMAIN g = DOMAIN f /\ g.uri = f.uri /\ g.dist = f.dist
        /\ g.launches = (IF n > 0 THEN n - 1 ELSE 0)
        /\ g.supply = f.supply /\ g.social = f.social
    BY <1>1 DEF FactsOK, Fields
  <2>3. Rest(g)
    BY <1>1, TruthTypes DEF FactsOK, Rest, Known
  <2>2. g.launches \in Nat
    BY <2>1, TruthTypes DEF ListedLaunches
  <2> QED BY <2>1, <2>2, <2>3 DEF FactsOK, Bool, Known
<1> QED BY <1>1 DEF CreatorReputation

LEMMA AiNarrativeOK ==
  ASSUME truth \in Truths, NEW f, FactsOK(f), NEW g \in AiNarrative(f)
  PROVE  FactsOK(g)
<1>1. ASSUME NEW n, g = [f EXCEPT !.narrative = n] PROVE FactsOK(g)
  <2>1. /\ DOMAIN g = DOMAIN f /\ g.uri = f.uri /\ g.launches = f.launches /\ g.dist = f.dist
        /\ g.supply = f.supply /\ g.social = f.social
    BY <1>1 DEF FactsOK, Fields
  <2>2. Rest(g)
    BY <1>1, TruthTypes DEF FactsOK, Rest, Known
  <2> QED BY <2>1, <2>2 DEF FactsOK, Bool, Known
<1>2. g = f \/ g = [f EXCEPT !.narrative = Neutral] \/ g = [f EXCEPT !.narrative = truth.narrative]
  BY DEF AiNarrative
<1> QED BY <1>1, <1>2

LEMMA AnswersOK ==
  ASSUME truth \in Truths, NEW f, FactsOK(f), NEW p \in Range(Order), NEW g \in Answers(p, f),
         holderCache # Nothing => DistOK(holderCache)
  PROVE  FactsOK(g)
<1>1. CASE p = "das"
  BY <1>1, DasOK DEF Answers
<1>2. CASE p = "authorities"
  BY <1>2, AuthoritiesOK DEF Answers
<1>3. CASE p = "lp"
  BY <1>3, PumpfunLpOK DEF Answers
<1>4. CASE p = "holders"
  <2> g \in HolderDist(f)
    BY <1>4 DEF Answers
  <2> QED BY HoldersFound
<1>5. CASE p = "metadata"
  BY <1>5, SolanaMetadataOK DEF Answers
<1>6. CASE p = "creator"
  BY <1>6, CreatorReputationOK DEF Answers
<1>7. CASE p = "narrative"
  BY <1>7, AiNarrativeOK DEF Answers
<1> QED BY <1>1, <1>2, <1>3, <1>4, <1>5, <1>6, <1>7, Stages

LEMMA ApplyBatchOK ==
  ASSUME truth \in Truths, NEW f, FactsOK(f), NEW got
  PROVE  FactsOK(ApplyBatch(f, got))
<1> DEFINE mint == IF "mint" \notin got THEN f
                   ELSE [f EXCEPT !.authorities = truth.authorities,
                                  !.supply = IF OnAmm /\ ~ Known(@) THEN truth.supply ELSE @]
           pool == [mint EXCEPT !.liquidity = truth.liquidity,
                                !.supply = IF Known(@) THEN @ ELSE truth.supply]
<1>1. FactsOK(mint)
  <2>1. CASE "mint" \notin got
    BY <2>1
  <2>2. CASE "mint" \in got
    <3>1. /\ DOMAIN mint = DOMAIN f /\ mint.uri = f.uri /\ mint.launches = f.launches
          /\ mint.dist = f.dist /\ mint.social = f.social
          /\ mint.supply = f.supply \/ mint.supply = truth.supply
      BY <2>2 DEF FactsOK, Fields
    <3>2. Rest(mint)
      BY <2>2, TruthTypes DEF FactsOK, Rest, Known
    <3> HIDE DEF mint
    <3> QED BY <3>1, <3>2 DEF FactsOK, Bool, Known
  <2> QED BY <2>1, <2>2
<1> HIDE DEF mint
<1>2. FactsOK(pool)
  <2>1. /\ DOMAIN pool = DOMAIN mint /\ pool.uri = mint.uri /\ pool.launches = mint.launches
        /\ pool.dist = mint.dist /\ pool.social = mint.social
        /\ pool.supply = mint.supply \/ pool.supply = truth.supply
    BY <1>1 DEF FactsOK, Fields
  <2>2. Rest(pool)
    BY <1>1, TruthTypes DEF FactsOK, Rest, Known
  <2> HIDE DEF pool
  <2> QED BY <1>1, <2>1, <2>2 DEF FactsOK, Bool, Known
<1>3. ApplyBatch(f, got) = IF "pool" \notin got THEN mint ELSE pool
  BY DEF ApplyBatch, mint
<1> HIDE DEF pool
<1> QED BY <1>1, <1>2, <1>3

\* A nonempty sequence of rows has a latest one.
LEMMA LatestRowExists ==
  ASSUME NEW S, rows \in Seq(S), rows # <<>>
  PROVE  LatestRow \in S
<1>1. Len(rows) \in Nat \ {0} /\ DOMAIN rows = 1..Len(rows) /\ \A i \in DOMAIN rows : rows[i] \in S
  BY EmptySeq, LenProperties, ElementOfSeq
<1>2. \A i \in DOMAIN rows : Richness(rows[i]) \in 0..7
  BY DEF Richness
<1> DEFINE T == {7 - Richness(rows[i]) : i \in DOMAIN rows}
<1>3. PICK x \in T : \A y \in T : x <= y
  <2>1. T \subseteq Nat
    BY <1>2
  <2>2. 7 - Richness(rows[1]) \in T
    <3> 1 \in DOMAIN rows
      BY <1>1
    <3> QED OBVIOUS
  <2> HIDE DEF T
  <2> QED BY <2>1, <2>2, LeastNatural
<1>4. PICK i \in DOMAIN rows : x = 7 - Richness(rows[i])
  BY <1>3
<1>5. \A k \in DOMAIN rows : Richness(rows[k]) <= Richness(rows[i])
  <2> TAKE k \in DOMAIN rows
  <2>1. 7 - Richness(rows[k]) \in T
    OBVIOUS
  <2>2. x <= 7 - Richness(rows[k])
    BY <1>3, <2>1
  <2>3. Richness(rows[i]) \in 0..7 /\ Richness(rows[k]) \in 0..7
    BY <1>2
  <2> HIDE DEF T
  <2> QED BY <1>4, <2>2, <2>3
<1> DEFINE L == {Len(rows) - k : k \in {m \in DOMAIN rows : Richness(rows[m]) = Richness(rows[i])}}
<1>6. PICK z \in L : \A y \in L : z <= y
  <2>1. L \subseteq Nat
    BY <1>1
  <2>2. L # {}
    BY <1>4
  <2> HIDE DEF L
  <2> QED BY <2>1, <2>2, LeastNatural
<1>7. PICK j \in DOMAIN rows : Richness(rows[j]) = Richness(rows[i]) /\ z = Len(rows) - j
  BY <1>6
<1>8. \A k \in DOMAIN rows : Richness(rows[k]) < Richness(rows[j]) \/ (Richness(rows[k]) = Richness(rows[j]) /\ k <= j)
  <2> TAKE k \in DOMAIN rows
  <2>1. Richness(rows[k]) <= Richness(rows[j]) /\ Richness(rows[k]) \in 0..7 /\ Richness(rows[j]) \in 0..7
    BY <1>2, <1>5, <1>7
  <2>2. CASE Richness(rows[k]) = Richness(rows[j])
    <3> Len(rows) - k \in L
      BY <1>7, <2>2
    <3> HIDE DEF L
    <3>1. z <= Len(rows) - k
      BY <1>6
    <3> QED BY <1>1, <1>7, <2>2, <3>1
  <2> QED BY <2>1, <2>2
<1> DEFINE best == {rows[n] : n \in {m \in DOMAIN rows : \A k \in DOMAIN rows :
                      \/ Richness(rows[k]) < Richness(rows[m])
                      \/ Richness(rows[k]) = Richness(rows[m]) /\ k <= m}}
<1>9. rows[j] \in best /\ best \subseteq S
  BY <1>1, <1>8
<1>10. LatestRow = CHOOSE r \in best : TRUE
  BY DEF LatestRow
<1> HIDE DEF best
<1> QED BY <1>9, <1>10

\* What a rescan starts from has no fact but the columns of the rows.
LEMMA HydratedOK ==
  ASSUME truth \in Truths, NEW f, FactsOK(f), RowsOK, rows # <<>>
  PROVE  FactsOK(HydrateFromLatest(f))
<1>1. PICK S : rows \in Seq(S) /\ \A r \in S : RowOK(r)
  BY DEF RowsOK
<1>2. rows[Len(rows)] \in S
  <2> Len(rows) \in Nat \ {0} /\ \A i \in 1..Len(rows) : rows[i] \in S
    BY <1>1, EmptySeq, LenProperties, ElementOfSeq
  <2> QED OBVIOUS
<1>3. LatestRow \in S
  BY <1>1, LatestRowExists
<1> DEFINE h == HydrateFromLatest(f)
<1>4. /\ DOMAIN h = DOMAIN f /\ h.uri = FALSE /\ h.launches = f.launches
      /\ h.supply = f.supply /\ h.social = f.social
      /\ h.dist = LatestRow.columns.dist \/ h.dist = rows[Len(rows)].columns.dist
  BY DEF HydrateFromLatest, FactsOK, Fields
<1>5. Known(h.dist) => DistOK(h.dist)
  <2>1. RowOK(LatestRow) /\ RowOK(rows[Len(rows)])
    BY <1>1, <1>2, <1>3
  <2>2. h.dist = LatestRow.columns.dist \/ h.dist = rows[Len(rows)].columns.dist
    BY <1>4
  <2> DEFINE d == h.dist
  <2> HIDE DEF h
  <2> QED BY <2>1, <2>2 DEF RowOK
<1>a. Rest(h)
  <2>1. /\ DOMAIN h = DOMAIN f /\ h.sim = f.sim /\ h.lock = f.lock /\ h.privileges = f.privileges
        /\ h.wash = f.wash /\ h.churn = f.churn /\ h.provider = f.provider /\ h.tax = f.tax
        /\ h.external = f.external /\ h.age = f.age
        /\ h.liquidity \in {LatestRow.columns.liquidity, rows[Len(rows)].columns.liquidity}
    BY DEF HydrateFromLatest, FactsOK, Fields, Rest
  <2>2. RowOK(LatestRow) /\ RowOK(rows[Len(rows)])
    BY <1>1, <1>2, <1>3
  <2> HIDE DEF h
  <2>3. Known(h.liquidity) => h.liquidity \in Nat
    BY <2>1, <2>2 DEF RowOK
  <2> QED BY <2>1, <2>3 DEF FactsOK, Rest
<1> HIDE DEF h
<1>6. h.uri \in BOOLEAN
  BY <1>4
<1>7. /\ DOMAIN h = DOMAIN f /\ h.launches = f.launches /\ h.supply = f.supply
      /\ h.social = f.social
  BY <1>4
<1>8. FactsOK(h)
  BY <1>5, <1>6, <1>7, <1>a DEF FactsOK
<1> QED BY <1>8 DEF h

LEMMA MarketKept ==
  ASSUME MarketInv, truth' = truth, step' \in BatchAt..Idle, passes' \in 0..MaxPasses,
         transport' \in {"fresh", "retry"} \union Rescans, skip' \subseteq Range(Order),
         IF step' = Idle THEN facts' = Nothing ELSE FactsOK(facts'),
         payload' # Nothing => FactsOK(payload'),
         holderCache' # Nothing => DistOK(holderCache'), RowsOK'
  PROVE  MarketInv'
<1>1. IF step' = Idle THEN facts' = Nothing ELSE FactsOK(facts)'
  BY DEF FactsOK, Bool, Known
<1>2. payload' # Nothing => FactsOK(payload)'
  BY DEF FactsOK, Bool, Known
<1>3. truth' \in Truths
  BY DEF MarketInv
<1> QED BY <1>1, <1>2, <1>3 DEF MarketInv, DistOK, Range

LEMMA MarketInitOK == MarketInit => MarketInv
<1> SUFFICES ASSUME MarketInit PROVE MarketInv
  OBVIOUS
<1>1. step = 10 /\ facts = Nothing /\ passes \in 0..MaxPasses
  BY Stages, MarketAssumption DEF MarketInit
<1>2. RowsOK
  <2>1. rows \in Seq({})
    BY EmptySeq DEF MarketInit
  <2> QED BY <2>1 DEF RowsOK
<1>3. step \in BatchAt..Idle /\ (step = Idle => facts = Nothing) /\ step = Idle
  BY <1>1, Stages
<1> QED BY <1>1, <1>2, <1>3 DEF MarketInit, MarketInv

\* A row that is appended holds a share that is one.
LEMMA RowAdded ==
  ASSUME RowsOK, NEW f, FactsOK(f), NEW t, rows' = Append(rows, Row(f, t))
  PROVE  RowsOK'
<1> DEFINE r == Row(f, t)
<1>1. PICK S : rows \in Seq(S) /\ \A x \in S : RowOK(x)
  BY DEF RowsOK
<1>2. RowOK(r)
  BY DEF RowOK, Row, Columns, FactsOK, Rest
<1> HIDE DEF r
<1>3. rows \in Seq(S \union {r})
  BY <1>1, SeqMonotonic
<1>4. rows' \in Seq(S \union {r})
  BY <1>3, AppendProperties DEF r
<1>5. \A x \in S \union {r} : RowOK(x)
  BY <1>1, <1>2
<1>6. \E R : rows' \in Seq(R) /\ \A x \in R : RowOK(x)
  BY <1>4, <1>5
<1> QED BY <1>6 DEF RowsOK, RowOK, DistOK, Known

LEMMA FirstPassOK == MarketInv /\ FirstPass => MarketInv'
<1> SUFFICES ASSUME MarketInv, FirstPass PROVE MarketInv'
  OBVIOUS
<1>1. PICK f \in Ingested : Begin("fresh", f) /\ rows' \in {<<>>, <<Row(f, "fresh")>>}
  BY DEF FirstPass
<1>2. FactsOK(f)
  BY IngestedOK DEF MarketInv
<1>3. RowsOK'
  <2> DEFINE r == Row(f, "fresh")
  <2>1. RowOK(r)
    BY <1>2 DEF RowOK, Row, Columns, FactsOK, Rest
  <2>2. rows' = <<>> \/ rows' = <<r>>
    BY <1>1
  <2> HIDE DEF r
  <2>a. <<r>> \in Seq({r})
    <3> <<r>> \in [1..1 -> {r}]
      OBVIOUS
    <3> QED BY SeqDef
  <2>3. rows' \in Seq({r})
    BY <2>2, <2>a, EmptySeq
  <2>4. \E R : rows' \in Seq(R) /\ \A x \in R : RowOK(x)
    BY <2>1, <2>3
  <2> QED BY <2>4 DEF RowsOK, RowOK, DistOK, Known
<1>4. /\ truth' = truth /\ transport' = "fresh" /\ facts' = f /\ step' = BatchAt /\ skip' = {}
      /\ passes' \in 0..MaxPasses /\ payload' = payload
      /\ holderCache' \in {holderCache, Nothing}
  BY <1>1, MarketAssumption DEF FirstPass, Begin, MarketInv
<1>5. step' \in BatchAt..Idle /\ step' # Idle
  BY <1>4, Stages
<1> QED BY <1>2, <1>3, <1>4, <1>5, MarketKept DEF MarketInv

LEMMA RetryPendingOK == MarketInv /\ RetryPending => MarketInv'
<1> SUFFICES ASSUME MarketInv, RetryPending PROVE MarketInv'
  OBVIOUS
<1>1. PICK f : f = [payload EXCEPT !.age = 3600] /\ Begin("retry", f) /\ rows' = Append(rows, Row(f, "retry"))
  BY DEF RetryPending
<1>2. FactsOK(f)
  <2>1. FactsOK(payload)
    BY DEF MarketInv, RetryPending
  <2>2. /\ DOMAIN f = DOMAIN payload /\ f.uri = payload.uri /\ f.launches = payload.launches
        /\ f.dist = payload.dist /\ f.supply = payload.supply /\ f.social = payload.social
    BY <1>1, <2>1 DEF FactsOK, Fields
  <2>3. Rest(f)
    BY <1>1, <2>1 DEF FactsOK, Rest, Known, Fields
  <2> QED BY <2>1, <2>2, <2>3 DEF FactsOK, Bool, Known
<1>3. RowsOK'
  BY <1>1, <1>2, RowAdded DEF MarketInv
<1>4. /\ truth' = truth /\ transport' = "retry" /\ facts' = f /\ step' = BatchAt /\ skip' = {}
      /\ passes' \in 0..MaxPasses /\ payload' = Nothing
      /\ holderCache' \in {holderCache, Nothing}
  BY <1>1, MarketAssumption DEF RetryPending, Begin, MarketInv
<1>5. step' \in BatchAt..Idle /\ step' # Idle
  BY <1>4, Stages
<1> QED BY <1>2, <1>3, <1>4, <1>5, MarketKept DEF MarketInv

LEMMA RescanOK == ASSUME MarketInv, NEW t \in Rescans, Rescan(t) PROVE MarketInv'
<1>0. PICK blank \in Ingested : \E f :
        /\ f = HydrateFromLatest(RescannedToken(blank, t))
        /\ Begin(t, f)
        /\ rows' = Append(rows, Row(f, t))
        /\ step' = IF MandatoryKnownMissing(f) = {} THEN DoneAt ELSE 1
        /\ skip' = (IF Known(f.authorities) THEN {"authorities"} ELSE {})
                     \union (IF ~ IsLate(t) /\ Known(f.dist) THEN {"holders"} ELSE {})
                     \union (IF IsLate(t) THEN {"lp"} ELSE {})
  BY DEF Rescan
<1>1. PICK f :
        /\ f = HydrateFromLatest(RescannedToken(blank, t))
        /\ Begin(t, f)
        /\ rows' = Append(rows, Row(f, t))
        /\ step' = IF MandatoryKnownMissing(f) = {} THEN DoneAt ELSE 1
        /\ skip' = (IF Known(f.authorities) THEN {"authorities"} ELSE {})
                     \union (IF ~ IsLate(t) /\ Known(f.dist) THEN {"holders"} ELSE {})
                     \union (IF IsLate(t) THEN {"lp"} ELSE {})
  BY <1>0
<1>a. skip' \subseteq {"authorities", "holders", "lp"}
  BY <1>1
<1>2. FactsOK(f)
  <2>1. FactsOK(blank)
    BY IngestedOK DEF MarketInv
  <2> DEFINE start == RescannedToken(blank, t)
  <2>2. /\ DOMAIN start = DOMAIN blank /\ start.uri = blank.uri /\ start.launches = blank.launches
        /\ start.dist = blank.dist /\ start.supply = blank.supply /\ start.social = blank.social
    BY <2>1 DEF FactsOK, Fields, RescannedToken
  <2>5. Rest(start)
    BY <2>1 DEF FactsOK, Rest, Fields, Known, RescannedToken
  <2>3. f = HydrateFromLatest(start) /\ rows # <<>>
    BY <1>1 DEF Rescan
  <2> HIDE DEF start
  <2>4. FactsOK(start)
    BY <2>1, <2>2, <2>5 DEF FactsOK, Bool, Known
  <2> QED BY <2>3, <2>4, HydratedOK DEF MarketInv
<1>3. RowsOK'
  BY <1>1, <1>2, RowAdded DEF MarketInv
<1>4. /\ truth' = truth /\ transport' = t /\ facts' = f /\ step' \in {1, 8}
      /\ passes' \in 0..MaxPasses /\ payload' \in {payload, Nothing}
      /\ holderCache' \in {holderCache, Nothing} /\ skip' \subseteq Range(Order)
  BY <1>1, <1>a, MarketAssumption, Stages DEF Rescan, Begin, MarketInv
<1>5. step' \in BatchAt..Idle /\ step' # Idle
  BY <1>4, Stages
<1> QED BY <1>2, <1>3, <1>4, <1>5, MarketKept DEF MarketInv

LEMMA DeferOK == MarketInv /\ Defer => MarketInv'
<1> SUFFICES ASSUME MarketInv, Defer PROVE MarketInv'
  OBVIOUS
<1>1. step # Idle /\ FactsOK(facts)
  BY Stages DEF MarketInv, Defer
<1>2. /\ truth' = truth /\ transport' = transport /\ facts' = Nothing /\ step' = Idle
      /\ passes' = passes /\ payload' \in {facts, Nothing} /\ rows' = rows
      /\ holderCache' = holderCache /\ skip' = skip
  BY DEF Defer, Kept
<1>3. RowsOK' /\ step' \in BatchAt..Idle
  BY <1>2, Stages DEF MarketInv, RowsOK, RowOK, DistOK, Known
<1> QED BY <1>1, <1>2, <1>3, MarketKept DEF MarketInv

LEMMA BatchFetchOK == MarketInv /\ BatchFetch => MarketInv'
<1> SUFFICES ASSUME MarketInv, BatchFetch PROVE MarketInv'
  OBVIOUS
<1>1. step # Idle /\ FactsOK(facts)
  BY Stages DEF MarketInv, BatchFetch
<1>2. PICK got : facts' = ApplyBatch(facts, got)
  BY DEF BatchFetch
<1>3. /\ truth' = truth /\ transport' = transport /\ step' = 1
      /\ passes' = passes /\ payload' = payload /\ rows' = rows
      /\ holderCache' = holderCache /\ skip' \subseteq {"authorities", "lp"}
  BY DEF BatchFetch
<1>4. RowsOK' /\ step' \in BatchAt..Idle /\ step' # Idle /\ skip' \subseteq Range(Order)
  BY <1>3, Stages DEF MarketInv, RowsOK, RowOK, DistOK, Known
<1>5. FactsOK(facts')
  BY <1>1, <1>2, ApplyBatchOK DEF MarketInv
<1> QED BY <1>3, <1>4, <1>5, MarketKept DEF MarketInv

LEMMA RunSingleProbeOK == MarketInv /\ RunSingleProbe => MarketInv'
<1> SUFFICES ASSUME MarketInv, RunSingleProbe PROVE MarketInv'
  OBVIOUS
<1>1. step \in 1..7 /\ step # Idle /\ FactsOK(facts)
  BY Stages DEF MarketInv, RunSingleProbe
<1> DEFINE p == Order[step]
<1>2. /\ p \in Range(Order)
      /\ facts' = facts \/ facts' \in Answers(p, facts)
      /\ holderCache' = holderCache
           \/ (facts' \in Answers("holders", facts) /\ facts' # facts /\ holderCache' = facts'.dist)
  BY <1>1, Stages DEF RunSingleProbe
<1>3. /\ truth' = truth /\ transport' = transport /\ step' = step + 1
      /\ passes' = passes /\ payload' = payload /\ rows' = rows /\ skip' = skip
  BY DEF RunSingleProbe
<1>4. RowsOK' /\ step' \in BatchAt..Idle /\ step' # Idle
  BY <1>1, <1>3, Stages DEF MarketInv, RowsOK, RowOK, DistOK, Known
<1> HIDE DEF p
<1>5. FactsOK(facts')
  BY <1>1, <1>2, AnswersOK DEF MarketInv
<1>6. holderCache' # Nothing => DistOK(holderCache')
  <2>1. Answers("holders", facts) = HolderDist(facts)
    BY DEF Answers
  <2>2. facts' \in HolderDist(facts) /\ facts' # facts => DistOK(facts'.dist)
    BY <1>1, HoldersFound DEF MarketInv
  <2> QED BY <1>2, <2>1, <2>2 DEF MarketInv
<1> QED BY <1>3, <1>4, <1>5, <1>6, MarketKept DEF MarketInv

LEMMA EmitOK == MarketInv /\ Emit => MarketInv'
<1> SUFFICES ASSUME MarketInv, Emit PROVE MarketInv'
  OBVIOUS
<1>1. step # Idle /\ FactsOK(facts)
  BY Stages DEF MarketInv, Emit
<1>2. /\ truth' = truth /\ transport' = transport /\ step' = GateAt /\ facts' = facts
      /\ passes' = passes /\ payload' \in {payload, facts, Nothing} /\ skip' = skip
      /\ holderCache' = holderCache
  BY DEF Emit, Kept
<1>3. RowsOK'
  <2>1. CASE rows' = rows
    BY <2>1 DEF MarketInv, RowsOK, RowOK, DistOK, Known
  <2>2. CASE rows' = Append(rows, Row(facts, transport))
    BY <1>1, <2>2, RowAdded DEF MarketInv
  <2> QED BY <2>1, <2>2 DEF Emit
<1>4. step' \in BatchAt..Idle /\ step' # Idle
  BY <1>2, Stages
<1> QED BY <1>1, <1>2, <1>3, <1>4, MarketKept DEF MarketInv

LEMMA JudgeOK == ASSUME MarketInv, NEW mode, Judge(mode) PROVE MarketInv'
<1>1. /\ truth' = truth /\ transport' = transport /\ step' = Idle /\ facts' = Nothing
      /\ passes' = passes /\ payload' = payload /\ skip' = {} /\ rows' = rows
      /\ holderCache' = holderCache
  BY DEF Judge
<1>2. RowsOK' /\ step' \in BatchAt..Idle
  BY <1>1, Stages DEF MarketInv, RowsOK, RowOK, DistOK, Known
<1> QED BY <1>1, <1>2, MarketKept DEF MarketInv

LEMMA MarketStep == MarketInv /\ [MarketNext]_marketVars => MarketInv'
<1> SUFFICES ASSUME MarketInv, [MarketNext]_marketVars PROVE MarketInv'
  OBVIOUS
<1>1. CASE UNCHANGED marketVars
  <2>1. RowsOK'
    BY <1>1 DEF marketVars, MarketInv, RowsOK, RowOK, DistOK, Known
  <2> QED BY <1>1, <2>1, MarketKept DEF marketVars, MarketInv
<1> QED BY <1>1, FirstPassOK, RetryPendingOK, RescanOK, DeferOK, BatchFetchOK, RunSingleProbeOK,
           EmitOK, JudgeOK DEF MarketNext

\* Every variable of the market has its type, whatever the probes find and miss
\* and in whichever order launches, retries and rescans come.
THEOREM MarketTypeCorrect == MarketSpec => []MarketTypeOK
<1>1. MarketInv => MarketTypeOK
  BY DEF MarketInv, MarketTypeOK, FactsOK, DistOK
<1> QED BY <1>1, MarketInitOK, MarketStep, PTL DEF MarketSpec

\* What a verdict that admits has seen.
LEMMA AdmitsOnFacts ==
  ASSUME StrictLimits, NEW f, NEW mode, ~ IsFairExplorationMode(mode),
         ProcessForMode(f, mode) \in {"PASS", "RISKY_PASS"}
  PROVE  /\ StructuralReasons(f, mode) = {}
         /\ SerialLauncher(f, mode) \in {"clear", "watch", "skip"}
         /\ SerialLauncher(f, mode) # "skip"
<1> DEFINE serial == SerialLauncher(f, mode)
           found == Reasons(f, mode) \union IndeterminateReasons(f, mode)
<1>1. ~ NoSocialMonitored(f, mode)
  BY DEF NoSocialMonitored
<1>2. serial # "skip" /\ found = {}
  <2> HIDE DEF serial
  <2>1. ProcessForMode(f, mode) \notin {"SKIP", "REJECT"}
    OBVIOUS
  <2> QED BY <1>1, <2>1 DEF ProcessForMode, serial
<1>3. Reasons(f, mode) = {}
  BY <1>2
<1> QED BY <1>2, <1>3 DEF Reasons

LEMMA NotSerial ==
  ASSUME StrictLimits, NEW f, NEW mode, ~ IsFairExplorationMode(mode),
         SerialLauncher(f, mode) \in {"clear", "watch", "skip"}, SerialLauncher(f, mode) # "skip"
  PROVE  Known(f.launches) /\ f.launches < 1
<1>1. ResolveProfile(mode).launches = 0
  BY DataQualityAssumption DEF StrictLimits, ResolveProfile, IsFairExplorationMode
<1> QED BY <1>1 DEF SerialLauncher, LaunchLimit, StrictLimits

LEMMA NothingMissing ==
  ASSUME StrictLimits, NEW f, NEW mode, StructuralReasons(f, mode) = {}
  PROVE  /\ Known(f.supply) /\ ~ (f.supply > Limits.supply)
         /\ Known(f.social) /\ ~ (~ f.social)
<1>1. ASSUME NEW r \in {"high_total_supply", "unknown_total_supply", "no_social_links",
                        "unknown_social_links"}
      PROVE  r \notin StructuralReasons(f, mode)
  OBVIOUS
<1>2. ~ (Limits.supply > 0 /\ ~ Known(f.supply))
  BY <1>1, Zenon DEF StructuralReasons, Fails
<1>3. ~ (Limits.supply > 0 /\ Known(f.supply) /\ f.supply > Limits.supply)
  BY <1>1, Zenon DEF StructuralReasons, Fails
<1>a. Limits.supply > 0
  BY DEF StrictLimits
<1>4. ~ (~ Known(f.social))
  BY <1>1 DEF StructuralReasons, Fails
<1>5. ~ (Known(f.social) /\ ~ f.social)
  BY <1>1 DEF StructuralReasons, Fails
<1> QED BY <1>a, <1>2, <1>3, <1>4, <1>5

LEMMA JudgedOnTruth ==
  ASSUME StrictLimits, MarketInv, NEW mode, Judge(mode) PROVE AdmittedOnTruth'
<1>1. PICK f \in CountTokensByCreator(facts) :
        judged' = [mode |-> mode, listed |-> facts.launches, decision |-> ProcessForMode(f, mode)]
  BY DEF Judge
<1>2. SUFFICES ASSUME ~ IsFairExplorationMode(mode),
                      ProcessForMode(f, mode) \in {"PASS", "RISKY_PASS"}
               PROVE  /\ \/ truth.launches <= Limits.launches
                         \/ Known(facts.launches) /\ facts.launches < truth.launches
                      /\ truth.links \/ truth.listedLinks
                      /\ truth.supply <= Limits.supply
  <2>1. /\ truth' = truth /\ judged'.mode = mode /\ judged'.decision = ProcessForMode(f, mode)
        /\ judged'.listed = facts.launches
    BY <1>1 DEF Judge
  <2> QED BY <2>1 DEF AdmittedOnTruth, IsFairExplorationMode, Known
<1>3. /\ Known(f.supply) /\ ~ (f.supply > Limits.supply)
      /\ Known(f.social) /\ ~ (~ f.social)
      /\ Known(f.launches) /\ f.launches < 1
  BY <1>2, AdmitsOnFacts, NotSerial, NothingMissing
<1>4. FactsOK(facts) /\ truth \in Truths
  BY Stages DEF MarketInv, Judge
<1>5. f = facts \/ \E n \in 1..truth.launches : f = [facts EXCEPT !.launches = n]
  BY DEF CountTokensByCreator
<1>6. CASE f = facts
  <2>1. /\ truth.launches <= 1 \/ (Known(facts.launches) /\ facts.launches < truth.launches)
        /\ f.supply = truth.supply
    BY <1>3, <1>4, <1>6, TruthTypes DEF FactsOK
  <2>2. f.social = TRUE
    BY <1>3, <1>4, <1>6 DEF FactsOK, Bool, Known
  <2>3. truth.links = TRUE \/ truth.listedLinks = TRUE
    BY <1>3, <1>4, <1>6, <2>2 DEF FactsOK
  <2> QED BY <1>3, <1>4, <2>1, <2>3, TruthTypes, DataQualityAssumption DEF StrictLimits
<1>7. ASSUME NEW n \in 1..truth.launches, f = [facts EXCEPT !.launches = n] PROVE FALSE
  <2>1. f.launches = n
    BY <1>4, <1>7 DEF FactsOK, Fields
  <2> QED BY <1>3, <1>4, <2>1, TruthTypes
<1> QED BY <1>5, <1>6, <1>7

\* In the modes that do not explore, what is admitted is true of the token and
\* not only of what the probes remembered or took from an older row: it has
\* links, its supply is within bounds, and a creator of more tokens than the limit
\* has got through only on a list that a service has answered with and that is
\* too short (MarketProbesWorker.Process, DataQualityWorker.Process,
\* Module.ProcessForMode) - for every set of tokens, every number of passes and
\* every order of launches, retries and rescans, under the limits as they are
\* configured.
THEOREM AdmittedTokensAreAsKnown ==
  ASSUME StrictLimits
  PROVE  MarketSpec => []AdmittedOnTruth
<1>1. MarketInit => AdmittedOnTruth
  BY DEF MarketInit, AdmittedOnTruth
<1>2. MarketInv /\ AdmittedOnTruth /\ [MarketNext]_marketVars => AdmittedOnTruth'
  <2> SUFFICES ASSUME MarketInv, AdmittedOnTruth, [MarketNext]_marketVars PROVE AdmittedOnTruth'
    OBVIOUS
  <2>1. ASSUME truth' = truth, judged' = judged \/ judged' = Nothing PROVE AdmittedOnTruth'
    BY <2>1 DEF AdmittedOnTruth
  <2>2. CASE \E mode : Judge(mode)
    BY <2>2, JudgedOnTruth
  <2>3. CASE FirstPass
    BY <2>1, <2>3 DEF FirstPass, Begin
  <2>4. CASE RetryPending
    BY <2>1, <2>4 DEF RetryPending, Begin
  <2>5. ASSUME NEW t \in Rescans, Rescan(t) PROVE AdmittedOnTruth'
    BY <2>1, <2>5 DEF Rescan, Begin
  <2>6. CASE Defer \/ BatchFetch \/ RunSingleProbe \/ Emit
    BY <2>1, <2>6 DEF Defer, BatchFetch, RunSingleProbe, Emit
  <2>7. CASE UNCHANGED marketVars
    BY <2>1, <2>7 DEF marketVars
  <2> QED BY <2>2, <2>3, <2>4, <2>5, <2>6, <2>7 DEF MarketNext
<1> QED BY <1>1, <1>2, MarketInitOK, MarketStep, PTL DEF MarketSpec

-------------------------------------------------------------------------------
(* The ladder of the modes. *)

LEMMA Thin ==
  ASSUME NEW l \in Nat, NEW m \in Nat, l < m
  PROVE  (l * 60) \div m \in 0..60
<1>1. 0 <= l * 60 /\ l * 60 <= 60 * m
  OBVIOUS
<1>2. \A a \in Nat : a <= 60 * m => a \div m \in 0..60
  OBVIOUS
<1> QED BY <1>1, <1>2

\* The mean of signals that are numbers is one.
LEMMA MeanTyped ==
  ASSUME NEW signals, IsFiniteSet(signals), signals # {}, \A s \in signals : s[2] \in Nat
  PROVE  SumOf([s \in signals |-> s[2]]) \div Cardinality(signals) \in Nat
<1> DEFINE a == SumOf([s \in signals |-> s[2]])
           c == Cardinality(signals)
<1>1. a \in Nat
  BY SumOfNaturals
<1>2. c \in Nat \ {0}
  BY FS_CardinalityType, FS_EmptySet
<1> HIDE DEF a, c
<1>3. a \div c \in Nat
  BY <1>1, <1>2
<1> QED BY <1>3 DEF a, c

LEMMA DetectRugTyped ==
  ASSUME NEW f, Rest(f), Known(f.dist) => DistOK(f.dist), Known(DetectRugPull(f))
  PROVE  DetectRugPull(f) \in Nat
<1> DEFINE lock == IF Known(f.lock) THEN {<<"lock", Full - (f.lock * Full) \div 100>>} ELSE {}
           auth == IF ~ Known(f.authorities) THEN 0
                   ELSE (IF f.authorities.mint THEN 0 ELSE 24) + (IF f.authorities.freeze THEN 0 ELSE 18)
           owner == IF Known(f.privileges) \/ Known(f.authorities)
                    THEN {<<"owner", Capped((IF Known(f.privileges) THEN f.privileges ELSE 0) + auth, Full)>>}
                    ELSE {}
           dist == IF Known(f.dist)
                   THEN {<<"dist", Capped((f.dist.share * Full) \div Limits.concentration, Full)>>} ELSE {}
           signals == lock \union owner \union dist
<1>1. lock = {}
  BY DEF Rest, Known
<1>2. \A s \in owner : s[2] \in Nat
  <2>1. auth \in Nat
    OBVIOUS
  <2> HIDE DEF auth
  <2>2. Capped(0 + auth, Full) \in Nat
    BY <2>1 DEF Capped, Full
  <2> QED BY <2>2 DEF Rest, Known
<1>3. \A s \in dist : s[2] \in Nat
  <2> SUFFICES ASSUME Known(f.dist) PROVE Capped((f.dist.share * Full) \div Limits.concentration, Full) \in Nat
    OBVIOUS
  <2>1. f.dist.share * 60 \in Nat
    BY DEF DistOK
  <2>2. (f.dist.share * 60) \div Limits.concentration \in Nat
    BY <2>1, DataQualityAssumption
  <2> QED BY <2>2 DEF Capped, Full
<1>4. IsFiniteSet(owner) /\ IsFiniteSet(dist)
  BY FS_Singleton, FS_EmptySet
<1>6. DetectRugPull(f) = IF signals = {} THEN Unknown
                         ELSE SumOf([s \in signals |-> s[2]]) \div Cardinality(signals)
  BY DEF DetectRugPull
<1> HIDE DEF lock, owner, dist
<1>5. IsFiniteSet(signals) /\ \A s \in signals : s[2] \in Nat
  BY <1>1, <1>2, <1>3, <1>4, FS_Union
<1> HIDE DEF signals
<1>7. signals # {}
  BY <1>6 DEF Known
<1> QED BY <1>5, <1>6, <1>7, MeanTyped

LEMMA DetectDevTyped ==
  ASSUME NEW f PROVE DetectDevReputation(f) \in Nat
<1> DEFINE launch == IF Known(f.launches)
                     THEN {<<"launch", IF f.launches >= Limits.launches THEN Full ELSE 0>>} ELSE {}
           social == IF Known(f.social)
                     THEN {<<"social", IF f.social THEN 0 ELSE (Limits.noSocial * Full) \div 100>>} ELSE {}
           signals == launch \union social
<1>1. IsFiniteSet(launch) /\ IsFiniteSet(social)
  BY FS_Singleton, FS_EmptySet
<1>2. \A s \in launch : s[2] \in Nat
  BY DEF Full
<1>3. \A s \in social : s[2] \in Nat
  <2>1. (Limits.noSocial * Full) \div 100 \in Nat
    BY DataQualityAssumption DEF Full
  <2> QED BY <2>1
<1>4. DetectDevReputation(f) = IF signals = {} THEN Full
                               ELSE SumOf([s \in signals |-> s[2]]) \div Cardinality(signals)
  BY DEF DetectDevReputation
<1> HIDE DEF launch, social
<1>5. IsFiniteSet(signals) /\ \A s \in signals : s[2] \in Nat
  BY <1>1, <1>2, <1>3, FS_Union
<1> HIDE DEF signals
<1> QED BY <1>4, <1>5, MeanTyped DEF Full

LEMMA DetectLiquidityTyped ==
  ASSUME NEW f, Rest(f), Known(f.liquidity)
  PROVE  DetectFakeLiquidity(f) \in Nat
<1>1. f.liquidity \in Nat /\ Limits.liquidity \in Nat \ {0} /\ f.churn = 0 /\ f.provider = 0
  BY DataQualityAssumption DEF Rest
<1>2. f.liquidity < Limits.liquidity => (f.liquidity * 60) \div Limits.liquidity \in 0..60
  BY <1>1, Thin
<1> DEFINE l == f.liquidity
           thin == IF l > 0 /\ l < Limits.liquidity THEN 60 - (l * 60) \div Limits.liquidity ELSE 0
<1>3. thin \in Nat
  <2> DEFINE q == (l * 60) \div Limits.liquidity
  <2>1. l < Limits.liquidity => q \in 0..60
    BY <1>2
  <2> HIDE DEF q
  <2> QED BY <2>1 DEF q
<1>4. DetectFakeLiquidity(f) = (0 + 0 + thin) \div 3
  BY <1>1 DEF DetectFakeLiquidity, Full
<1> HIDE DEF thin
<1> QED BY <1>3, <1>4

\* A detector that answers gives a number.
LEMMA DetectTyped ==
  ASSUME NEW f, FactsOK(f), NEW d \in Detectors, Known(Detect(d, f))
  PROVE  Detect(d, f) \in Nat
<1>0. Rest(f) /\ (Known(f.dist) => DistOK(f.dist))
  BY DEF FactsOK
<1>1. CASE d \notin Limits.detectors
  BY <1>1 DEF Detect
<1>2. CASE d \in Limits.detectors
  <2>1. CASE d = "honeypot"
    BY <1>0, <1>2, <2>1 DEF Detect, DetectHoneypot, Rest, Known
  <2>2. CASE d = "rug"
    <3>1. Detect(d, f) = DetectRugPull(f)
      BY <1>2, <2>2 DEF Detect
    <3> QED BY <1>0, <3>1, DetectRugTyped
  <2>3. CASE d = "wash"
    BY <1>0, <1>2, <2>3 DEF Detect, DetectWashTrading, Rest, Known
  <2>4. CASE d = "liquidity"
    <3>1. Detect(d, f) = DetectFakeLiquidity(f)
      BY <1>2, <2>4 DEF Detect
    <3>2. Known(f.liquidity)
      BY <3>1 DEF DetectFakeLiquidity, Known
    <3> QED BY <1>0, <3>1, <3>2, DetectLiquidityTyped
  <2>5. CASE d = "tax"
    BY <1>0, <1>2, <2>5 DEF Detect, DetectTaxManipulation, Rest
  <2>6. CASE d = "dev"
    <3>1. Detect(d, f) = DetectDevReputation(f)
      BY <1>2, <2>6 DEF Detect
    <3> QED BY <3>1, DetectDevTyped
  <2> QED BY <2>1, <2>2, <2>3, <2>4, <2>5, <2>6 DEF Detectors
<1> QED BY <1>1, <1>2

\* A product grows with its factors.
LEMMA Grows ==
  ASSUME NEW k \in Nat, NEW a \in Nat, NEW b \in Nat, a <= b
  PROVE  k * a \in Nat /\ k * b \in Nat /\ k * a <= k * b
<1>1. PICK c \in Nat : b = a + c
  <2> b - a \in Nat /\ b = a + (b - a)
    OBVIOUS
  <2> QED OBVIOUS
<1>2. k * b = k * a + k * c
  BY <1>1
<1>3. k * a \in Nat /\ k * c \in Nat
  OBVIOUS
<1> QED BY <1>2, <1>3

LEMMA ProfileTyped ==
  ASSUME NEW mode
  PROVE  /\ ResolveProfile(mode).reject \in Nat /\ ResolveProfile(mode).unknown \in Nat
         /\ ResolveProfile(mode).launches \in Nat /\ ResolveProfile(mode).risk \in Nat
         /\ ResolveProfile(mode).holders \in Nat /\ ResolveProfile(mode).minAge \in Int
         /\ ResolveProfile(mode).momentum.holders \in Nat /\ ResolveProfile(mode).momentum.share \in Nat
         /\ ResolveProfile(mode).momentum.liquidity \in Nat /\ ResolveProfile(mode).momentum.risk \in Nat
<1> DEFINE m == IF mode \in DOMAIN Profiles THEN mode ELSE "STRICT"
<1>1. m \in DOMAIN Profiles
  BY DataQualityAssumption
<1>2. ResolveProfile(mode) = Profiles[m]
  BY DEF ResolveProfile
<1> HIDE DEF m
<1> QED BY <1>1, <1>2, DataQualityAssumption

\* What a detector adds to the risk is no more in a looser mode.
LEMMA WeightedMonotone ==
  ASSUME NEW f, FactsOK(f), NEW p, NEW q, NEW d \in Detectors,
         ResolveProfile(q).unknown <= ResolveProfile(p).unknown
  PROVE  /\ WeightedDetector(d, f, p) \in Nat /\ WeightedDetector(d, f, q) \in Nat
         /\ WeightedDetector(d, f, q) <= WeightedDetector(d, f, p)
<1> DEFINE score == Detect(d, f)
           weight == Weights[d]
           known == Capped(score, Full) * weight
           u(mode) == (Full * weight * ResolveProfile(mode).unknown) \div 100
<1>1. weight \in Nat
  BY DataQualityAssumption DEF Detectors
<1>2. Known(score) => known \in Nat
  <2> SUFFICES ASSUME Known(score) PROVE known \in Nat
    OBVIOUS
  <2>1. score \in Nat
    BY DetectTyped
  <2> DEFINE c == Capped(score, Full)
  <2>2. c \in Nat
    BY <2>1 DEF Capped, Full
  <2> HIDE DEF c, weight, score
  <2>3. c * weight \in Nat
    BY <1>1, <2>2
  <2> QED BY <2>3 DEF c
<1>3. u(p) \in Nat /\ u(q) \in Nat /\ u(q) <= u(p)
  <2> DEFINE k == 60 * weight
             a == ResolveProfile(q).unknown
             b == ResolveProfile(p).unknown
  <2>1. k \in Nat /\ a \in Nat /\ b \in Nat /\ a <= b
    BY <1>1, ProfileTyped
  <2> HIDE DEF k, a, b
  <2>2. k * a \in Nat /\ k * b \in Nat /\ k * a <= k * b
    BY <2>1, Grows
  <2> DEFINE x == k * a
             y == k * b
  <2>3. u(q) = x \div 100 /\ u(p) = y \div 100
    BY DEF k, a, b, Full
  <2>4. x \in Nat /\ y \in Nat /\ x <= y
    BY <2>2
  <2> HIDE DEF x, y, u
  <2> QED BY <2>3, <2>4
<1>4. /\ WeightedDetector(d, f, p) = IF Known(score) THEN known ELSE u(p)
      /\ WeightedDetector(d, f, q) = IF Known(score) THEN known ELSE u(q)
  BY DEF WeightedDetector
<1> HIDE DEF known, u, score
<1> QED BY <1>2, <1>3, <1>4

LEMMA DetectorRiskMonotone ==
  ASSUME NEW f, FactsOK(f), NEW p, NEW q, ResolveProfile(q).unknown <= ResolveProfile(p).unknown
  PROVE  /\ DetectorRisk(f, p) \in Nat /\ DetectorRisk(f, q) \in Nat
         /\ DetectorRisk(f, q) <= DetectorRisk(f, p)
<1> DEFINE a == [d \in Detectors |-> WeightedDetector(d, f, q)]
           b == [d \in Detectors |-> WeightedDetector(d, f, p)]
<1>1. IsFiniteSet(Detectors)
  <2>1. Detectors = {"honeypot"} \union {"rug"} \union {"wash"} \union {"liquidity"} \union {"tax"} \union {"dev"}
    BY DEF Detectors
  <2> QED BY <2>1, FS_Singleton, FS_Union
<1>2. a \in [Detectors -> Nat] /\ b \in [Detectors -> Nat] /\ \A d \in Detectors : a[d] <= b[d]
  BY WeightedMonotone
<1>3. DetectorRisk(f, q) = Capped(SumOf(a), 100 * Full) /\ DetectorRisk(f, p) = Capped(SumOf(b), 100 * Full)
  BY DEF DetectorRisk
<1> HIDE DEF a, b
<1>4. a \in [Detectors -> Int] /\ b \in [Detectors -> Int]
  BY <1>2
<1>5. SumOf(a) \in Nat /\ SumOf(b) \in Nat /\ SumOf(a) <= SumOf(b)
  BY <1>1, <1>2, <1>4, SumOfNaturals, SumMonotone
<1> QED BY <1>3, <1>5 DEF Capped, Full

\* Neither is the risk, when a looser mode has no other reasons.
LEMMA RiskMonotone ==
  ASSUME NEW f, FactsOK(f), NEW p, NEW q, ResolveProfile(q).unknown <= ResolveProfile(p).unknown,
         NEW rp, NEW rq, rq \subseteq rp
  PROVE  /\ RiskScore(f, p, rp) \in Nat /\ RiskScore(f, q, rq) \in Nat
         /\ RiskScore(f, q, rq) <= RiskScore(f, p, rp)
<1> DEFINE w == Limits.externalWeight
           x == DetectorRisk(f, q)
           y == DetectorRisk(f, p)
           k == 100 - w
<1>1. x \in Nat /\ y \in Nat /\ x <= y
  BY DetectorRiskMonotone
<1>2. w \in 0..100 /\ k \in 0..100
  BY DataQualityAssumption
<1>3. EvaluateProviders(f.external) = 0
  BY DEF FactsOK, Rest, EvaluateProviders
<1>4. RiskScore(f, p, rp) = IF rp # {} \/ Limits.shadowMode \/ w = 0 THEN y ELSE (k * y) \div 100 + w * 0
  BY <1>3 DEF RiskScore
<1>5. RiskScore(f, q, rq) = IF rq # {} \/ Limits.shadowMode \/ w = 0 THEN x ELSE (k * x) \div 100 + w * 0
  BY <1>3 DEF RiskScore
<1> HIDE DEF w, x, y, k
<1>6. w * 0 = 0
  BY <1>2
<1>7. (k * x) \div 100 \in Nat /\ (k * y) \div 100 \in Nat /\ (k * x) \div 100 <= (k * y) \div 100
  <2>1. k * x \in Nat /\ k * y \in Nat /\ k * x <= k * y
    BY <1>1, <1>2, Grows
  <2> DEFINE a == k * x
             b == k * y
  <2> a \in Nat /\ b \in Nat /\ a <= b
    BY <2>1
  <2> HIDE DEF a, b
  <2>2. a \div 100 \in Nat /\ b \div 100 \in Nat /\ a \div 100 <= b \div 100
    OBVIOUS
  <2> QED BY <2>2 DEF a, b
<1>8. (k * x) \div 100 <= x
  <2>1. x * k \in Nat /\ x * 100 \in Nat /\ x * k <= x * 100
    BY <1>1, <1>2, Grows
  <2> DEFINE a == k * x
  <2>2. a \in Nat /\ a <= 100 * x
    BY <1>1, <1>2, <2>1
  <2> HIDE DEF a
  <2>3. a \div 100 <= x
    BY <1>1, <2>2
  <2> QED BY <2>3 DEF a
<1> DEFINE xs == (k * x) \div 100
           ys == (k * y) \div 100
<1>9. xs \in Nat /\ ys \in Nat /\ xs <= ys /\ xs <= x
  BY <1>7, <1>8
<1>10. /\ RiskScore(f, p, rp) = IF rp # {} \/ Limits.shadowMode \/ w = 0 THEN y ELSE ys + 0
       /\ RiskScore(f, q, rq) = IF rq # {} \/ Limits.shadowMode \/ w = 0 THEN x ELSE xs + 0
  BY <1>4, <1>5, <1>6
<1> HIDE DEF xs, ys
<1>11. CASE rq # {} \/ Limits.shadowMode \/ w = 0
  <2>1. rp # {} \/ Limits.shadowMode \/ w = 0
    BY <1>11
  <2> QED BY <1>1, <1>10, <1>11, <2>1
<1>12. CASE ~ (rq # {} \/ Limits.shadowMode \/ w = 0)
  BY <1>1, <1>9, <1>10, <1>12
<1> QED BY <1>11, <1>12

\* What ProcessForMode calls found and partial.
Found(f, mode) ==
  (Reasons(f, mode) \union IndeterminateReasons(f, mode))
    \ (IF NoSocialMonitored(f, mode) THEN {"no_social_links"} ELSE {})
Partial(f, mode) ==
  IF IsFairExplorationMode(mode) THEN Found(f, mode) \intersect PartialReasons(f) ELSE {}

\* A watched token has a limit on its risk.
TooRisky(f, mode) == MaxRisk(mode) > 0 /\ DetectorRisk(f, mode) >= MaxRisk(mode) * Full

LEMMA AdmitsWhen ==
  ASSUME NEW f, NEW mode
  PROVE  Admits(f, mode) <=>
           /\ SerialLauncher(f, mode) # "skip"
           /\ ~ (SerialLauncher(f, mode) = "watch" /\ TooRisky(f, mode))
           /\ Partial(f, mode) # {} => ShouldProbePartialRiskyPass(f)
           /\ Found(f, mode) \ Partial(f, mode) = {}
           /\ Detect("honeypot", f) # Full
           /\ ~ (RiskScore(f, mode, Reasons(f, mode)) >= ResolveProfile(mode).reject * Full)
<1> DEFINE serial == SerialLauncher(f, mode)
           risk == RiskScore(f, mode, Reasons(f, mode))
           found == Found(f, mode)
           partial == Partial(f, mode)
           reasons == found \ partial
           decision == MakeDecision(risk, ResolveProfile(mode))
           early == \/ serial = "skip"
                    \/ serial = "watch" /\ TooRisky(f, mode)
                    \/ partial # {} /\ reasons = {} /\ ~ ShouldProbePartialRiskyPass(f)
<1>1. ProcessForMode(f, mode) =
        IF early THEN "SKIP"
        ELSE IF reasons # {} \/ Detect("honeypot", f) = Full THEN "REJECT"
        ELSE IF serial = "watch" /\ decision = "PASS" THEN "RISKY_PASS" ELSE decision
  BY DEF ProcessForMode, Found, Partial, TooRisky
<1>2. decision = IF risk >= ResolveProfile(mode).reject * Full THEN "REJECT"
                 ELSE IF risk >= ResolveProfile(mode).risky * Full THEN "RISKY_PASS" ELSE "PASS"
  BY DEF MakeDecision
<1> DEFINE over == risk >= ResolveProfile(mode).reject * Full
           some == risk >= ResolveProfile(mode).risky * Full
<1>3. decision = IF over THEN "REJECT" ELSE IF some THEN "RISKY_PASS" ELSE "PASS"
  BY <1>2
<1> HIDE DEF serial, found, partial, decision, over, some
<1>4. Admits(f, mode) <=> ~ early /\ reasons = {} /\ Detect("honeypot", f) # Full /\ ~ over
  BY <1>1, <1>3 DEF Admits
<1> QED BY <1>4 DEF serial, found, partial, over, risk

LEMMA MinAgeTyped == ASSUME NEW mode PROVE MinAge(mode) \in Int
BY ProfileTyped, DataQualityAssumption DEF MinAge

\* The structural reasons, with the one that depends on the mode left open.
ReasonsIf(f, young) == Fails(
  [missing_reserves |-> ~ LaunchExempt(f) /\ f.reserves \in {Unknown, 0},
   insufficient_liquidity |-> ~ LaunchExempt(f) /\ Known(f.reserves)
                              /\ f.reserves \in 1..(Limits.reserves - 1),
   reorged_event |-> f.reorged,
   bonding_curve_too_advanced |-> Limits.curve > 0 /\ f.curve > Limits.curve,
   high_total_supply |-> Limits.supply > 0 /\ Known(f.supply) /\ f.supply > Limits.supply,
   unknown_total_supply |-> Limits.supply > 0 /\ ~ Known(f.supply),
   no_social_links |-> Known(f.social) /\ ~ f.social,
   unknown_social_links |-> ~ Known(f.social),
   duplicate_name |-> f.duplicate,
   copycat_name |-> f.copycat,
   insufficient_holders |-> ~ LaunchExempt(f) /\ Known(f.dist) /\ f.dist.count < Limits.holders,
   unknown_holder_count |-> ~ LaunchExempt(f) /\ ~ Known(f.dist),
   token_too_young |-> young])

LEMMA ReasonsIfMonotone ==
  ASSUME NEW f, NEW y \in BOOLEAN, NEW z \in BOOLEAN, y => z
  PROVE  ReasonsIf(f, y) \subseteq ReasonsIf(f, z)
BY DEF ReasonsIf, Fails

LEMMA StructuralLoosens ==
  ASSUME NEW f, FactsOK(f), NEW p, NEW q, MinAge(q) <= MinAge(p)
  PROVE  StructuralReasons(f, q) \subseteq StructuralReasons(f, p)
<1> DEFINE young(mode) == Known(f.age) /\ f.age < MinAge(mode)
<1>1. young(q) => young(p)
  <2>1. f.age \in Nat /\ MinAge(p) \in Int /\ MinAge(q) \in Int
    BY MinAgeTyped DEF FactsOK, Rest
  <2> QED BY <2>1
<1>2. young(p) \in BOOLEAN /\ young(q) \in BOOLEAN
  BY DEF Known
<1>3. \A mode : StructuralReasons(f, mode) = ReasonsIf(f, young(mode))
  BY Zenon DEF StructuralReasons, ReasonsIf
<1> DEFINE yq == young(q)
           yp == young(p)
<1>4. StructuralReasons(f, q) = ReasonsIf(f, yq) /\ StructuralReasons(f, p) = ReasonsIf(f, yp)
  BY <1>3, Zenon
<1>5. yq \in BOOLEAN /\ yp \in BOOLEAN /\ (yq => yp)
  BY <1>1, <1>2
<1> HIDE DEF young, yq, yp
<1>6. ReasonsIf(f, yq) \subseteq ReasonsIf(f, yp)
  BY <1>5, ReasonsIfMonotone, Zenon
<1> QED BY <1>4, <1>6

\* What the ladder gives of a mode and a looser one.
LEMMA LadderPair ==
  ASSUME LooserLadder, NEW i \in DOMAIN ModeLadder, NEW j \in DOMAIN ModeLadder, i < j,
         NEW p, NEW q, p = ModeLadder[i], q = ModeLadder[j]
  PROVE  /\ Loosens(p, q) /\ {p, q} \subseteq DOMAIN Profiles /\ q # "STRICT"
         /\ IsFairExplorationMode(p) => IsFairExplorationMode(q)
         /\ ResolveProfile(p).launches = 0 <=> ~ IsFairExplorationMode(p)
         /\ ResolveProfile(q).launches = 0 <=> ~ IsFairExplorationMode(q)
<1>1. DOMAIN ModeLadder = 1..4
  BY DEF ModeLadder
<1>2. /\ ModeLadder[1] = "STRICT" /\ ModeLadder[2] = "BALANCED"
      /\ ModeLadder[3] = "EXPLORATION" /\ ModeLadder[4] = "VERY_EXPLORATION"
  BY DEF ModeLadder
<1>3. {p, q} \subseteq Range(ModeLadder)
  BY DEF Range
<1>4. Loosens(p, q) /\ {p, q} \subseteq DOMAIN Profiles
  BY <1>3 DEF LooserLadder
<1>5. \A mode \in {p, q} : ResolveProfile(mode).launches = 0 <=> ~ IsFairExplorationMode(mode)
  BY <1>3, <1>4 DEF LooserLadder, ResolveProfile
<1>6. i \in {1, 2, 3} /\ j \in {2, 3, 4} /\ i < j
  BY <1>1
<1>7. q # "STRICT" /\ (IsFairExplorationMode(p) => IsFairExplorationMode(q))
  BY <1>2, <1>6 DEF IsFairExplorationMode
<1> QED BY <1>4, <1>5, <1>7

LEMMA LaunchLimitTyped == ASSUME NEW mode PROVE LaunchLimit(mode) \in Nat
BY ProfileTyped, DataQualityAssumption DEF LaunchLimit

LEMMA ClearStaysClear ==
  ASSUME NEW f, FactsOK(f), NEW p, NEW q, LaunchLimit(p) <= LaunchLimit(q),
         SerialLauncher(f, p) = "clear"
  PROVE  SerialLauncher(f, q) = "clear"
<1>1. Limits.launches = 0 \/ (Known(f.launches) /\ f.launches < LaunchLimit(p))
  BY DEF SerialLauncher
<1>2. Known(f.launches) => f.launches \in Nat
  BY DEF FactsOK
<1>3. Limits.launches = 0 \/ (Known(f.launches) /\ f.launches < LaunchLimit(q))
  BY <1>1, <1>2, LaunchLimitTyped
<1> QED BY <1>3 DEF SerialLauncher

LEMMA GatesLoosen ==
  ASSUME NEW f, FactsOK(f), NEW p, NEW q, Loosens(p, q), IsFairExplorationMode(p),
         QualityGates(f, p)
  PROVE  QualityGates(f, q)
<1> DEFINE a == ResolveProfile(p)
           b == ResolveProfile(q)
<1>1. /\ Waived(p) => Waived(q)
      /\ b.social => a.social
      /\ b.holders = 0 \/ (a.holders > 0 /\ b.holders <= a.holders)
  BY DEF Loosens
<1>2. \/ Waived(p)
      \/ /\ a.social => Known(f.social) /\ f.social
         /\ a.holders = 0 \/ (Known(f.dist) /\ f.dist.count >= a.holders)
  BY DEF QualityGates
<1>3. a.holders \in Nat /\ b.holders \in Nat /\ (Known(f.dist) => f.dist.count \in 0..200)
  BY ProfileTyped DEF FactsOK, DistOK
<1> HIDE DEF a, b
<1>4. \/ Waived(q)
      \/ /\ b.social => Known(f.social) /\ f.social
         /\ b.holders = 0 \/ (Known(f.dist) /\ f.dist.count >= b.holders)
  <2>1. CASE Waived(p)
    BY <1>1, <2>1
  <2>2. CASE ~ Waived(p)
    <3>1. b.social => Known(f.social) /\ f.social
      BY <1>1, <1>2, <2>2
    <3>2. b.holders = 0 \/ (Known(f.dist) /\ f.dist.count >= b.holders)
      BY <1>1, <1>2, <1>3, <2>2
    <3> QED BY <3>1, <3>2
  <2> QED BY <2>1, <2>2
<1> QED BY <1>4 DEF QualityGates, b

LEMMA MomentumLoosens ==
  ASSUME NEW f, FactsOK(f), NEW p, NEW q, Loosens(p, q), IsFairExplorationMode(p),
         EvaluateMomentumOverride(f, p)
  PROVE  EvaluateMomentumOverride(f, q)
<1> DEFINE a == ResolveProfile(p).momentum
           b == ResolveProfile(q).momentum
<1>1. /\ a.enabled
      /\ Known(f.dist) /\ f.dist.count >= a.holders /\ f.dist.share <= a.share
      /\ Known(f.authorities) /\ f.authorities.mint /\ f.authorities.freeze
      /\ Known(f.liquidity) /\ f.liquidity >= a.liquidity
  BY DEF EvaluateMomentumOverride
<1>2. b.enabled /\ b.holders <= a.holders /\ a.share <= b.share /\ b.liquidity <= a.liquidity
  BY <1>1 DEF Loosens
<1>3. /\ {a.holders, a.share, a.liquidity, b.holders, b.share, b.liquidity} \subseteq Nat
      /\ f.dist.count \in Nat /\ f.dist.share \in Nat /\ f.liquidity \in Nat
  BY <1>1, ProfileTyped DEF FactsOK, DistOK, Rest
<1> HIDE DEF a, b
<1>4. /\ f.dist.count >= b.holders /\ f.dist.share <= b.share /\ f.liquidity >= b.liquidity
  BY <1>1, <1>2, <1>3
<1> QED BY <1>1, <1>2, <1>4 DEF EvaluateMomentumOverride, b

\* A token that an exploring mode does not skip is not skipped by a looser one,
\* and one that the looser mode watches was watched before.
LEMMA WatchLoosens ==
  ASSUME NEW f, FactsOK(f), NEW p, NEW q, Loosens(p, q),
         IsFairExplorationMode(p), ResolveProfile(p).launches # 0, ResolveProfile(q).launches # 0,
         SerialLauncher(f, p) # "skip"
  PROVE  /\ SerialLauncher(f, q) \in {"clear", "watch"}
         /\ SerialLauncher(f, q) = "watch" => SerialLauncher(f, p) = "watch"
<1>0. LaunchLimit(p) <= LaunchLimit(q)
  BY DEF Loosens
<1>1. CASE SerialLauncher(f, p) = "clear"
  BY <1>0, <1>1, ClearStaysClear
<1>2. CASE SerialLauncher(f, p) # "clear"
  <2>1. Known(f.launches) /\ (QualityGates(f, p) \/ EvaluateMomentumOverride(f, p))
        /\ SerialLauncher(f, p) = "watch"
    BY <1>2 DEF SerialLauncher
  <2>2. Known(f.launches) /\ (QualityGates(f, q) \/ EvaluateMomentumOverride(f, q))
    BY <2>1, GatesLoosen, MomentumLoosens
  <2>3. SerialLauncher(f, q) \in {"clear", "watch"}
    BY <2>2 DEF SerialLauncher
  <2> QED BY <2>1, <2>3
<1> QED BY <1>1, <1>2

LEMMA Monitored ==
  ASSUME NEW f, NEW p, NEW q, Loosens(p, q), IsFairExplorationMode(q), NoSocialMonitored(f, p)
  PROVE  NoSocialMonitored(f, q)
<1>1. ResolveProfile(p).noSocial /\ IsFairExplorationMode(p)
  BY DEF NoSocialMonitored
<1>2. ResolveProfile(q).noSocial
  BY <1>1 DEF Loosens
<1> QED BY <1>2 DEF NoSocialMonitored

\* What a looser mode finds, the stricter one has found, unless it is about the
\* creator.
LEMMA FoundLoosens ==
  ASSUME NEW f, FactsOK(f), NEW p, NEW q, Loosens(p, q), q \in DOMAIN Profiles, q # "STRICT",
         IsFairExplorationMode(p) => IsFairExplorationMode(q),
         SerialLauncher(f, q) \in {"clear", "watch", "skip"}
  PROVE  Reasons(f, q) \subseteq Reasons(f, p) /\ Found(f, q) \subseteq Found(f, p)
<1>1. StructuralReasons(f, q) \subseteq StructuralReasons(f, p)
  BY StructuralLoosens DEF Loosens
<1>2. Reasons(f, q) = StructuralReasons(f, q) \union NarrativeReasons(f)
  BY DEF Reasons
<1>3. StructuralReasons(f, p) \union NarrativeReasons(f) \subseteq Reasons(f, p)
  BY DEF Reasons
<1>4. IndeterminateReasons(f, q) = {}
  BY DEF IndeterminateReasons
<1>5. NoSocialMonitored(f, p) => NoSocialMonitored(f, q)
  <2>1. NoSocialMonitored(f, p) => IsFairExplorationMode(p)
    BY DEF NoSocialMonitored
  <2> QED BY <2>1, Monitored
<1>6. Reasons(f, q) \subseteq Reasons(f, p)
  BY <1>1, <1>2, <1>3
<1>7. Found(f, q) \subseteq Found(f, p)
  BY <1>4, <1>5, <1>6 DEF Found
<1> QED BY <1>6, <1>7

LEMMA NotTooRisky ==
  ASSUME NEW f, FactsOK(f), NEW p, NEW q, Loosens(p, q), IsFairExplorationMode(p),
         ~ TooRisky(f, p)
  PROVE  ~ TooRisky(f, q)
<1> DEFINE a == MaxRisk(p)
           b == MaxRisk(q)
           x == DetectorRisk(f, p)
           y == DetectorRisk(f, q)
<1>1. a \in Nat /\ b \in Nat
  BY ProfileTyped DEF MaxRisk
<1>2. x \in Nat /\ y \in Nat /\ y <= x
  BY DetectorRiskMonotone DEF Loosens
<1>3. b = 0 \/ (a > 0 /\ a <= b)
  BY DEF Loosens
<1>4. ~ (a > 0 /\ x >= a * 60)
  BY DEF TooRisky, Full
<1> HIDE DEF a, b, x, y
<1>5. ~ (b > 0 /\ y >= b * 60)
  BY <1>1, <1>2, <1>3, <1>4
<1> QED BY <1>5 DEF TooRisky, Full, b, y

LEMMA LooserAdmitsToo ==
  ASSUME NEW f, FactsOK(f), NEW p, NEW q, Loosens(p, q), q \in DOMAIN Profiles, q # "STRICT",
         IsFairExplorationMode(p) => IsFairExplorationMode(q),
         ResolveProfile(p).launches = 0 <=> ~ IsFairExplorationMode(p),
         ResolveProfile(q).launches = 0 <=> ~ IsFairExplorationMode(q),
         Admits(f, p)
  PROVE  Admits(f, q)
<1>1. /\ SerialLauncher(f, p) # "skip"
      /\ ~ (SerialLauncher(f, p) = "watch" /\ TooRisky(f, p))
      /\ Partial(f, p) # {} => ShouldProbePartialRiskyPass(f)
      /\ Found(f, p) \ Partial(f, p) = {}
      /\ Detect("honeypot", f) # Full
      /\ ~ (RiskScore(f, p, Reasons(f, p)) >= ResolveProfile(p).reject * Full)
  BY AdmitsWhen
<1>2. /\ SerialLauncher(f, q) \in {"clear", "watch"}
      /\ SerialLauncher(f, q) = "watch" => SerialLauncher(f, p) = "watch" /\ IsFairExplorationMode(p)
  <2>1. CASE IsFairExplorationMode(p)
    BY <1>1, <2>1, WatchLoosens
  <2>2. CASE ~ IsFairExplorationMode(p)
    <3>1. Found(f, p) = {}
      BY <1>1, <2>2 DEF Partial
    <3>2. SerialLauncher(f, p) \in {"clear", "serial_launcher", "unknown_creator_count"}
      BY <2>2 DEF SerialLauncher
    <3>3. SerialLauncher(f, p) # "clear" => SerialLauncher(f, p) \in Found(f, p)
      BY <3>2 DEF Found, Reasons
    <3>4. SerialLauncher(f, p) = "clear"
      BY <3>1, <3>3
    <3>5. SerialLauncher(f, q) = "clear"
      BY <3>4, ClearStaysClear DEF Loosens
    <3> QED BY <3>5
  <2> QED BY <2>1, <2>2
<1>3. Reasons(f, q) \subseteq Reasons(f, p) /\ Found(f, q) \subseteq Found(f, p)
  BY <1>2, FoundLoosens
<1>4. Partial(f, q) # {} => ShouldProbePartialRiskyPass(f)
  <2>1. CASE IsFairExplorationMode(p)
    <3>1. Partial(f, q) \subseteq Partial(f, p)
      BY <1>3, <2>1 DEF Partial
    <3> QED BY <1>1, <3>1
  <2>2. CASE ~ IsFairExplorationMode(p)
    <3>1. Found(f, q) = {}
      BY <1>1, <1>3, <2>2 DEF Partial
    <3> QED BY <3>1 DEF Partial
  <2> QED BY <2>1, <2>2
<1>5. Found(f, q) \ Partial(f, q) = {}
  <2>1. CASE IsFairExplorationMode(p)
    BY <1>1, <1>3, <2>1 DEF Partial
  <2>2. CASE ~ IsFairExplorationMode(p)
    BY <1>1, <1>3, <2>2 DEF Partial
  <2> QED BY <2>1, <2>2
<1>6. ~ (SerialLauncher(f, q) = "watch" /\ TooRisky(f, q))
  BY <1>1, <1>2, NotTooRisky
<1>7. ~ (RiskScore(f, q, Reasons(f, q)) >= ResolveProfile(q).reject * Full)
  <2> DEFINE x == RiskScore(f, q, Reasons(f, q))
             y == RiskScore(f, p, Reasons(f, p))
             a == ResolveProfile(p).reject
             b == ResolveProfile(q).reject
  <2>1. x \in Nat /\ y \in Nat /\ x <= y
    BY <1>3, RiskMonotone DEF Loosens
  <2>2. a \in Nat /\ b \in Nat /\ a <= b
    BY ProfileTyped DEF Loosens
  <2>3. ~ (y >= a * 60)
    BY <1>1 DEF Full
  <2> HIDE DEF x, y, a, b
  <2>4. ~ (x >= b * 60)
    BY <2>1, <2>2, <2>3
  <2> QED BY <2>4 DEF x, b, Full
<1> QED BY <1>1, <1>2, <1>4, <1>5, <1>6, <1>7, AdmitsWhen

\* Where each mode of the ladder is no stricter than those before it, a token
\* that a mode admits is admitted by every looser mode, whatever the probes found
\* of it or missed (ProcessForMode and fair_dq.go).
THEOREM LooserModesKeepTokens == ASSUME LooserLadder PROVE MarketSpec => []LooserModesAdmit
<1>1. MarketInv => LooserModesAdmit
  <2> SUFFICES ASSUME MarketInv, step = GateAt,
                      NEW i \in DOMAIN ModeLadder, NEW j \in DOMAIN ModeLadder, i < j,
                      Admits(facts, ModeLadder[i])
               PROVE  Admits(facts, ModeLadder[j])
    BY DEF LooserModesAdmit, LooserAdmits
  <2>1. FactsOK(facts)
    BY Stages DEF MarketInv
  <2> DEFINE p == ModeLadder[i]
             q == ModeLadder[j]
  <2>2. /\ Loosens(p, q) /\ {p, q} \subseteq DOMAIN Profiles /\ q # "STRICT"
        /\ IsFairExplorationMode(p) => IsFairExplorationMode(q)
        /\ ResolveProfile(p).launches = 0 <=> ~ IsFairExplorationMode(p)
        /\ ResolveProfile(q).launches = 0 <=> ~ IsFairExplorationMode(q)
    BY LadderPair
  <2>3. Admits(facts, p)
    OBVIOUS
  <2> HIDE DEF p, q
  <2>4. Admits(facts, q)
    BY <2>1, <2>2, <2>3, LooserAdmitsToo
  <2> QED BY <2>4 DEF q
<1> QED BY <1>1, MarketInitOK, MarketStep, PTL DEF MarketSpec

-------------------------------------------------------------------------------
(* Baselines. *)

Windows == {w \in Seq(Readings) : Len(w) <= MaxLen}

\* A flush holds a copy of a window, and one of a key it is at when it has saved.
BaselinesInv ==
  /\ history \in [Keys -> Windows] /\ baselines \in [Keys -> Windows]
  /\ dirty \subseteq Keys
  /\ flushing \in [todo : SUBSET Keys, key : Keys \union {NoKey}, values : Windows, saved : BOOLEAN]
  /\ failures \in 0..BaselineFaults

LEMMA BaselineBounds ==
  /\ Keys \subseteq Nat /\ NoKey \notin Keys /\ MaxLen \in Nat \ {0}
  /\ BaselineFaults \in Nat
  /\ \A K \in Batches : K \subseteq Keys
<1>1. Keys \subseteq Nat
  BY BaselinesAssumption
<1>2. NoKey \notin Keys
  BY <1>1 DEF NoKey
<1> QED BY <1>1, <1>2, BaselinesAssumption

\* The window keeps its length, and nothing but values that were in it.
LEMMA TrailingOK ==
  ASSUME NEW S, NEW buf \in Seq(S)
  PROVE  Trailing(buf) \in Seq(S) /\ Len(Trailing(buf)) <= MaxLen
<1>1. CASE Len(buf) > MaxLen
  <2>1. /\ Len(buf) \in Nat /\ Len(buf) - MaxLen + 1 \in 1..Len(buf)
        /\ Len(buf) - MaxLen + 1 <= Len(buf) + 1
    BY <1>1, BaselineBounds, LenProperties
  <2>2. /\ SubSeq(buf, Len(buf) - MaxLen + 1, Len(buf)) \in Seq(S)
        /\ Len(SubSeq(buf, Len(buf) - MaxLen + 1, Len(buf))) = MaxLen
    BY <2>1, BaselineBounds, SubSeqProperties
  <2> QED BY <1>1, <2>2, BaselineBounds DEF Trailing
<1>2. CASE ~ (Len(buf) > MaxLen)
  BY <1>2, BaselineBounds, LenProperties DEF Trailing
<1> QED BY <1>1, <1>2

LEMMA EmptyWindow == <<>> \in Windows
BY EmptySeq, BaselineBounds DEF Windows

LEMMA BaselinesInitOK == BaselinesInit => BaselinesInv
BY EmptyWindow, BaselineBounds DEF BaselinesInit, BaselinesInv, NotFlushing

LEMMA BaselinesStep == BaselinesInv /\ [BaselinesNext]_baselinesVars => BaselinesInv'
<1> SUFFICES ASSUME BaselinesInv, [BaselinesNext]_baselinesVars PROVE BaselinesInv'
  OBVIOUS
<1>0. /\ Fault => failures' \in 0..BaselineFaults
      /\ NotFlushing \in [todo : SUBSET Keys, key : Keys \union {NoKey}, values : Windows, saved : BOOLEAN]
  BY EmptyWindow, BaselineBounds DEF Fault, BaselinesInv, NotFlushing
<1>1. ASSUME NEW K \in Batches, AppendBatch(K) PROVE BaselinesInv'
  <2>1. dirty' \subseteq Keys
    BY <1>1, BaselineBounds DEF AppendBatch, BaselinesInv
  <2>2. PICK r \in [K -> Readings] :
          history' = [k \in Keys |->
            IF k \in K THEN Trailing(Append(history[k], r[k])) ELSE history[k]]
    BY <1>1 DEF AppendBatch
  <2>3. ASSUME NEW k \in K PROVE Trailing(Append(history[k], r[k])) \in Windows
    <3>1. history[k] \in Seq(Readings) /\ r[k] \in Readings
      BY BaselineBounds DEF BaselinesInv, Windows
    <3>2. Append(history[k], r[k]) \in Seq(Readings)
      BY <3>1, AppendProperties
    <3> QED BY <3>2, TrailingOK DEF Windows
  <2>4. history' \in [Keys -> Windows]
    BY <2>2, <2>3 DEF BaselinesInv
  <2> QED BY <1>1, <2>1, <2>4 DEF AppendBatch, BaselinesInv
<1>2. CASE FlushBaselineCycle
  BY <1>0, <1>2 DEF FlushBaselineCycle, DirtyKeys, BaselinesInv, NotFlushing
<1>3. ASSUME NEW k \in Keys, Values(k) PROVE BaselinesInv'
  BY <1>3 DEF Values, BaselinesInv
<1>4. CASE SaveBaseline
  <2>1. /\ history' = history /\ dirty' = dirty
        /\ failures' \in 0..BaselineFaults
    BY <1>0, <1>4 DEF SaveBaseline, BaselinesInv
  <2>2. baselines' \in [Keys -> Windows]
    BY <1>4 DEF SaveBaseline, BaselinesInv
  <2>3. flushing' \in [todo : SUBSET Keys, key : Keys \union {NoKey}, values : Windows, saved : BOOLEAN]
    BY <1>0, <1>4 DEF SaveBaseline, BaselinesInv, NotFlushing
  <2> QED BY <2>1, <2>2, <2>3 DEF BaselinesInv
<1>5. CASE MarkClean
  BY <1>0, <1>5 DEF MarkClean, BaselinesInv, NotFlushing
<1>6. CASE BaselinesRestart
  <2>1. Hydrate \in [Keys -> Windows]
    BY TrailingOK DEF Hydrate, Windows, BaselinesInv
  <2>2. [k \in Keys |-> <<>>] \in [Keys -> Windows]
    BY EmptyWindow
  <2> QED BY <1>0, <1>6, <2>1, <2>2 DEF BaselinesRestart, BaselinesInv
<1>7. CASE UNCHANGED baselinesVars
  BY <1>7 DEF baselinesVars, BaselinesInv
<1> QED BY <1>1, <1>2, <1>3, <1>4, <1>5, <1>6, <1>7 DEF BaselinesNext, FlushStep

\* Every window, in memory, in the copy of the flush and in the table, holds at
\* most MaxLen values (RollingStore of features and edge).
THEOREM BaselinesTypeCorrect == BaselinesSpec => []BaselinesTypeOK
<1>1. BaselinesInv => BaselinesTypeOK
  BY DEF BaselinesInv, BaselinesTypeOK, Windows
<1> QED BY <1>1, BaselinesInitOK, BaselinesStep, PTL DEF BaselinesSpec

-------------------------------------------------------------------------------
(* The three of them. *)

LEMMA IntakeParts == IntakeSpec => IngestionSpec /\ MarketSpec /\ BaselinesSpec
<1>1. IntakeInit => IngestionInit /\ MarketInit /\ BaselinesInit
  BY DEF IntakeInit
<1>2. [IntakeNext]_intakeVars
        => /\ [IngestionNext]_ingestionVars
           /\ [MarketNext]_marketVars
           /\ [BaselinesNext]_baselinesVars
  BY DEF IntakeNext, intakeVars
<1> QED BY <1>1, <1>2, PTL DEF IntakeSpec, IngestionSpec, MarketSpec, BaselinesSpec

\* Whichever of the three runs, all variables keep their types.
THEOREM IntakeTypeCorrect == IntakeSpec => []IntakeTypeOK
<1>1. IngestionTypeOK /\ MarketTypeOK /\ BaselinesTypeOK => IntakeTypeOK
  BY DEF IntakeTypeOK
<1> QED BY <1>1, IntakeParts, IngestionTypeCorrect, MarketTypeCorrect, BaselinesTypeCorrect, PTL
=============================================================================
