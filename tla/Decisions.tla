------------------------------- MODULE Decisions -------------------------------
(***************************************************************************)
(* What the stages between the data quality and the selection decide of a  *)
(* token: its features, measured against the baselines of the tokens       *)
(* before it (internal/modules/features), the edge they make               *)
(* (internal/modules/edge), the estimates of probability and slippage      *)
(* (internal/modules/models), and the verdict on its expected value        *)
(* (internal/modules/validation), with the stage workers around them.      *)
(*                                                                         *)
(* Funnel.tla has the claims, the lifecycle and the events of the same     *)
(* stages; here a stage either ends or is delivered again, and the data    *)
(* decide.  A token stands for one market_data event of one market.        *)
(*                                                                         *)
(* Scores, confidences and probabilities are percentages.  Raw signals and *)
(* z-scores are tenths, slippage and expected value basis points, with     *)
(* Go's floating point rounded down.  Figures are those of the shipped     *)
(* configuration; MinSamples and MinBars are scaled down.  No token is     *)
(* older than two hours for the code, which records the age of a pool as   *)
(* one second or not at all: MOMENTUM_EDGE never qualifies and is left     *)
(* out, as is the latency gate, which passes every window.                 *)
(***************************************************************************)
EXTENDS Integers, Sequences, FiniteSetsExt, SequencesExt

CONSTANTS
  Tokens,         \* tokens on their way
  Past,           \* tokens that went before, with values in the baselines
  Kinds,          \* kinds of tokens
  About,          \* what is known of a token of a kind
  Hydrated,       \* contents of the baselines at the start: sequences over Past
  MinSamples,     \* values that make a baseline warm (20)
  MinBars,        \* values that can show a signal unstable (30)
  MaxMishaps   \* bound: failed statements and restarts

Signals == {"liquidity", "velocity", "holders", "entropy", "volume", "price"}
Unknown == -1000

\* What market_data and data_quality may say of a token.
Evidence == [origin  : {"birth", "graduation", "rescan"},
             usd     : Nat,                    \* liquidity
             raw     : [Signals -> Int],       \* Unknown, or the raw signal
             age     : Nat,                    \* PoolAgeSeconds, 0 when not known
             flags   : SUBSET {"honeypot", "tax", "rug", "fakeLiquidity", "wash", "unverified"},
             vouched : 0..4]                   \* facts that support the contract safety

ASSUME DecisionsAssumption ==
  /\ About \in [Kinds -> Evidence]
  /\ Hydrated \subseteq Seq(Past)
  /\ {"nothing", "blind"} \cap (Tokens \union Past) = {}
  /\ {MinSamples, MinBars} \subseteq Nat \ {0} /\ MaxMishaps \in Nat

VARIABLES
  kind,       \* the kind of every token
  baseline,   \* whose values the baselines of the market hold, oldest first
  stage,      \* how far a token is
  snapshot,   \* the baselines its feature extraction read, or Blind
  routed,     \* the snapshot behind the features that the estimates are made from
  emitted,    \* the snapshot behind the features that the edge is made from
  estimated,  \* the tokens with a row of probability
  mishaps     \* bounded counter

decisionsVars ==
  <<kind, baseline, stage, snapshot, routed, emitted, estimated, mishaps>>

OperationalModes == {"STRICT", "BALANCED", "EXPLORATION", "VERY_EXPLORATION", "DEGRADED", "HALTED"}
DecisionStages == {"screened", "recorded", "routed", "featured", "detected",
                   "rejected", "accepted"}

\* No features, and features of a token whose market data could not be read.
Nothing == <<"nothing">>
Blind   == <<"blind">>

Snapshots == Seq(Tokens \union Past) \union {Nothing, Blind}

DecisionsTypeOK ==
  /\ kind \in [Tokens \union Past -> Kinds]
  /\ baseline \in Seq(Tokens \union Past)
  /\ stage \in [Tokens -> DecisionStages]
  /\ \A run \in {snapshot, routed, emitted} : run \in [Tokens -> Snapshots]
  /\ estimated \subseteq Tokens
  /\ mishaps \in 0..MaxMishaps

DecisionsInit ==
  /\ kind \in [Tokens \union Past -> Kinds]
  /\ baseline \in Hydrated
  /\ stage = [t \in Tokens |-> "screened"]
  /\ snapshot = [t \in Tokens |-> Nothing]
  /\ routed = [t \in Tokens |-> Nothing]
  /\ emitted = [t \in Tokens |-> Nothing]
  /\ estimated = {}
  /\ mishaps = 0

-------------------------------------------------------------------------------
(* Normalisation. *)

\* What is known of token t.
Of(t) == About[kind[t]]

\* The values of signal s in a snapshot: those that were known.
HistoryFor(run, s) ==
  LET known[i \in 0..Len(run)] ==
        IF i = 0 THEN <<>>
        ELSE IF Of(run[i]).raw[s] = Unknown THEN known[i - 1]
        ELSE Append(known[i - 1], Of(run[i]).raw[s])
  IN known[Len(run)]

Total(values) ==
  LET sum[i \in 0..Len(values)] == IF i = 0 THEN 0 ELSE sum[i - 1] + values[i]
  IN sum[Len(values)]

Mean(values) == Total(values) \div Len(values)

\* The standard deviation, rounded down; below one tenth it counts as floored.
Sigma(values) ==
  LET mean == Mean(values)
      variance == Total([i \in DOMAIN values |-> (values[i] - mean) * (values[i] - mean)])
                    \div Len(values)
  IN CHOOSE s \in 0..variance : s * s <= variance /\ (s + 1) * (s + 1) > variance

\* NormalizeSignalVariance: a floored sigma makes every difference huge.
ZScore(raw, values) ==
  LET distance == raw - Mean(values)
  IN IF Sigma(values) = 0 THEN 1000000 * distance ELSE (10 * distance) \div Sigma(values)

\* The logistic function, in steps.  (SigmoidNormalize, remapped to [0, 1], and
\* the sigmoid of the probability model.)
Rise == {<<0, 50>>, <<2, 55>>, <<5, 62>>, <<10, 73>>, <<15, 82>>, <<20, 88>>, <<30, 95>>, <<45, 99>>,
         <<60, 100>>}
Logistic(z) ==
  LET far == IF z < 0 THEN -z ELSE z
      up  == Max({point[2] : point \in {p \in Rise : p[1] <= far}})
  IN IF z < 0 THEN 100 - up ELSE up

\* What NormalizeSignal compresses: the raw value of the first token, its
\* distance from the mean of a cold baseline, its z-score on a warm one.
Compressed(raw, values) ==
  CASE values = <<>>                        -> raw
    [] Len(values) \in 1..(MinSamples - 1) -> raw - Mean(values)
    [] OTHER                                -> ZScore(raw, values)

\* Slip: a cold baseline counts for nothing.
NormalizeSignalCold(raw, values) ==
  Logistic(IF Len(values) < MinSamples THEN raw ELSE ZScore(raw, values))

NormalizeSignal(raw, values) == Logistic(Compressed(raw, values))

\* ln(1 + usd), in steps that tell the sizes of the instances apart.
RawLiquidity(usd) ==
  LET steps == {<<0, 0>>, <<1000, 69>>, <<4000, 83>>, <<4500, 84>>, <<5000, 85>>, <<8000, 90>>,
                <<9900, 92>>, <<30000, 103>>}
  IN Max({step[2] : step \in {s \in steps : s[1] <= usd}})

Anchor == 4500   \* the 30 SOL of a bonding curve, in USD

\* isVirtualBirthLiquidity: within 5% of the anchor.
IsVirtualBirthLiquidity(usd) == 20 * usd \in 19 * Anchor .. 21 * Anchor

\* shouldUseAbsoluteLiquidityScoring
AbsoluteScoring(e) == e.origin # "birth" \/ ~IsVirtualBirthLiquidity(e.usd)

\* absoluteLiquidityUnitScore: 0.52 at the anchor.
AbsoluteLiquidityScore(usd) ==
  IF usd = 0 THEN 0
  ELSE 52 + (35 * (RawLiquidity(usd) - RawLiquidity(Anchor))) \div RawLiquidity(Anchor)

\* normalizeLiquidityScore: a birth is capped at the score the edge asks for.
LiquidityScore(e, values) ==
  IF AbsoluteScoring(e)
  THEN AbsoluteLiquidityScore(e.usd)
  ELSE Min({55, NormalizeSignal(e.raw["liquidity"], values)})

\* The log return against the mean price so far, by its sign.  It is measured
\* against the history of the prices, next to which it is huge: on a warm
\* baseline the score is all or nothing.
PriceScore(price, values) ==
  LET return == IF price = Unknown \/ values = <<>> THEN 0
                ELSE CASE price > Mean(values) -> 7
                       [] price < Mean(values) -> -7
                       [] OTHER                -> 0
  IN IF Len(values) < MinSamples THEN Logistic(return)
     ELSE IF return > 0 THEN 100 ELSE 0

Known(raw) == IF raw = Unknown THEN 0 ELSE raw

Score(e, s, values) ==
  CASE s = "liquidity" -> LiquidityScore(e, values)
    [] s = "price"     -> PriceScore(e.raw[s], values)
    [] OTHER           -> NormalizeSignal(Known(e.raw[s]), values)

\* The flags of the data quality damp a score after the normalisation.
Suppressed(e, s, score) ==
  CASE s = "entropy" /\ "wash" \in e.flags                   -> (3 * score) \div 10
    [] s = "volume" /\ "fakeLiquidity" \in e.flags           -> score \div 5
    [] s = "price" /\ e.flags \intersect {"honeypot", "tax"} # {} -> score \div 10
    [] OTHER                                                 -> score

\* computeContractSafety (the bonus of a known lock is left out).
ContractSafety(e) ==
  Max({0, 100 - (IF "honeypot" \in e.flags THEN 50 ELSE 0) - (IF "rug" \in e.flags THEN 30 ELSE 0)
              - (IF "fakeLiquidity" \in e.flags THEN 20 ELSE 0)
              - (IF "unverified" \in e.flags THEN 10 ELSE 0)})

\* scoreTokenAge
AgeScore(age) ==
  CASE age = 0     -> 0
    [] age \in 1..29   -> 20
    [] age \in 30..300 -> 100
    [] OTHER       -> Max({60, 100 - (40 * (age - 300)) \div 900})

-------------------------------------------------------------------------------
(* Confidence. *)

\* deriveConfidence: of a signal that was known or not, with n values to
\* measure it against; what was never known has none.
DeriveConfidence(known, n, rough) ==
  IF ~known /\ n = 0 THEN 0
  ELSE (IF known THEN 40 ELSE 0) + (50 * Min({n, MinSamples})) \div MinSamples
         + (IF rough THEN 6 ELSE 10)

\* The sigmoid was clamped, or sigma floored.
Rough(raw, values) ==
  \/ Compressed(raw, values) \notin -100..100
  \/ values # <<>> /\ Sigma(values) = 0

\* Slip: an age that is not known counts as absent, like the other signals.
AgeConfidenceAbsent(age) == IF age = 0 THEN 0 ELSE 95

\* deriveTokenAgeConfidence
AgeConfidence(age) == IF age = 0 THEN 10 ELSE 95

\* The confidences before the stability gate.
DerivedConfidence(e, run) ==
  [c \in Signals \union {"safety", "age"} |->
     CASE c = "safety" -> Min({100, 40 + 15 * e.vouched})
       [] c = "age"    -> AgeConfidence(e.age)
       [] c = "liquidity" /\ AbsoluteScoring(e) -> DeriveConfidence(e.usd > 0, 0, FALSE)
       [] OTHER        -> LET values == HistoryFor(run, c)
                          IN DeriveConfidence(e.raw[c] # Unknown, Len(values),
                                              Rough(Known(e.raw[c]), values))]

\* CheckFeatureStability: three moves in five go the same way.
Stable(values) ==
  LET ups   == Cardinality({i \in 2..Len(values) : values[i] > values[i - 1]})
      downs == Cardinality({i \in 2..Len(values) : values[i] < values[i - 1]})
  IN Len(values) < MinBars \/ 5 * Max({ups, downs}) >= 3 * (ups + downs)

Unstable(run) == {s \in Signals : ~Stable(HistoryFor(run, s))}

SumOf(weight, channels) == FoldSet(LAMBDA c, sum : weight[c] + sum, 0, channels)

\* RedistributeWeights: the confidence of the unstable signals goes to the
\* others, in proportion.
Redistribute(weight, out) ==
  LET freed == SumOf(weight, out)
      kept  == SumOf(weight, DOMAIN weight \ out)
  IN [c \in DOMAIN weight |->
        IF c \in out THEN 0
        ELSE IF kept = 0 \/ out = {} THEN weight[c]
        ELSE Min({100, weight[c] + (freed * weight[c]) \div kept})]

\* minFeatureConfidence: what is zero does not count.
ModelConfidence(confidence) ==
  LET given == {confidence[c] : c \in DOMAIN confidence} \ {0}
  IN IF given = {} THEN 0 ELSE Min(given)

\* ProcessWithContext of features: FeatureDTO, for token t and a snapshot.
\* (When the market data cannot be read nothing is known, not even the origin.)
Features(t, read) ==
  LET e   == IF read = Blind
             THEN [Of(t) EXCEPT !.origin = "birth", !.usd = 0, !.age = 0,
                                      !.raw = [s \in Signals |-> Unknown]]
             ELSE Of(t)
      run == IF read = Blind THEN <<>> ELSE read
  IN [origin     |-> e.origin,
      usd        |-> e.usd,
      score      |-> [s \in Signals |-> Suppressed(e, s, Score(e, s, HistoryFor(run, s)))],
      safety     |-> ContractSafety(e),
      age        |-> AgeScore(e.age),
      confidence |-> ModelConfidence(Redistribute(DerivedConfidence(e, run), Unstable(run)))]

-------------------------------------------------------------------------------
(* The thresholds of the modes.  system_state.mode may be another at every   *)
(* read (SystemControl.tla), and BALANCED, the active_mode of the           *)
(* configuration, when the read fails: each stage reads any mode.           *)

\* ResolveModeThresholds: what is not a mode of the appetite is STRICT.
EdgeStrengthMin(m) ==
  CASE m = "VERY_EXPLORATION" -> 30
    [] m = "EXPLORATION"      -> 45
    [] m = "BALANCED"         -> 58
    [] OTHER                  -> 75

EvThresholdBps(m) ==
  CASE m = "VERY_EXPLORATION" -> 30
    [] m = "EXPLORATION"      -> 60
    [] m = "BALANCED"         -> 100
    [] OTHER                  -> 150

-------------------------------------------------------------------------------
(* The edge. *)

\* detectGraduation
GraduationStrengths(f) ==
  IF f.origin = "graduation" /\ f.usd >= 3000 /\ f.score["liquidity"] >= 55
  THEN {(5 * f.score["liquidity"] + 3 * f.safety + 2 * f.score["holders"]) \div 10}
  ELSE {}

\* detectNewLaunch, for pools that are one second old or of no known age.
LaunchStrengths(f) ==
  IF f.score["liquidity"] >= 55 /\ f.score["velocity"] >= 30
  THEN {(4 * f.score["liquidity"] + 3 * f.safety + 2 * f.score["holders"] + f.score["entropy"]) \div 10}
  ELSE {}

\* effectiveStrengthFloor: two points less for graduations and rescans.
StrengthFloor(f, m) ==
  IF f.origin = "birth" THEN EdgeStrengthMin(m) ELSE Max({30, EdgeStrengthMin(m) - 2})

\* ProcessWithContext of edge: the strongest candidate, if it reaches the floor.
EdgeDetected(f, m) ==
  \E strength \in GraduationStrengths(f) \union LaunchStrengths(f) : strength >= StrengthFloor(f, m)

-------------------------------------------------------------------------------
(* The estimates and the expected value. *)

\* Predict: the logistic regression, clipped.
Predict(f) ==
  LET z == -5 + (15 * f.score["liquidity"] + 8 * f.score["velocity"] + 6 * f.score["holders"]
                 + 4 * f.score["entropy"] + 12 * f.safety - 5 * f.age
                 + 7 * f.score["volume"] + 5 * f.score["price"]) \div 100
  IN Max({5, Min({95, Logistic(z)})})

\* estimate of slippage, for five dollars: half the liquidity is the reserve,
\* and a low score or a moving price widens the tail.  (The alpha of the market
\* is 1: see the README.)
SlippageP95(f) ==
  LET reserve == Max({1, f.usd \div 2})
      p50   == Min({5000, 50000 \div (reserve + 5)})
      moved == 2 * f.score["price"] - 100
      sigma == Min({100, 100 - f.score["liquidity"] + (IF moved < 0 THEN -moved ELSE moved) \div 2})
  IN Min({5000, p50 + (165 * p50 * sigma) \div 10000 + 25})

ExpectedValue(p, slippage) == 30 * p - 40 * (100 - p) - 150 - slippage

PriorProbability   == 35
PriorSlippageBps   == 200
MinModelConfidence == 35

\* The probability that ProcessWithEstimatesAt uses: the prior when the model
\* is not confident.
ProbabilityUsed(f) ==
  IF f.confidence \in 1..(MinModelConfidence - 1) THEN PriorProbability ELSE Predict(f)

\* The slippage that it uses: the prior when that row has not joined.
SlippagesUsed(f) == {SlippageP95(f), PriorSlippageBps}

\* ProcessWithEstimatesAt, for a token whose probability has joined.
Accepts(f, slippage, m) == ExpectedValue(ProbabilityUsed(f), slippage) >= EvThresholdBps(m)

-------------------------------------------------------------------------------
(* The stage of the features. *)

Enters(t, s) == stage' = [stage EXCEPT ![t] = s]

Mishap ==
  /\ mishaps < MaxMishaps
  /\ mishaps' = mishaps + 1

\* The one goroutine of the stage has no other token in hand.
Idle == \A t \in Tokens : stage[t] \notin {"recorded", "routed"}

\* fetchMarketSnapshot, Snapshot of the baselines, the features, and then
\* AppendBatch of the raw signals.
Extract(t) ==
  /\ Idle
  /\ stage[t] = "screened"
  /\ snapshot' = [snapshot EXCEPT ![t] = baseline]
  /\ baseline' = Append(baseline, t)
  /\ Enters(t, "recorded")
  /\ UNCHANGED <<kind, routed, emitted, estimated, mishaps>>

\* The market data cannot be read: the stage goes on with an empty snapshot.
ExtractBlind(t) ==
  /\ Idle
  /\ stage[t] = "screened"
  /\ Mishap
  /\ snapshot' = [snapshot EXCEPT ![t] = Blind]
  /\ Enters(t, "recorded")
  /\ UNCHANGED <<kind, baseline, routed, emitted, estimated>>

\* InsertEvent of the two routing events, taken as one statement: the first run
\* to insert them stays.
Route(t) ==
  /\ stage[t] = "recorded"
  /\ routed' = [routed EXCEPT ![t] = IF @ = Nothing THEN snapshot[t] ELSE @]
  /\ Enters(t, "routed")
  /\ UNCHANGED <<kind, baseline, snapshot, emitted, estimated, mishaps>>

\* The transition to FEATURE_READY, and the feature_event.
Emit(t) ==
  /\ stage[t] = "routed"
  /\ emitted' = [emitted EXCEPT ![t] = snapshot[t]]
  /\ snapshot' = [snapshot EXCEPT ![t] = Nothing]
  /\ Enters(t, "featured")
  /\ UNCHANGED <<kind, baseline, routed, estimated, mishaps>>

\* A statement of the stage fails: the event is delivered again.
ExtractionFails(t) ==
  /\ stage[t] \in {"recorded", "routed"}
  /\ Mishap
  /\ snapshot' = [snapshot EXCEPT ![t] = Nothing]
  /\ Enters(t, "screened")
  /\ UNCHANGED <<kind, baseline, routed, emitted, estimated>>

-------------------------------------------------------------------------------
(* The other stages. *)

\* The probability worker scores the routed features. (The slippage worker does so
\* beside it: its row is there or not when the two are joined.)
Estimate(t) ==
  /\ routed[t] # Nothing
  /\ t \notin estimated
  /\ estimated' = estimated \union {t}
  /\ UNCHANGED <<kind, baseline, stage, snapshot, routed, emitted, mishaps>>

\* EdgeWorker.Process
Detect(t) ==
  /\ stage[t] = "featured"
  /\ LET f == Features(t, emitted[t])
     IN \E m \in OperationalModes : Enters(t, IF EdgeDetected(f, m) THEN "detected" ELSE "rejected")
  /\ UNCHANGED <<kind, baseline, snapshot, routed, emitted, estimated, mishaps>>

\* ValidationWorker.Process: on the probability, if it is there, and the slippage.
Validate(t) ==
  /\ stage[t] = "detected"
  /\ t \in estimated
  /\ LET f == Features(t, routed[t])
     IN \E m \in OperationalModes, slippage \in SlippagesUsed(f) :
          Enters(t, IF Accepts(f, slippage, m) THEN "accepted" ELSE "rejected")
  /\ UNCHANGED <<kind, baseline, snapshot, routed, emitted, estimated, mishaps>>

\* The join times out: probability_unavailable.
JoinTimesOut(t) ==
  /\ stage[t] = "detected"
  /\ t \notin estimated
  /\ Enters(t, "rejected")
  /\ UNCHANGED <<kind, baseline, snapshot, routed, emitted, estimated, mishaps>>

-------------------------------------------------------------------------------
(* The environment. *)

\* The process restarts: the baselines hold what had been flushed
\* (Baselines.tla), the stage begins again.
RestartStages ==
  /\ Mishap
  /\ \E n \in 0..Len(baseline) : baseline' = SubSeq(baseline, 1, n)
  /\ stage' = [t \in Tokens |->
                 IF stage[t] \in {"recorded", "routed"} THEN "screened" ELSE stage[t]]
  /\ snapshot' = [t \in Tokens |-> Nothing]
  /\ UNCHANGED <<kind, routed, emitted, estimated>>

DecisionsNext ==
  \/ \E t \in Tokens :
       \/ Extract(t) \/ ExtractBlind(t) \/ Route(t) \/ Emit(t) \/ ExtractionFails(t)
       \/ Estimate(t) \/ Detect(t) \/ Validate(t) \/ JoinTimesOut(t)
  \/ RestartStages

DecisionsSpec == DecisionsInit /\ [][DecisionsNext]_decisionsVars

-------------------------------------------------------------------------------
(* Properties. *)

\* A birth stays blocked by the births before it: the edge is made of a token
\* with nothing but the virtual liquidity only if it was the first that its
\* baseline saw or stood above the mean of it, whatever was retried, lost or
\* measured at the same time.
BirthBlockedByPeers ==
  \A t \in Tokens :
    stage[t] \in {"detected", "accepted"} /\ emitted[t] # Blind /\ ~AbsoluteScoring(Of(t)) =>
      LET peers == HistoryFor(emitted[t], "liquidity")
      IN peers = <<>> \/ Mean(peers) < Of(t).raw["liquidity"]

\* A token whose age is not known, as no graduation's is, is never bought on
\* stable signals: its confidence of 0.1 is replaced by the prior, which no
\* mode accepts.  Only unstable signals lend it the confidence they lose.
UnknownAgeNeedsInstability ==
  \A t \in Tokens :
    stage[t] = "accepted" /\ Of(t).age = 0 => Unstable(routed[t]) # {}
================================================================================
