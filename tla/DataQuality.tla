---------------------------- MODULE DataQuality ----------------------------
(***************************************************************************)
(* What data quality makes of a token: the pure part of the stage          *)
(* (modules/data_quality: data_quality.go, decision.go, fair_dq.go,        *)
(* serial_launcher_momentum.go, the six detectors, providers/*.go).        *)
(*                                                                         *)
(* A fact that no probe has found is Unknown; the code keeps a flag beside *)
(* each of them.  Scores are parts of Full, weights and thresholds are     *)
(* percents, so that a risk is a number of hundredths of parts.            *)
(* Left out is what the bot does not use as shipped: the reader of creator *)
(* profiles, which nothing attaches; the switches of the rejects of unknown *)
(* facts, which are on; the filters by capitalisation and volume, which no  *)
(* probe that runs fills.                                                  *)
(***************************************************************************)
EXTENDS Integers, FiniteSets, Functions

CONSTANTS
  Unknown,
  Profiles,    \* mode_profiles, by mode
  Weights,     \* risk_weights, by detector
  Limits       \* detectors, thresholds, failure_policy and providers

\* The figures of the configuration are counts, percents and amounts.
ASSUME DataQualityAssumption ==
  /\ "STRICT" \in DOMAIN Profiles
  /\ \A mode \in DOMAIN Profiles :
       LET p == Profiles[mode]
       IN  /\ {p.reject, p.risky, p.unknown, p.launches, p.risk, p.holders} \subseteq Nat
           /\ {p.momentum.holders, p.momentum.share, p.momentum.liquidity, p.momentum.risk} \subseteq Nat
           /\ p.minAge \in Int
  /\ \A d \in {"honeypot", "rug", "wash", "liquidity", "tax", "dev"} : Weights[d] \in Nat
  /\ {Limits.concentration, Limits.liquidity} \subseteq Nat \ {0}
  /\ {Limits.launches, Limits.noSocial, Limits.supply, Limits.holders, Limits.age} \subseteq Nat
  /\ Limits.externalWeight \in 0..100

Full == 60
Detectors == {"honeypot", "rug", "wash", "liquidity", "tax", "dev"}
ModeLadder == <<"STRICT", "BALANCED", "EXPLORATION", "VERY_EXPLORATION">>

Known(x) == x # Unknown
Capped(x, cap) == IF x > cap THEN cap ELSE x
SumOf(f) == FoldFunction(LAMBDA a, b : a + b, 0, f)

-------------------------------------------------------------------------------
(* Profiles. *)

\* A mode without a profile, such as HALTED, is judged as STRICT.
ResolveProfile(mode) == Profiles[IF mode \in DOMAIN Profiles THEN mode ELSE "STRICT"]

IsFairExplorationMode(mode) == mode \in {"EXPLORATION", "VERY_EXPLORATION"}

\* effectiveSerialLauncherProfile: a shadow run may waive the gates of a profile.
Waived(mode) == ResolveProfile(mode).shadowProof /\ Limits.shadowMode

-------------------------------------------------------------------------------
(* Detectors: a score, or Unknown. One that is disabled scores nothing. *)

DetectHoneypot(m) ==
  IF ~ Known(m.sim) THEN Unknown ELSE IF m.sim = "sells" THEN 0 ELSE Full

\* The mean of the known signals: the lock, what an owner may do, the holders.
DetectRugPull(m) ==
  LET lock == IF Known(m.lock) THEN {<<"lock", Full - (m.lock * Full) \div 100>>} ELSE {}
      auth == IF ~ Known(m.authorities) THEN 0
              ELSE (IF m.authorities.mint THEN 0 ELSE 24) + (IF m.authorities.freeze THEN 0 ELSE 18)
      owner == IF Known(m.privileges) \/ Known(m.authorities)
               THEN {<<"owner", Capped((IF Known(m.privileges) THEN m.privileges ELSE 0) + auth, Full)>>}
               ELSE {}
      dist == IF Known(m.dist)
              THEN {<<"dist", Capped((m.dist.share * Full) \div Limits.concentration, Full)>>} ELSE {}
      signals == lock \union owner \union dist
  IN  IF signals = {} THEN Unknown
      ELSE SumOf([s \in signals |-> s[2]]) \div Cardinality(signals)

\* What wash_trading_dto.go makes of the trades of a minute is left open.
DetectWashTrading(m) == m.wash

\* The mean of churn, of a single provider and of thin depth. No depth at all
\* does not count as thin.
DetectFakeLiquidity(m) ==
  IF ~ Known(m.liquidity) THEN Unknown
  ELSE LET thin == IF m.liquidity > 0 /\ m.liquidity < Limits.liquidity
                   THEN Full - (m.liquidity * Full) \div Limits.liquidity ELSE 0
       IN  (m.churn + m.provider + thin) \div 3

DetectTaxManipulation(m) == m.tax

\* The mean of launches and social links; nothing known is the highest risk.
DetectDevReputation(m) ==
  LET launch == IF Known(m.launches)
                THEN {<<"launch", IF m.launches >= Limits.launches THEN Full ELSE 0>>} ELSE {}
      social == IF Known(m.social)
                THEN {<<"social", IF m.social THEN 0 ELSE (Limits.noSocial * Full) \div 100>>} ELSE {}
      signals == launch \union social
  IN  IF signals = {} THEN Full
      ELSE SumOf([s \in signals |-> s[2]]) \div Cardinality(signals)

Detect(d, m) ==
  IF d \notin Limits.detectors THEN 0
  ELSE CASE d = "honeypot"  -> DetectHoneypot(m)
         [] d = "rug"       -> DetectRugPull(m)
         [] d = "wash"      -> DetectWashTrading(m)
         [] d = "liquidity" -> DetectFakeLiquidity(m)
         [] d = "tax"       -> DetectTaxManipulation(m)
         [] d = "dev"       -> DetectDevReputation(m)

\* weightedDetector and applyUnknownContribution
WeightedDetector(d, m, mode) ==
  LET score == Detect(d, m)
  IN  IF Known(score) THEN Capped(score, Full) * Weights[d]
      ELSE (Full * Weights[d] * ResolveProfile(mode).unknown) \div 100

DetectorRisk(m, mode) ==
  Capped(SumOf([d \in Detectors |-> WeightedDetector(d, m, mode)]), 100 * Full)

\* Aggregator.Evaluate: the weighted mean of the providers that answered in full.
EvaluateProviders(signals) ==
  LET counted == {s \in signals : ~ s.degraded /\ ~ s.shadow}
  IN  IF counted = {} THEN 0
      ELSE SumOf([s \in counted |-> s.weight * s.score]) \div SumOf([s \in counted |-> s.weight])

\* Providers are asked only about a token that nothing rejects, and count only
\* outside shadow mode. When none answers their score is zero.
RiskScore(m, mode, reasons) ==
  LET w == Limits.externalWeight
  IN  IF reasons # {} \/ Limits.shadowMode \/ w = 0 THEN DetectorRisk(m, mode)
      ELSE ((100 - w) * DetectorRisk(m, mode)) \div 100 + w * EvaluateProviders(m.external)

-------------------------------------------------------------------------------
(* Structural rejects. *)

\* isLaunchExemptReserve
LaunchExempt(m) == m.topic \in {"PumpFunCreate", "PumpFunAMMCreatePool"}

Fails(holds) == {r \in DOMAIN holds : holds[r]}

MinAge(mode) ==
  LET own == ResolveProfile(mode).minAge
  IN  IF own < 0 THEN 0 ELSE IF own > 0 THEN own ELSE Limits.age

StructuralReasons(m, mode) == Fails(
  [missing_reserves |-> ~ LaunchExempt(m) /\ m.reserves \in {Unknown, 0},
   insufficient_liquidity |-> ~ LaunchExempt(m) /\ Known(m.reserves)
                              /\ m.reserves \in 1..(Limits.reserves - 1),
   reorged_event |-> m.reorged,
   bonding_curve_too_advanced |-> Limits.curve > 0 /\ m.curve > Limits.curve,
   high_total_supply |-> Limits.supply > 0 /\ Known(m.supply) /\ m.supply > Limits.supply,
   unknown_total_supply |-> Limits.supply > 0 /\ ~ Known(m.supply),
   no_social_links |-> Known(m.social) /\ ~ m.social,
   unknown_social_links |-> ~ Known(m.social),
   duplicate_name |-> m.duplicate,
   copycat_name |-> m.copycat,
   insufficient_holders |-> ~ LaunchExempt(m) /\ Known(m.dist) /\ m.dist.count < Limits.holders,
   unknown_holder_count |-> ~ LaunchExempt(m) /\ ~ Known(m.dist),
   token_too_young |-> Known(m.age) /\ m.age < MinAge(mode)])

NarrativeReasons(m) ==
  IF ~ Known(m.narrative) THEN {}
  ELSE Fails([ai_copy_paste_desc |-> m.narrative.copied /\ m.narrative.score < Limits.narrative,
              ai_impersonation |-> m.narrative.impersonates])

\* Slip: of the exploring modes, only the first is spared.
IndeterminateReasonsSpareOne(m, mode) ==
  LET blind == {d \in Detectors : ~ Known(Detect(d, m))}
  IN  IF /\ Limits.indeterminate > 0 /\ Cardinality(blind) >= Limits.indeterminate
         /\ mode # "EXPLORATION"
      THEN {"too_many_indeterminate_detectors"} ELSE {}

\* Too many detectors without data are a reason in STRICT alone.
IndeterminateReasons(m, mode) ==
  LET blind == {d \in Detectors : ~ Known(Detect(d, m))}
  IN  IF /\ Limits.indeterminate > 0 /\ Cardinality(blind) >= Limits.indeterminate
         /\ mode \notin DOMAIN Profiles \ {"STRICT"}
      THEN {"too_many_indeterminate_detectors"} ELSE {}

-------------------------------------------------------------------------------
(* Creators of many tokens. *)

\* evaluateMomentumOverride
EvaluateMomentumOverride(m, mode) ==
  LET o == ResolveProfile(mode).momentum
  IN /\ o.enabled
     /\ Known(m.dist) /\ m.dist.count >= o.holders /\ m.dist.share <= o.share
     /\ Known(m.authorities) /\ m.authorities.mint /\ m.authorities.freeze
     /\ Known(m.liquidity) /\ m.liquidity >= o.liquidity

\* The gates that do not depend on the risk.
QualityGates(m, mode) ==
  LET p == ResolveProfile(mode)
  IN  \/ Waived(mode)
      \/ /\ p.social => Known(m.social) /\ m.social
         /\ p.holders = 0 \/ (Known(m.dist) /\ m.dist.count >= p.holders)

\* A mode without a limit of its own rejects at the common one, and rejects whom
\* it does not know; the others watch or skip.
LaunchLimit(mode) ==
  LET own == ResolveProfile(mode).launches IN IF own = 0 THEN Limits.launches ELSE own

SerialLauncher(m, mode) ==
  LET own == ResolveProfile(mode).launches
      n == m.launches
  IN  IF Limits.launches = 0 \/ (Known(n) /\ n < LaunchLimit(mode)) THEN "clear"
      ELSE IF own = 0 THEN IF Known(n) THEN "serial_launcher" ELSE "unknown_creator_count"
      ELSE IF Known(n) /\ (QualityGates(m, mode) \/ EvaluateMomentumOverride(m, mode))
      THEN "watch" ELSE "skip"

\* A token that is watched has a limit on its risk as well.
MaxRisk(mode) ==
  LET p == ResolveProfile(mode)
  IN  IF p.momentum.enabled /\ p.momentum.risk > 0 THEN p.momentum.risk ELSE p.risk

-------------------------------------------------------------------------------
(* The verdict. *)

Reasons(m, mode) ==
  LET serial == SerialLauncher(m, mode)
  IN  StructuralReasons(m, mode) \union NarrativeReasons(m)
        \union ({serial} \ {"clear", "watch", "skip"})

\* applyNoSocialMonitoring: a token known in every other respect may go without
\* links.
NoSocialMonitored(m, mode) ==
  /\ ResolveProfile(mode).noSocial /\ IsFairExplorationMode(mode)
  /\ Known(m.social) /\ ~ m.social
  /\ m.address => Known(m.launches)
  /\ Limits.supply > 0 => Known(m.supply)
  /\ Limits.holders > 0 /\ m.topic # "PumpFunCreate" => Known(m.dist)

\* What a probe may still find.
PartialReasons(m) ==
  {"unknown_social_links", "unknown_creator_count", "unknown_total_supply"}
    \union (IF LaunchExempt(m) THEN {} ELSE {"unknown_holder_count"})

ShouldProbePartialRiskyPass(m) ==
  \/ Known(m.liquidity) /\ m.liquidity >= 5000
  \/ Known(m.authorities) /\ m.authorities.mint /\ m.authorities.freeze

MakeDecision(risk, profile) ==
  IF risk >= profile.reject * Full THEN "REJECT"
  ELSE IF risk >= profile.risky * Full THEN "RISKY_PASS" ELSE "PASS"

\* ProcessForMode. A skip comes before a reject, that of a honeypot included.
ProcessForMode(m, mode) ==
  LET serial == SerialLauncher(m, mode)
      risk == RiskScore(m, mode, Reasons(m, mode))
      found == (Reasons(m, mode) \union IndeterminateReasons(m, mode))
                 \ (IF NoSocialMonitored(m, mode) THEN {"no_social_links"} ELSE {})
      partial == IF IsFairExplorationMode(mode) THEN found \intersect PartialReasons(m) ELSE {}
      reasons == found \ partial
      decision == MakeDecision(risk, ResolveProfile(mode))
  IN  IF \/ serial = "skip"
         \/ /\ serial = "watch" /\ MaxRisk(mode) > 0
            /\ DetectorRisk(m, mode) >= MaxRisk(mode) * Full
         \/ partial # {} /\ reasons = {} /\ ~ ShouldProbePartialRiskyPass(m)
      THEN "SKIP"
      ELSE IF reasons # {} \/ Detect("honeypot", m) = Full
      THEN "REJECT"
      ELSE IF serial = "watch" /\ decision = "PASS" THEN "RISKY_PASS" ELSE decision

Admits(m, mode) == ProcessForMode(m, mode) \in {"PASS", "RISKY_PASS"}

-------------------------------------------------------------------------------
(* Of the configuration. *)

\* The limit on launches is one, supply has a limit, and the modes that do not
\* explore share the common limit.
StrictLimits ==
  /\ Limits.launches = 1 /\ Limits.supply > 0
  /\ \A mode \in DOMAIN Profiles : ~ IsFairExplorationMode(mode) => Profiles[mode].launches = 0

\* No threshold of the mode q is above that of the mode p, and what an exploring
\* mode asks of the creator of many tokens, q does not ask more of.
Loosens(p, q) ==
  LET a == ResolveProfile(p)
      b == ResolveProfile(q)
  IN  /\ a.reject <= b.reject /\ b.unknown <= a.unknown
      /\ MinAge(q) <= MinAge(p) /\ LaunchLimit(p) <= LaunchLimit(q)
      /\ IsFairExplorationMode(p) =>
           /\ MaxRisk(q) = 0 \/ (MaxRisk(p) > 0 /\ MaxRisk(p) <= MaxRisk(q))
           /\ a.noSocial => b.noSocial
           /\ Waived(p) => Waived(q)
           /\ b.social => a.social
           /\ b.holders = 0 \/ (a.holders > 0 /\ b.holders <= a.holders)
           /\ a.momentum.enabled =>
                /\ b.momentum.enabled
                /\ b.momentum.holders <= a.momentum.holders
                /\ a.momentum.share <= b.momentum.share
                /\ b.momentum.liquidity <= a.momentum.liquidity

\* The modes of the ladder have profiles, the exploring ones with a limit of their
\* own, each no stricter than those before it.
LooserLadder ==
  /\ \A mode \in Range(ModeLadder) :
       mode \in DOMAIN Profiles /\ (Profiles[mode].launches = 0 <=> ~ IsFairExplorationMode(mode))
  /\ \A i, j \in DOMAIN ModeLadder : i < j => Loosens(ModeLadder[i], ModeLadder[j])

-------------------------------------------------------------------------------
(* Properties. *)

\* Turning to a looser mode loses no token: what a mode admits, every mode that
\* is looser admits too, although those have skips of their own for creators of
\* many tokens and for facts that are missing (ProcessForMode, fair_dq.go).
LooserAdmits(m) ==
  \A i, j \in DOMAIN ModeLadder :
    i < j /\ Admits(m, ModeLadder[i]) => Admits(m, ModeLadder[j])
=============================================================================
