------------------------------- MODULE Market -------------------------------
(***************************************************************************)
(* What the bot comes to know of one token: the market probes              *)
(* (run_market_probes.go, modules/probes), the rows of market_data they    *)
(* leave behind, the rescans and retries that start from those rows, and   *)
(* the verdict of data quality on each pass.                               *)
(*                                                                         *)
(* A probe finds the truth, part of it, or nothing: services time out,     *)
(* index late and answer for some mints only.  A holder share is a         *)
(* percent; supply, launches and holders are counts.                       *)
(***************************************************************************)
EXTENDS DataQuality, Sequences

CONSTANTS
  Truths,      \* the tokens there may be
  MaxPasses,   \* how often the token is probed
  Nothing

\* Shares are percents, counts are counts.
ASSUME MarketAssumption ==
  /\ \A t \in Truths :
       /\ {t.links, t.listedLinks, t.uri} \subseteq BOOLEAN
       /\ {t.launches, t.holders, t.supply, t.liquidity} \subseteq Nat
       /\ {t.share, t.listedShare} \subseteq 0..100
  /\ MaxPasses \in Nat

VARIABLES
  truth,       \* the token
  rows,        \* its market_data rows, oldest first
  payload,     \* what the pending queue keeps of it, or Nothing
  facts,       \* what the pass under way knows
  transport,   \* what started that pass
  step,        \* the probe that is next
  skip,        \* probes that this pass leaves out
  holderCache, \* what the holder probe remembers, or Nothing
  passes,
  judged       \* the mode of the pass that has ended, the launches that its probe
               \* was told of and the verdict, or Nothing

marketVars == <<truth, rows, payload, facts, transport, step, skip, holderCache, passes, judged>>

Order == <<"das", "authorities", "lp", "holders", "metadata", "creator", "narrative">>
Rescans == {"rescan_15m", "rescan_12h"}
IsLate(t) == t = "rescan_12h"
BatchAt == 0
DoneAt == Len(Order) + 1
GateAt == DoneAt + 1
Idle == GateAt + 1

OnCurve == truth.topic = "PumpFunCreate"
OnAmm == truth.topic = "PumpFunAMMCreatePool"

Least(a, b) == IF a < b THEN a ELSE b

\* What ingestion knows of a launch. A launch on the curve comes with an
\* estimate of its liquidity, or without.
Ingested == {[topic |-> truth.topic, address |-> truth.address, uri |-> truth.uri,
              reserves |-> truth.reserves, liquidity |-> l, age |-> 0,
              curve |-> 0, reorged |-> FALSE, duplicate |-> FALSE, copycat |-> FALSE,
              supply |-> Unknown, launches |-> Unknown, social |-> Unknown,
              dist |-> Unknown, authorities |-> Unknown, narrative |-> Unknown,
              described |-> FALSE, sim |-> Unknown, lock |-> Unknown,
              privileges |-> Unknown, wash |-> Unknown, churn |-> 0, provider |-> 0,
              tax |-> 0, external |-> {}] :
             l \in IF OnCurve THEN {Unknown, truth.liquidity} ELSE {Unknown}}

-------------------------------------------------------------------------------
(* Rows of market_data. *)

\* The table has columns for these facts alone (InsertMarketData).
Columns(f) == [dist |-> f.dist, liquidity |-> f.liquidity,
               reserves |-> f.reserves, address |-> f.address]

Row(f, t) == [columns |-> Columns(f), rescan |-> t \in Rescans]

\* The richest row, a fresh one before a rescan, the newest of these
\* (GetLatestMarketDataForToken).
Richness(r) == 2 * ((IF Known(r.columns.dist) THEN 1 ELSE 0)
                    + (IF Known(r.columns.liquidity) THEN 1 ELSE 0)
                    + (IF r.columns.address THEN 1 ELSE 0))
               + (IF r.rescan THEN 0 ELSE 1)

LatestRow == CHOOSE r \in {rows[i] : i \in {j \in DOMAIN rows : \A k \in DOMAIN rows :
                 \/ Richness(rows[k]) < Richness(rows[j])
                 \/ Richness(rows[k]) = Richness(rows[j]) /\ k <= j}} : TRUE

\* What GetTokensForRescan reads of a token, with its age.
RescannedToken(f, t) ==
  [f EXCEPT !.liquidity = Unknown, !.age = IF IsLate(t) THEN 43200 ELSE 900]

\* A rescan starts from the newest row and takes from the latest what that has
\* (hydrateRescanDTO); what has no column is as good as never found.
HydrateFromLatest(f) ==
  LET base == rows[Len(rows)].columns
      latest == LatestRow.columns
      Pick(new, old) == IF Known(new) THEN new ELSE old
  IN  [f EXCEPT !.dist = Pick(latest.dist, base.dist),
                !.liquidity = Pick(base.liquidity, latest.liquidity),
                !.reserves = IF base.reserves = 0 THEN latest.reserves ELSE base.reserves,
                !.address = base.address \/ latest.address,
                !.uri = FALSE]

\* mandatoryKnownMissing
MandatoryKnownMissing(f) ==
  (IF Known(f.social) THEN {} ELSE {"social_links"})
    \union (IF Known(f.supply) THEN {} ELSE {"total_supply"})
    \union (IF f.address /\ ~ Known(f.launches) THEN {"creator_count"} ELSE {})
    \union (IF LaunchExempt(f) \/ Known(f.dist) THEN {} ELSE {"holder_dist"})

-------------------------------------------------------------------------------
(* Probes: each is the set of what it may make of the facts f. *)

Das(f) ==
  IF Known(f.supply) /\ Known(f.social) THEN {f}
  ELSE {f} \union {[f EXCEPT !.supply = IF Known(@) THEN @ ELSE truth.supply,
                             !.social = IF Known(@) THEN @ ELSE truth.listedLinks]}

\* The mint account of either token program.
Authorities(f) == {f, [f EXCEPT !.authorities = truth.authorities]}

\* Reserves of the curve are worth nothing without a price, and for an instant
\* there are none; a pool that has left the curve has a supply, and vaults.
PumpfunLp(f) ==
  LET supplied == [f EXCEPT !.supply = IF OnAmm \/ ~ Known(@) THEN truth.supply ELSE @]
      priced == [supplied EXCEPT !.liquidity = IF OnAmm /\ Known(@) THEN @ ELSE truth.liquidity]
  IN  IF OnCurve \/ OnAmm THEN {f, supplied, priced} ELSE {f}

\* Top5HolderPct: amounts in atoms over a supply in tokens, at most 100. Without a
\* supply, over the accounts listed, or over the supply in atoms.
HolderShare(f, overListed) ==
  IF Known(f.supply) THEN 100 ELSE IF overListed THEN truth.listedShare ELSE truth.share

\* The twenty largest accounts, or, when that call fails, up to two hundred of
\* all. Only the first needs no look at the program of the mint when the
\* authorities are known.
HolderDist(f) ==
  IF holderCache # Nothing THEN {[f EXCEPT !.dist = holderCache]}
  ELSE {f} \union
       (IF truth.standard = "v1"
        THEN {[f EXCEPT !.dist = [count |-> Least(truth.holders, 20), share |-> HolderShare(f, TRUE)]],
              [f EXCEPT !.dist = [count |-> Least(truth.holders, 200), share |-> HolderShare(f, FALSE)]]}
        ELSE {})

\* The document behind the address overrides what das has found; no address
\* means no links.
SolanaMetadata(f) ==
  IF f.uri THEN {f, [f EXCEPT !.social = truth.links, !.described = truth.described]}
  ELSE {[f EXCEPT !.social = FALSE]}

\* pump.fun, or Helius in its place: the launches of the creator with this one,
\* when it is listed already. A list may lag behind, down to an empty one, and
\* null or an object without a list counts as an empty one, whatever it says.
ListedLaunches == 0..(truth.launches + 1)

CreatorReputation(f) ==
  IF ~ f.address THEN {f}
  ELSE {f} \union {[f EXCEPT !.launches = IF n > 0 THEN n - 1 ELSE 0] : n \in ListedLaunches}

Neutral == [score |-> 5, copied |-> FALSE, impersonates |-> FALSE]

AiNarrative(f) ==
  IF Known(f.narrative) THEN {f}
  ELSE IF ~ f.described THEN {[f EXCEPT !.narrative = Neutral]}
  ELSE {f, [f EXCEPT !.narrative = truth.narrative]}

Answers(p, f) ==
  CASE p = "das" -> Das(f)
    [] p = "authorities" -> Authorities(f)
    [] p = "lp" -> PumpfunLp(f)
    [] p = "holders" -> HolderDist(f)
    [] p = "metadata" -> SolanaMetadata(f)
    [] p = "creator" -> CreatorReputation(f)
    [] p = "narrative" -> AiNarrative(f)

\* BatchAccountRequestFor, FetchBatchAccounts, ApplyBatchAccounts: the mint and
\* the curve in one call, either of which may be missing.
BatchWanted(f) ==
  (IF Known(f.authorities) /\ (~ OnAmm \/ Known(f.supply)) THEN {} ELSE {"mint"})
    \union (IF OnCurve /\ ~ Known(f.liquidity) THEN {"pool"} ELSE {})

ApplyBatch(f, got) ==
  LET mint == IF "mint" \notin got THEN f
              ELSE [f EXCEPT !.authorities = truth.authorities,
                             !.supply = IF OnAmm /\ ~ Known(@) THEN truth.supply ELSE @]
  IN  IF "pool" \notin got THEN mint
      ELSE [mint EXCEPT !.liquidity = truth.liquidity,
                        !.supply = IF Known(@) THEN @ ELSE truth.supply]

-------------------------------------------------------------------------------
MarketInit ==
  /\ truth \in Truths
  /\ rows = <<>> /\ payload = Nothing /\ judged = Nothing
  /\ facts = Nothing /\ transport = "fresh" /\ step = Idle /\ skip = {}
  /\ holderCache = Nothing /\ passes = 0

Begin(t, f) ==
  /\ step = Idle /\ passes < MaxPasses
  /\ passes' = passes + 1
  /\ transport' = t /\ facts' = f
  /\ holderCache' \in {holderCache, Nothing}
  /\ judged' = Nothing
  /\ UNCHANGED truth

\* What is kept for a later pass, if one may follow.
Kept(f) == IF passes < MaxPasses THEN f ELSE Nothing

\* A launch. Its row may be lost although its event is not.
FirstPass ==
  /\ passes = 0
  /\ \E f \in Ingested :
       /\ Begin("fresh", f)
       /\ rows' \in {<<>>, <<Row(f, "fresh")>>}
  /\ step' = BatchAt /\ skip' = {}
  /\ UNCHANGED payload

\* RunProbePendingWorker: the facts as they were when they were deferred.
RetryPending ==
  /\ payload # Nothing
  /\ LET f == [payload EXCEPT !.age = 3600]
     IN Begin("retry", f) /\ rows' = Append(rows, Row(f, "retry"))
  /\ payload' = Nothing
  /\ step' = BatchAt /\ skip' = {}

\* RunRescan. The token has been judged, and nothing but its columns is left. A
\* rescan that misses nothing goes straight to the gate.
Rescan(t) ==
  /\ judged # Nothing /\ rows # <<>>
  /\ \E blank \in Ingested :
       LET f == HydrateFromLatest(RescannedToken(blank, t))
       IN /\ Begin(t, f)
          /\ rows' = Append(rows, Row(f, t))
          /\ step' = IF MandatoryKnownMissing(f) = {} THEN DoneAt ELSE 1
          /\ skip' = (IF Known(f.authorities) THEN {"authorities"} ELSE {})
                       \union (IF ~ IsLate(t) /\ Known(f.dist) THEN {"holders"} ELSE {})
                       \union (IF IsLate(t) THEN {"lp"} ELSE {})
  /\ payload' = IF passes' < MaxPasses THEN payload ELSE Nothing

\* tryConsume refuses: the pass ends here, its facts wait for the next hour.
Defer ==
  /\ step = BatchAt \/ (step = 1 /\ transport \in Rescans)
  /\ payload' = Kept(facts)
  /\ step' = Idle /\ facts' = Nothing
  /\ UNCHANGED <<truth, rows, transport, skip, holderCache, passes, judged>>

BatchFetch ==
  /\ step = BatchAt
  /\ \E got \in SUBSET BatchWanted(facts) :
       /\ facts' = ApplyBatch(facts, got)
       /\ skip' = (IF "mint" \in got THEN {"authorities"} ELSE {})
                    \union (IF "pool" \in got THEN {"lp"} ELSE {})
  /\ step' = 1
  /\ UNCHANGED <<truth, rows, payload, transport, holderCache, passes, judged>>

\* runSingleProbe with its retries.
RunSingleProbe ==
  /\ step \in DOMAIN Order
  /\ LET p == Order[step]
     IN /\ facts' \in IF p \in skip THEN {facts} ELSE Answers(p, facts)
        /\ holderCache' = IF p = "holders" /\ p \notin skip /\ facts' # facts
                          THEN facts'.dist ELSE holderCache
  /\ step' = step + 1
  /\ UNCHANGED <<truth, rows, payload, transport, skip, passes, judged>>

\* The end of Process: what is missing is queued, the row is written if it can be.
Emit ==
  /\ step = DoneAt
  /\ payload' = IF MandatoryKnownMissing(facts) = {} THEN payload ELSE Kept(facts)
  /\ rows' \in {rows, Append(rows, Row(facts, transport))}
  /\ step' = GateAt
  /\ UNCHANGED <<truth, facts, transport, skip, holderCache, passes, judged>>

\* Slip: a creator whom the database does not know has launched nothing.
CountTokensByCreatorOrNone(f) ==
  IF Known(f.launches) \/ ~ f.address THEN {f}
  ELSE {f} \union {[f EXCEPT !.launches = n] : n \in 0..truth.launches}

\* The worker of data quality asks the database about the creator when the probe
\* found nothing, and believes it only if it knows an earlier token.
CountTokensByCreator(f) ==
  IF Known(f.launches) \/ ~ f.address THEN {f}
  ELSE {f} \union {[f EXCEPT !.launches = n] : n \in 1..truth.launches}

Judge(mode) ==
  /\ step = GateAt
  /\ \E f \in CountTokensByCreator(facts) :
       judged' = [mode |-> mode, listed |-> facts.launches, decision |-> ProcessForMode(f, mode)]
  /\ facts' = Nothing /\ skip' = {}
  /\ step' = Idle
  /\ UNCHANGED <<truth, rows, payload, transport, holderCache, passes>>

MarketNext ==
  \/ FirstPass
  \/ RetryPending
  \/ \E t \in Rescans : Rescan(t)
  \/ Defer
  \/ BatchFetch
  \/ RunSingleProbe
  \/ Emit
  \/ \E mode \in DOMAIN Profiles \union {"HALTED"} : Judge(mode)

MarketSpec == MarketInit /\ [][MarketNext]_marketVars

-------------------------------------------------------------------------------
(* Properties. *)

Bool(x) == x = Unknown \/ x \in BOOLEAN

MarketTypeOK ==
  /\ truth \in Truths /\ step \in BatchAt..Idle /\ passes \in 0..MaxPasses
  /\ transport \in {"fresh", "retry"} \union Rescans
  /\ skip \subseteq Range(Order)
  /\ \A f \in {facts, payload} \ {Nothing} :
       /\ Bool(f.social) /\ f.uri \in BOOLEAN
       /\ Known(f.launches) => f.launches \in Nat
       /\ Known(f.dist) => f.dist.count <= 200 /\ f.dist.share \in 0..100

\* Outside the exploring modes a token is admitted only on what is true of it,
\* whatever the probes missed, remembered, found in another order or took from an
\* older row: it has links, its supply is within bounds, and a creator who has
\* launched more than the limit gets through only when a service has answered
\* with a list that is too short - never because no service has answered and the
\* database knows none of the launches (run_market_probes.go 189-529,
\* run_data_quality.go 136-158, data_quality.go 147-410).
AdmittedOnTruth ==
  judged # Nothing /\ ~ IsFairExplorationMode(judged.mode)
    /\ judged.decision \in {"PASS", "RISKY_PASS"}
  => /\ truth.launches <= Limits.launches
          \/ (Known(judged.listed) /\ judged.listed < truth.launches)
     /\ truth.links \/ truth.listedLinks
     /\ truth.supply <= Limits.supply

\* Turning to a looser mode loses no token that has been probed: what a mode
\* admits, every looser mode admits too (data_quality.go, fair_dq.go).
LooserModesAdmit == step = GateAt => LooserAdmits(facts)
=============================================================================
