------------------------------ MODULE Ingestion ------------------------------
(***************************************************************************)
(* Solana ingestion: launches reach the bus as market data events          *)
(* (ingestion_solana.go, normalize.go, mint_pair.go, gap_recovery.go in    *)
(* modules/ingestion_solana; run_ingestion_solana.go,                      *)
(* run_ingestion_webhook.go, run_webhook_gap_recovery.go in workers).      *)
(*                                                                         *)
(* A family of programs is followed by its logs, by its transactions or by *)
(* a webhook.  Each notification is normalized, filtered and emitted in    *)
(* three statements: the event, the row of market data, the watermark of   *)
(* the family.  A ticker lists what the webhook families have launched     *)
(* since the watermark and emits it as well.                               *)
(*                                                                         *)
(* Time is the slot of the chain.  A launch is one instruction that        *)
(* creates a pool, its event is named after it on every path.              *)
(***************************************************************************)
EXTENDS Integers, FiniteSets

CONSTANTS
  Launches,     \* launches on the chain
  Families,     \* programs that are not disabled
  Launch,       \* slot, place in it, family, base and quote mint, creator, serial, by launch
  Route,        \* by family: "logs", "fetch", "embedded" or "webhook"
  Verbatim,     \* families whose decoder takes the first mint as it is
  StableMints,  \* system_mint_reject.mints
  NoMint,
  PoolSize,     \* processing_workers of a family
  MaxGap,       \* gap_recovery_max_slots
  GapBatch,     \* gapRecoveryBatchSize
  MaxSlot,      \* bound: the chain ends
  MaxTraffic,   \* bound: other signatures of a program in a slot
  IngestFaults  \* bound: crashes, failed statements and calls

ASSUME IngestionAssumption ==
  /\ Launch \in [Launches -> [slot : 1..MaxSlot, place : Nat, family : Families,
                              base : STRING \union StableMints \union {NoMint},
                              quote : STRING \union StableMints \union {NoMint},
                              creator : {"wallet", "factory", ""}, serial : BOOLEAN]]
  /\ Route \in [Families -> {"logs", "fetch", "embedded", "webhook"}]
  /\ NoMint \notin StableMints
  /\ {PoolSize, MaxGap, GapBatch, MaxSlot} \subseteq Nat \ {0}
  /\ {IngestFaults, MaxTraffic} \subseteq Nat

VARIABLES
  slot,        \* the slot of the chain
  notice,      \* what has become of the notification of each launch
  traffic,     \* other signatures of its program since each launch, up to GapBatch
  backoff,     \* rateLimitUntil lies ahead
  events,      \* events of type market_data_event
  marketData,  \* the launches with a row of market data
  watermark,   \* solana_ingestion_watermark
  gap,         \* the round of RecoverGap for each family
  slips        \* faults so far

ingestionVars == <<slot, notice, traffic, backoff, events, marketData, watermark, gap, slips>>
tables == <<events, marketData, watermark>>

\* More than a batch tells no more.
InBatch(n) == IF n < GapBatch THEN n ELSE GapBatch

Webhooks == {f \in Families : Route[f] = "webhook"}
FamilyOf(l) == Launch[l].family

\* A launch is ahead, its notification waits, is in work, or is over.
Stations == {"ahead", "waiting", "fetch", "normalize", "row", "mark", "over"}
GapStations == {"rest", "fetch", "row", "mark"}
NoGap == [at |-> "rest", todo |-> {}]

IngestionTypeOK ==
  /\ slot \in 0..MaxSlot
  /\ notice \in [Launches -> Stations]
  /\ traffic \in [Launches -> 0..GapBatch]
  /\ backoff \in BOOLEAN
  /\ \A e \in events : e.launch \in Launches /\ e.creator \in {"wallet", "factory", ""}
  /\ marketData \subseteq {e.launch : e \in events}
  /\ watermark \in [Families -> 0..MaxSlot]
  /\ \A f \in Families : gap[f].at \in GapStations /\ gap[f].todo \subseteq Launches
  /\ slips \in 0..IngestFaults

IngestionInit ==
  /\ slot = 0
  /\ notice = [l \in Launches |-> "ahead"]
  /\ traffic = [l \in Launches |-> 0]
  /\ backoff = FALSE
  /\ events = {}
  /\ marketData = {}
  /\ watermark = [f \in Families |-> 0]
  /\ gap = [f \in Families |-> NoGap]
  /\ slips = 0

Slip == slips < IngestFaults /\ slips' = slips + 1

-------------------------------------------------------------------------------
(* Normalizing. *)

\* ResolveTradableMint: the side that is no stable mint.
ResolveTradableMint(base, quote) ==
  IF base \in StableMints
  THEN IF quote \in StableMints \union {NoMint} THEN NoMint ELSE quote
  ELSE base

\* The token of the normalizers: NoMint when there is nothing to emit.
Token(l) ==
  IF FamilyOf(l) \in Verbatim THEN Launch[l].base
  ELSE ResolveTradableMint(Launch[l].base, Launch[l].quote)

\* applyCreatorIdentity with its guard. The fee payer stands in for a creator
\* that is missing or a program, unless only the logs are at hand.
CreatorIdentity(l) ==
  LET fallback == IF Route[FamilyOf(l)] = "logs" THEN "" ELSE "wallet"
  IN  IF Launch[l].creator = "wallet" THEN "wallet" ELSE fallback

\* applySystemMintReject
RejectsSystemMint(l) == Token(l) \in StableMints

\* The emitter. An event or a row that exists stays as it is.
InsertMarketEvent(l, creator) ==
  events' = IF \E e \in events : e.launch = l THEN events
            ELSE events \union {[launch |-> l, token |-> Token(l), creator |-> creator]}

InsertMarketData(l) == marketData' = marketData \union {l}

UpsertSolanaIngestionWatermark(l) ==
  watermark' = [watermark EXCEPT ![FamilyOf(l)] = Launch[l].slot]

-------------------------------------------------------------------------------
(* The notifications. *)

Move(l, to) == notice' = [notice EXCEPT ![l] = to]

\* The chain moves on, with swaps and all else that signs for a program after its
\* launches. A notification may be lost: the subscription is down, or the webhook
\* is not delivered.
NextSlot ==
  /\ slot < MaxSlot
  /\ slot' = slot + 1
  /\ \E lost \in SUBSET {l \in Launches : Launch[l].slot = slot'} :
       notice' = [l \in Launches |->
         IF Launch[l].slot # slot' THEN notice[l]
         ELSE IF l \in lost THEN "over" ELSE "waiting"]
  /\ \E n \in [Webhooks -> 0..MaxTraffic] :
       traffic' = [l \in Launches |->
         IF FamilyOf(l) \in Webhooks /\ Launch[l].slot <= slot'
         THEN InBatch(traffic[l] + n[FamilyOf(l)]) ELSE traffic[l]]
  /\ UNCHANGED <<backoff, tables, gap, slips>>

InWork(f) == {l \in Launches : FamilyOf(l) = f /\ notice[l] \in {"fetch", "normalize", "row", "mark"}}

\* A launch of an embedded transaction is fetched only when it did not come along.
Entries(f) ==
  CASE Route[f] = "fetch" -> {"fetch"}
    [] Route[f] = "embedded" -> {"normalize", "fetch"}
    [] OTHER -> {"normalize"}

\* Logs are worked on by the reader itself, transactions by the pool, webhooks
\* by the handler of their request.
Accept(l) ==
  LET f == FamilyOf(l)
  IN /\ notice[l] = "waiting"
     /\ Route[f] = "logs" => InWork(f) = {}
     /\ Route[f] \in {"fetch", "embedded"} => Cardinality(InWork(f)) < PoolSize
     /\ \E to \in Entries(f) : Move(l, to)
     /\ UNCHANGED <<slot, traffic, backoff, tables, gap, slips>>

\* fetchTransactionRateLimited: a notification that meets the backoff, a failing
\* call or a transaction that is not confirmed yet is over.
FetchTransaction(l) ==
  /\ notice[l] = "fetch"
  /\ \/ backoff /\ Move(l, "over") /\ UNCHANGED <<backoff, slips>>
     \/ ~ backoff /\ Move(l, "normalize") /\ UNCHANGED <<backoff, slips>>
     \/ ~ backoff /\ Move(l, "over") /\ Slip /\ backoff' \in BOOLEAN
  /\ UNCHANGED <<slot, traffic, tables, gap>>

BackoffEnds ==
  /\ backoff
  /\ backoff' = FALSE
  /\ UNCHANGED <<slot, notice, traffic, tables, gap, slips>>

\* Nothing to emit, a system mint, a creator of too many tokens, or the event.
\* The pre-filter lets pass whom it does not know.
NormalizeAndEmit(l) ==
  /\ notice[l] = "normalize"
  /\ \/ /\ Token(l) = NoMint \/ RejectsSystemMint(l)
        /\ Move(l, "over") /\ UNCHANGED <<events, slips>>
     \/ /\ Token(l) # NoMint /\ ~ RejectsSystemMint(l) /\ Launch[l].serial
        /\ CreatorIdentity(l) # ""
        /\ Move(l, "over") /\ UNCHANGED <<events, slips>>
     \/ /\ Token(l) # NoMint /\ ~ RejectsSystemMint(l)
        /\ \/ InsertMarketEvent(l, CreatorIdentity(l)) /\ Move(l, "row") /\ UNCHANGED slips
           \/ Move(l, "over") /\ Slip /\ UNCHANGED events
  /\ UNCHANGED <<slot, traffic, backoff, marketData, watermark, gap>>

\* Slip: the watermark is written before the row.
EmitRowLate(l) ==
  /\ notice[l] = "row"
  /\ UpsertSolanaIngestionWatermark(l)
  /\ \/ InsertMarketData(l) /\ Move(l, "over") /\ UNCHANGED slips
     \/ Move(l, "over") /\ Slip /\ UNCHANGED marketData
  /\ UNCHANGED <<slot, traffic, backoff, events, gap>>

EmitRow(l) ==
  /\ notice[l] = "row"
  /\ \/ InsertMarketData(l) /\ Move(l, "mark") /\ UNCHANGED slips
     \/ Move(l, "over") /\ Slip /\ UNCHANGED marketData
  /\ UNCHANGED <<slot, traffic, backoff, events, watermark, gap>>

\* The watermark is written whatever it was; an error is only logged.
EmitWatermark(l) ==
  /\ notice[l] = "mark"
  /\ Move(l, "over")
  /\ \/ UpsertSolanaIngestionWatermark(l) /\ UNCHANGED slips
     \/ Slip /\ UNCHANGED watermark
  /\ UNCHANGED <<slot, traffic, backoff, events, marketData, gap>>

-------------------------------------------------------------------------------
(* RecoverGap. *)

OnChain(f) == {l \in Launches : FamilyOf(l) = f /\ Launch[l].slot <= slot}

\* The newest signatures of the program, whatever they are of.
Recent(f) ==
  LET newer(l) == {m \in OnChain(f) :
        \/ Launch[m].slot > Launch[l].slot
        \/ Launch[m].slot = Launch[l].slot /\ Launch[m].place > Launch[l].place}
  IN  {l \in OnChain(f) : Cardinality(newer(l)) + traffic[l] < GapBatch}

\* RecoverGap begins at the watermark, or as far back as it may.
FromSlot(f) == IF slot - watermark[f] > MaxGap THEN slot - MaxGap ELSE watermark[f]

\* Slip: the window leaves out the slot next to the one it begins at.
GetSignaturesShort(f) == {l \in Recent(f) : FromSlot(f) + 1 < Launch[l].slot}

\* Those of them that are of the window.
GetSignatures(f) == {l \in Recent(f) : FromSlot(f) <= Launch[l].slot}

Oldest(L) == CHOOSE l \in L : \A m \in L : Launch[l].slot <= Launch[m].slot

Round(f, at, todo) ==
  gap' = [gap EXCEPT ![f] = IF todo = {} THEN NoGap ELSE [at |-> at, todo |-> todo]]

\* The ticker of the webhook families.
GapTick(f) ==
  /\ f \in Webhooks /\ gap[f] = NoGap
  /\ slot > watermark[f] /\ GetSignatures(f) # {}
  /\ Round(f, "fetch", GetSignatures(f))
  /\ UNCHANGED <<slot, notice, traffic, backoff, tables, slips>>

\* The next launch, oldest first: its event goes out as it was normalized. A
\* launch without a token, a failed call or statement goes on with the one after.
GapEmit(f) ==
  LET l == Oldest(gap[f].todo)
      rest == gap[f].todo \ {l}
  IN /\ gap[f].at = "fetch"
     /\ \/ /\ Token(l) # NoMint
           /\ InsertMarketEvent(l, Launch[l].creator)
           /\ Round(f, "row", gap[f].todo) /\ UNCHANGED slips
        \/ /\ Token(l) # NoMint => slips < IngestFaults
           /\ slips' = IF Token(l) = NoMint THEN slips ELSE slips + 1
           /\ Round(f, "fetch", rest) /\ UNCHANGED events
     /\ UNCHANGED <<slot, notice, traffic, backoff, marketData, watermark>>

GapRow(f) ==
  LET l == Oldest(gap[f].todo)
  IN /\ gap[f].at = "row"
     /\ \/ InsertMarketData(l) /\ Round(f, "mark", gap[f].todo) /\ UNCHANGED slips
        \/ Slip /\ Round(f, "fetch", gap[f].todo \ {l}) /\ UNCHANGED marketData
     /\ UNCHANGED <<slot, notice, traffic, backoff, events, watermark>>

GapWatermark(f) ==
  LET l == Oldest(gap[f].todo)
  IN /\ gap[f].at = "mark"
     /\ Round(f, "fetch", gap[f].todo \ {l})
     /\ \/ UpsertSolanaIngestionWatermark(l) /\ UNCHANGED slips
        \/ Slip /\ UNCHANGED watermark
     /\ UNCHANGED <<slot, notice, traffic, backoff, events, marketData>>

\* The process stops: what it works on is gone, and so is what waits for it.
IngestionStops ==
  /\ Slip
  /\ notice' = [l \in Launches |-> IF notice[l] = "ahead" THEN "ahead" ELSE "over"]
  /\ backoff' = FALSE
  /\ gap' = [f \in Families |-> NoGap]
  /\ UNCHANGED <<slot, traffic, tables>>

LiveStep(l) ==
  Accept(l) \/ FetchTransaction(l) \/ NormalizeAndEmit(l) \/ EmitRow(l) \/ EmitWatermark(l)

GapStep(f) == GapTick(f) \/ GapEmit(f) \/ GapRow(f) \/ GapWatermark(f)

IngestionNext ==
  \/ NextSlot \/ BackoffEnds \/ IngestionStops
  \/ \E l \in Launches : LiveStep(l)
  \/ \E f \in Families : GapStep(f)

\* The ticker goes on; nothing is asked of the ways of delivery.
IngestionFairness == \A f \in Webhooks : WF_ingestionVars(GapStep(f))

IngestionSpec == IngestionInit /\ [][IngestionNext]_ingestionVars

-------------------------------------------------------------------------------
(* Properties. *)

\* A gap that opens is measured from data that is really there: the watermark of
\* a family is a slot whose launch has its event and its row, whatever fails or
\* stops between the three statements of the emitter.
WatermarkHasData ==
  \A f \in Families : watermark[f] > 0 =>
    \E l \in marketData : FamilyOf(l) = f /\ Launch[l].slot = watermark[f]

\* What a webhook has missed does not stay missing while the chain is past the
\* watermark, the launch is neither older than the watermark nor than the window
\* of the recovery, and not more than the batch has signed for its program since
\* (RecoverGap): it is emitted, or a later launch moves the watermark past it.
GapsClose ==
  \A l \in {k \in Launches : FamilyOf(k) \in Webhooks} :
    []<> ~ (/\ Token(l) # NoMint
            /\ slot > watermark[FamilyOf(l)]
            /\ watermark[FamilyOf(l)] <= Launch[l].slot /\ slot - Launch[l].slot <= MaxGap
            /\ l \in Recent(FamilyOf(l))
            /\ ~ \E e \in events : e.launch = l)
=============================================================================
