# A verification development of the sniping bot

TLA+ modules that model the core of the bot in `src/` (Go, one binary,
Postgres as the only shared state), TLC configurations that check them on small
instances, and theorems about them that TLAPS proves for every value of the
constants. Every definition is translated from the code; `PROJECT.json` gives
for each one the file and the lines it stands for.

Paths below are relative to `src/`. `workers/` stands for
`sniper-bot/internal/workers/`, `modules/` for `sniper-bot/internal/modules/`,
`postgres/` for `shared/database/engines/postgres/`.

## 1. The system

The bot (`sniper-bot/cmd/serve.go`) is a pipeline of stages over one Postgres
database. A stage is a goroutine that claims rows of the `events` table by
type, computes, writes its own tables, and inserts the event of the next stage:

    ingestion ─ market_data ─> [market probes ─ market_data_enriched ─>] data quality
      ─> features ─┬─> edge ─────────────┐
                   ├─> probability ─(row)┤  joined by
                   └─> slippage ───(row)─┴─ validation ─> selection ─> capital
      ─> execution ─> position open ─> position poll ─> evaluation, learning

Beside the stages run loops on timers: the position poll, the risk controller,
the rollback watchdog, the rescan, the baseline flush, the pending probes, the
learning loops, the Telegram bot, the webhook gap recovery. Several processes
may share the database (a rolling restart, a second replica, `sniper-bot`
beside the command line tools and the dashboard backend), so goroutines of a
component are a set in the models, not one.

What makes it hard: the bus delivers at least once, with claims that time out;
every handler is several statements in separate transactions; the life of a
token is guarded by a topology and by compare-and-set; several loops write the
same row (system_state, positions, strategy_versions); and decisions are taken
on values kept in memory across iterations.

### 1.1 Inventory

| component | code | state | operations | correct when |
|---|---|---|---|---|
| **Event bus** | `postgres/events.go`, `postgres/hardening.go`, `sniper-bot/internal/orchestrator/worker.go` | `events` (created, processed, claimed_at, retry_count), `dead_letter_events`; the event a worker holds | InsertEvent, ClaimNextEvent, MarkEventProcessed, ReleaseEventClaim, IncrementEventRetry, MoveToDLQ, RequeueFromDLQ; stage outcome; listener | no event is lost, reopened, or buried early; one holder at a time; every event is settled |
| **Token lifecycle** | `postgres/lifecycle.go`, `workers/helpers.go` | `token_lifecycle` (state, version) | StartLifecycle, TransitionState (topology, compare-and-set), QuarantineToken, doMandatoryTransition | one path per token, agreeing with what the other tables say |
| **Execution stage** | `workers/run_execution.go`, `modules/execution*`, `postgres/trading.go` | `execution_results`; the chain | reserve, re-emit a duplicate, mode gate, submit, record, transition | a trade is submitted at most once, has one result, and the result reaches the bus |
| **Position open** | `workers/run_position_open.go`, `modules/position` | `positions` | insert once per execution, transition, emit | an open position is a fill |
| **Position poll** | `workers/run_position_poll.go`, `postgres/positions.go` | `positions`, the list of a cycle | list, decide, snapshot, transition, emit | an exit is recorded before it is announced; a position is closed in time |
| **Reconciliation, force close** | `workers/run_reconciliation.go`, `internal/operator/commands.go` | `positions` | close what the chain no longer has; close all | as above |
| **Evaluation stage** | `workers/run_evaluation.go` | evaluation rows, lifecycle | skip or evaluate an exited position | one evaluation per exit |
| **Risk controller** | `workers/run_risk_controller.go`, `internal/resource_control/halt.go`, `postgres/stubs.go` | `system_state`; in memory: the version of its last write, the window of its last adaptive move | drawdown pass, appetite pass | no lost update, one move per window, a drawdown halts |
| **Operator commands** | `internal/operator/commands.go`, `workers/run_operator_commands.go`, `sniper-bot/cmd/telegram.go` | `system_state`, `system_halt` | /mode, /kill, /resume, force close | the operator's choice holds; the kill switch stops submissions |
| **Listeners** | `workers/run_learning_record.go`, `run_shadow_recorder.go`, `creator_profile_aggregator.go` | learning records, shadow trades, creator profiles | claim events of the stages, record, settle or release | they do not take events from a stage |
| **Ingestion** | `workers/run_ingestion_solana.go`, `run_ingestion_webhook.go`, `run_webhook_gap_recovery.go` | market data, the watermark, the dedup set | normalise, publish; webhook; recover a gap | every pool is published once; a gap is closed |
| **Market probes** | `workers/run_market_probes.go`, `run_probe_pending.go`, `probe_budget.go`, `postgres/probe_pending.go` | `probe_pending`, the hourly budget | probe in line, enqueue, claim, complete, fail, expire | a row that is due ends; a token that is refused a probe is not forgotten |
| **Data quality** | `workers/run_data_quality.go`, `modules/data_quality` | lifecycle | the gates: pass, reject, skip, risky | a rejected token gets no further |
| **Features, edge, probability, slippage** | `workers/run_features.go` ... | feature rows, baselines | compute, write rows, fan out | the join of validation finds what it waits for |
| **Validation** | `workers/run_validation.go`, `modules/validation` | lifecycle, the debounce ring | join, gates, debounce | a token is validated on its own estimates |
| **Selection, capital** | `workers/run_selection.go`, `run_capital.go`, `modules/selection`, `modules/capital` | the batch in memory, lifecycle | add, flush by size or timer, cap by open positions; size | every validated token is selected or rejected; the cap on positions holds |
| **Baselines** | `modules/features/baseline.go`, `modules/edge/baseline.go`, `workers/baseline_flush.go` | ring buffers, the dirty set, a table | append, flush, mark clean, hydrate | a window that is dirty reaches the table, as far as a cycle gets to its key |
| **Rescan** | `workers/run_rescan.go`, `postgres/rescan.go` | market data, events | re-emit a token per age band and bucket | once per band and bucket |
| **Strategy versions, learning** | `postgres/versions.go`, `postgres/learning.go`, `workers/run_updater.go`, `run_ab_promoter.go`, `run_rollback_watchdog.go`, `run_evaluator.go` | `strategy_versions` | propose, activate, promote after a drain, roll back, pin at boot | never two versions in force, and the one that is read is the active one; none only where the code cannot help it (2.6) |
| **Wallet nonces** | `postgres/positions.go` | `wallet_nonce_state` | AllocateNonce | no nonce twice, no gap |
| **Resource limits** | `modules/execution/concurrency.go`, `circuit_breaker.go` | counters | acquire, release; trip, half-open, close | never above the limit |
| **Boot and shutdown** | `sniper-bot/internal/orchestrator/orchestrator.go` | goroutines | migrate, pin the version, start, stop | - |
| **Telegram, dashboards, RPC, oracles, configuration, contracts** | see `PROJECT.json` | - | input, output, parsing, records | - |

### 1.2 Interaction

The components meet in the database and nowhere else: in `events` (every
stage), `token_lifecycle` (every stage from data quality on), `positions`
(position open, poll, reconciliation, operator, selection's cap),
`execution_results` (execution, its own redelivery), and `system_state` and
`system_halt` (controller, operator, execution, capital, selection). The models
follow these joints: the bus is one module; the stages that share
`execution_results`, `positions` and the lifecycle are one; the stages that share
the batch of validated tokens are one, and it ends in the row and the event from
which the former starts; the writers of `system_state` with the gate that reads
it are one; and the operator's two ways in, with the commands they end in, are
one. /kill and /resume write `system_halt`, which no stage reads: the
reconciliation (which no command starts), the status texts, /enable_trading and
the dashboard's overview do.

In front of the bus and beside it stand parts that keep state of their own, in
memory or in a table nobody else writes: ingestion with its watermark, the probe
queue, the baselines, the strategy versions, the RPC client, the price cache.
Each has a module; what a module does not look at (whether a probe finds a fact,
whether a pool has a price) is left open there and looked at in another.

## 2. The modules

| module | what it is | extends |
|---|---|---|
| `WorkQueue` | what the bus promises, without claims, workers and retries | |
| `EventBus` | the tables and the worker loop; implements `WorkQueue` | |
| `Lifecycle` | topology and compare-and-set of a token | |
| `Screening` | what the stages before selection promise: one run at a time has a token | Lifecycle |
| `Funnel` | data quality, features, edge, validation, the estimates and their join, the retries and rescans; implements `Screening` | Lifecycle |
| `Selection` | from a validated token to its allocation: the batch, its timer, the verdicts | Lifecycle |
| `SelectionProofs` | theorems about Selection | Selection |
| `Trade` | from an allocation to a closed position | Lifecycle |
| `TradeProofs` | theorems about Trade | Trade |
| `SystemControl` | the writers of system_state and the execution gate | |
| `Console` | Telegram and dashboard, down to the command worker | |
| `Decisions` | what features, edge, the models and validation compute, with the stages that compute it | |
| `Submission` | from a reservation to the executor's result, with the chains behind it | |
| `Pricing` | the price feeds with their cache, and the exits they decide | |
| `Ingestion` | launches to market data: three ways of delivery, the emitter, the recovery of gaps | |
| `Probes` | the budget of the probes and the queue of what is put off | |
| `DataQuality` | the verdict of data quality, as operators | |
| `Market` | what the probes find, forget and keep of a token, and the verdict on each pass | DataQuality |
| `Baselines` | the windows of the features and the edge stage, and their flush | |
| `Versions` | the strategy versions and the four that write them | |
| `Endpoints` | the endpoints of the Solana client: rotation, cooldown, failover | |
| `MCEventBus`, `MCSystemControl`, `MCDecisions`, `MCConsole` | instances for TLC, brought together in `MCBackbone` | |
| `MCTrade` | instances of Trade, Pricing and Submission | |
| `MCUpkeep` | instances of Probes and Versions | |
| `MCDelivery` | instances of EventBus and Endpoints | |
| `MCMarket`, `MCIntake` | instances of Market; of Ingestion, Market and Baselines | |
| `MCFunnel`, `MCSelection` | instances | |
| `DecisionsProofs` | theorems about Decisions, with induction over sequences | Decisions |
| `BackboneProofs` | theorems about EventBus, SystemControl and Console, and about the four side by side | MCBackbone, DecisionsProofs |
| `FunnelProofs` | theorems about Funnel, with the refinement of Screening | Funnel |
| `DeskProofs` | theorems about Submission and Pricing, and about the three side by side | MCTrade, TradeProofs |
| `UpkeepProofs` | theorems about Probes and Versions | MCUpkeep |
| `IntakeProofs` | theorems about Ingestion, Market and Baselines, with the sums and the ladder of DataQuality | MCIntake |

`MCBackbone`, `MCDelivery`, `MCTrade`, `MCUpkeep` and `MCIntake` check several components that
share no state in one run of TLC. A variable `service` is chosen at the start and
never changes; only the component it names takes steps, and the others keep
their initial values. So the states of such a run are the sum, not the product,
of the components' states, a property of one component is checked on exactly the
behaviours that its own specification has, and the fairness of a component is
asked for while it is the one that runs. Components that do interact are composed
by what they share: `Trade`, `Selection` and `Funnel` through `Lifecycle` and the
events at their borders, `Market` and `DataQuality` by extension, the bus and
its abstraction by refinement.

In every module a statement of the code that reaches the database is an action
of its own, and `pc` names the statement a process runs next: between two of
them a process may stop, fail, or be overtaken. Operators named after a slip in
the code (`ClaimExecutionUnchecked`, `ReleaseEventClaimReopens`, ...) sit before
the action they vary; nothing uses them. They are plausible bugs of that action
for which a property is known to fail.

### 2.1 EventBus

`created[e]` is `created_at` as an insertion stamp (0: no row), `processed` the
rows with the flag, `claim[e]` what `claimed_at` says (`none`, `fresh`, older
than the timeout: `stale`), `retries` and `dlq` the other columns and the dead
letters. `pc` and `job` are a worker's position in RunWorker and its event.

| action | code |
|---|---|
| `ClaimNextEvent` | `postgres/events.go`: the oldest row with claimed_at NULL or too old |
| `HandlerEmits`, `HandlerEnds`, `HandlerFails` | the stage's Process, and what RunWorker makes of its result (ErrLifecycleAlreadyAdvanced counts as "no output") |
| `InsertOutput`, `MarkEventProcessed` | the rest of a good round, in this order |
| `OutputRefused` | InsertEvent turns the output down for good (ErrMissingTraceField, ErrOrphanEvent): the loop goes on to the next event, and the input is neither counted, marked nor released |
| `IncrementEventRetry`, `MoveToDLQ`, `ReleaseEventClaim` | handleStageFailure |
| `ListenerSettles`, `ListenerReleases` | a loop that calls ClaimNextEvent on the type of a stage |
| `StatementFails`, `Crash`, `ClaimExpires` | a failed statement and where the loop goes on, a stopped process, time |
| `RequeueFromDLQ`, `Publish` | the adapter's requeue; ingestion |

What a stage computes is left open: it may emit, end or fail at every delivery.
An event has one output id, because ids are the content of their input; `Refused` are
the outputs that the table turns down however often they are inserted. Their inputs
are delivered again each time the claim runs out, without end.
Priorities are left out (they only choose among claimable rows), and so is
`expires_at`, which no InsertEvent sets. RequeueFromDLQ has no caller in the
repository; it is the adapter's documented way to bring an event back.

`WorkQueue` is the same bus for someone who does not know of workers: an event
is absent, pending, done or dead; it is done only when its output exists or its
stage waived it; only a dead event is reopened. The refinement mapping is
`status` in `EventBus`. `Bury` is allowed for a done event, because the code
allows it: a worker whose claim has run out still dead-letters.

### 2.2 Trade

`life` is the lifecycle row of a trade's token, `exec` the status of its
execution row, `rows` the statuses (and, for exits, reasons) that occur among
the snapshots of its position, `posted`, `settled`, `dead` the bus as
`WorkQueue` describes it. Two workers may hold one event, an event may be
delivered again, dead-lettered and requeued: this is what `EventBus` allows and
no more than that is assumed. `sent` counts submissions to the chain and is a
history variable.

Execution is `ClaimExecution`, then either `Reemit` (a duplicate) or `HaltGate`,
`Execute`, `InsertExecutionResult`, then the lifecycle (`ReadLifecycle`,
`TransitionState`: doMandatoryTransition) and the event. Position open is
`UpsertPosition` and the same tail; evaluation is `Evaluate`. The poll is
`GetOpenPositions`, then for each position `PollHolds` or `PollExits` with
`PollReadsLifecycle`, `PollTransitions`, `PollEmits`. `ForceClosePositions` and
`ClosePositionForced` write snapshots past all of it.

Prices are left open, with one distinction that the code makes: only the
simulated executor sets a realized entry price, so a transaction confirmed on
chain is `unpriced`, and OpenPosition turns it into a failed position. (The
shipped mode is shadow.) The HALTED gate and the mode are one choice here;
`SystemControl` models who sets it.

Modelled as the code is, although it looks odd: the halted path asks for
SELECTED -> REJECTED, which the topology forbids, so a halted allocation ends in
the dead letters; an exit event that reaches evaluation asks for
POSITION_CLOSED -> EVALUATED, which is forbidden too, so it is settled only if
the learning recorder takes it first; RunReconciliation is started by no command
of the bot, but it is there and its writes are modelled.

### 2.3 SystemControl

The names that every machine has begin with Control here (`ControlInit`,
`ControlNext`, `ControlSpec`, `ControlFairSpec`, `ControlTypeOK`), because the
module shares a run with the bus. `row` is system_state: mode, reason, state_version, and the adaptive window its
`updated_at` falls in. `version[c]` is the controller's stateVersion (the
version of its own last write, 0 after a start; no read refreshes it), `last[c]`
its adaptiveLast, `now[c]` the window of its tick. `drawdown` is the band that
the thresholds cut out of the computed drawdown. A tick is `Check` (read),
`Decide`, `WriteSafety`, then `Appetite` (a second read) and `WriteAppetite`.
`Command`, `ReadMode`, `WriteMode` are ExecuteMode, from Telegram or from the
worker of the dashboard's commands, which differ in what they do on
ErrStaleState. `PassGate` and `Submit` are
the pre-check of the execution stage and the submission that follows it;
`PassGateUnread` is the pre-check whose read fails and that lets the allocation
through. `WriteUnanswered` is a write that is committed and whose answer is lost.

EvaluateMode is translated from its code: a low drawdown leads from HALTED or
DEGRADED to BALANCED, and a middling-bad one from HALTED to DEGRADED, although
the comment above it speaks of HALTED -> BALANCED only.

### 2.4 Selection

`life`, `posted`, `settled` and `dead` are as in `Trade`; `open` is what
GetOpenPositions returns. Per process, `batch` and `timer` are the fields of the
selection worker's batch, and `late` the timers that run although `batch.timer`
is another one: Stop comes too late for a function that already waits for the
mutex, and that function clears a field that may hold its successor. A process
has three goroutines here: the selection worker, the function of a timer, the
capital worker. `items` and `picked` are the slice a flush iterates over and what
PickTopK left of it. A token may have been rejected before the behaviour begins, so
that instances with fewer tokens are among those with more.

| action | code |
|---|---|
| `Deliver` | the worker loop claims an event of its type |
| `ReceiveHalted`, `AddToBatch`, `FillBatch` | SelectionWorker.Process: rejected in HALTED; the first item arms the timer and ends the round; the second takes the batch |
| `TimerFires` | the function given to time.AfterFunc |
| `ProcessBatch` | GetOpenPositions and PickTopK, for every order that scores may give |
| `ReadLifecycle`, `TransitionState` | doMandatoryTransition of an item, to SELECTED or REJECTED |
| `InsertSelected`, `InsertOutput`, `EndRound` | the event of another item, the event returned, MarkEventProcessed |
| `Allocate` | CapitalWorker.Process |
| `Traded` | what `Trade` does with an allocation, in one step |
| `StatementFails`, `Crash` | a failed statement; the end of a process, with its batch |

The composition with `Trade` is by its interface: both extend `Lifecycle`, the
allocation event and the row SELECTED (version 5) are the initial state of a
trade, and `OneVerdict` is what `Trade!Init` relies on.

Modelled as the code is, although it looks odd: the first item of a flush that is
not VALIDATED any more ends the whole flush, and the worker marks its own event
whatever became of it; a failed query of the open positions counts as none, so
the cap does not hold then (nor between two processes, each of which counts for
itself), and no property here claims that it does; the cap per creator filters
nothing, because the worker passes it no open positions by creator.

### 2.5 Funnel and Screening

A token enters with the event of its ingestion; the retry of the probe queue and
the rescan bring it again. Each entry is a *run*, and a delivery is an event with
the process that has it in hand. `life` is the row, `estimates` the rows of
probability and slippage by token and trace, `posted`, `settled`, `dead` the bus,
`pc`, `seen`, `choice`, `joined` what a delivery remembers.

| action | code |
|---|---|
| `Deliver`, `Proceed` | the worker loop and the entry of a stage, with its early returns |
| `Assess`, `ReadAgain` | DataQualityWorker: the verdict, the tolerated second look at a row that is further on |
| `Extract`, `DetectEdge`, `Validate` | the workers of features (with the fan-out), edge and validation |
| `Estimate`, `Poll` | the workers of the models; the join of validation, which keeps what it has once |
| `ReadLifecycle`, `TransitionState` | doMandatoryTransition: the row read, then compared and set |
| `InsertOutput`, `Settle`, `Fail` | the output event, MarkEventProcessed, the failure paths |
| `Reenter` | the rescan worker, which takes up what data quality put aside |
| `Selection` | what happens to a validated token later, in one step |
| `StatementFails`, `Crash` | a statement that fails or runs out of its claim; the end of a process |

`Screening` says what this amounts to: a run takes a token that nobody has, moves
it along the topology and ends with a verdict. `Holder` in `Funnel` is the
mapping: the run that has a delivery or an event that can still move the row.
After a fault the mapping need not exist (a stranded token is in nobody's hands),
so the refinement speaks of the steps up to the first one.

### 2.6 Probes and Versions

`Probes`: `raised` and `answered` are the events that ask for a probe, `enriched`
the answers, `budget` the hourly counters of each process, `queue` the table
probe_pending_queue, `drain` how far the drain goroutine of a process is. `Take`,
`Consume`, `Defer`, `EmitEnriched`, `SettleRequest` are the worker,
`ExpireStaleProbePendingRows`, `ClaimDueProbePending`, `EmitExhausted`,
`FailProbePending`, `EmitPending`, `CompleteProbePending` the statements of a
drain cycle in their order. `OthersConsume` is what the other tokens of the chain
take of the budget.

The clock ticks several times an hour (`Hour`), because two things disagree about
when an hour begins: a window of the budget begins when its process does and lasts
an hour, and the identifier of a row holds the hour of the wall clock in which the
row falls due (`BudgetId`, `EventId`: ProbePendingBudgetID and ProbePendingID
truncate). So the identifier of a row that was taken up, or has ended, comes again,
and then EnqueueProbePending, which renews pending rows only, does nothing
(`TakenUp`). `account` is a history variable: a token is `owed` a probe from its
refusal until one of its events is answered, and `written_off` where the code loses
it, at the statement that does.

`Versions`: `strategy` is the table, with both notions of active that the code
has (the status, and the pair of times). `BootCreate` and `BootActivate` are the
start of a process, `ProposeVersion` and `ShadowProposal` the updater,
`ShouldPromote` and `Promote` the promoter, `ShouldRollback`, `MarkRolledBack`,
`RestoreParent` the watchdog. What the statistics say is left open. There may be no
version in force: before the first start, after a rollback whose parent SetStrategyVersionStatus
refuses, or when a configuration comes back (see 3.1); `CurrentIsActive` names the
three, and says that nothing else leads there.

### 2.7 Ingestion, Market, DataQuality, Baselines

`Ingestion`: a launch is one instruction that creates a pool; `notice` is what has
become of its notification, `traffic` how many other signatures of the program (swaps,
above all) are newer, `events`, `marketData`, `watermark` the three tables
the emitter writes one after the other, `gap` the round of the ticker that lists
what a webhook family has launched since the watermark. `Recent` is what
getSignaturesForAddress returns: the newest signatures of the program, of any kind,
up to the batch, before anything looks at their slots (`GetSignatures`). Families
differ in how they are followed (`Route`), which decides who is called and who may
refuse.

`DataQuality` is the verdict: structural rejects, the six detectors and their
weights, unknown facts, external providers, the gates of serial launchers and of
the exploring modes. It has no state and no order of calls. `Market` puts it at
the end of the chain that feeds it: `truth` is a token, a probe finds the truth,
part of it, or nothing (`RunSingleProbe`, `BatchFetch`), `Emit` writes a row of
market_data, a later pass starts from what the pending queue kept
(`RetryPending`) or from a row (`Rescan`, `HydrateFromLatest`), and `Judge` ends
the pass. So what data quality admits can be compared with the token. The list of a
creator's launches (`ListedLaunches`) may be of any length up to the truth: it lags, it
is empty before the indexer comes, and an answer of null, or of an object without a
list, such as one that reports an error with status 200, counts as an empty one and
as known. `judged.listed` is what the service said, so that `AdmittedOnTruth` can
tell a token that got in on a wrong answer from one that got in on none.

`Baselines`: `history` and `dirty` are the store, `baselines` the table, `flushing`
the cycle. The stage appends without end, any reading to any batch of keys; what is
written is a whole window, as the code does. `Outranked` are the keys that a cycle
would not reach: it begins with the first ones in the order each time.

### 2.8 Endpoints

Every endpoint has a condition for the whole behaviour (serves, refuses, drops,
limits), and every combination is a start. `wsIdx`, `cooling`, `wsFails` are the
fields the programs share and work on without a lock: `Dial`, `Subscribe`,
`CountFailure`, `PromoteEndpoint`, `Rotate`, `ReadJSON` are the pieces of the
subscription loop between which another program may step in. `Call` and `HttpRPC`
are the calls with their own index. `Result` is what the decoders make of an
answer without a value.

### 2.9 Pricing

One feed at a time: the pool price of a token with its position, or SOL/USD. The
callers are the position poll and two others; none holds the mutex while it
waits, so `Ask`, `Resolve`, `ReadAccount`, `StoreCache`, `AskDEXScreener` and
`Use` interleave. Time is discrete and enters as ages: of a value since it was
read, of a cache entry since it was stamped, of a call, of the position.
The poll is a cycle: `BeginCycle` lists the positions, or fails to, and takes the time
that decisions are made as of; `BeginOther` and `EndOther` are the price call and the
exits of another position on the list, before this one's or after it, of which only
the time is kept; the next cycle begins when all are served. `PollExit` applies the rules in their order. What the code reads back of a
position (`Loaded`: neither peak nor the share sold nor whether it has trailed)
is part of the model.

### 2.10 Decisions

What the stages between data quality and selection compute, in integers
(percents, tenths, basis points). A token has a kind; the baselines are sequences
of the tokens whose values they hold; `Extract`, `ExtractBlind`, `Route`, `Emit`,
`ExtractionFails`, `Estimate`, `Detect`, `Validate`, `JoinTimesOut` and
`RestartStages` decide which baseline a token is measured against. From that
snapshot on everything is a function: `Score`, `AgeScore`, `DerivedConfidence`,
`Unstable`, `Features`, `EdgeDetected`, `Predict`, `ExpectedValue`, `Accepts`. Validation
needs a row of probability and takes the prior slippage where there is no row of it
(`SlippagesUsed`).

### 2.11 Console

`inbox` is all that was sent to the Telegram bot, an index being an update id;
`forgotten` what Telegram no longer returns, `offset` and `batch` the poller's.
`challenges` and `pending` are the dashboard's confirmation tokens, `emitting` the
accepted commands that are not inserted yet, `desk` the rows on the bus, `carried`
the one the command worker has. `halted` is what /kill and /resume change. `listed` is what GetOpenPositions
returns: rows of positions are only added, so one that was ever open stays in it,
a force close of a position that has exited finds it again and succeeds, and only
one of what was never stored, or of several tokens at once, fails.

| action | code |
|---|---|
| `Send`, `Poll`, `PollLost`, `Dispatch`, `DispatchFails` | getUpdates with its offset, and the dispatch of a batch |
| `Enable` | the second half of /enable_trading, after its read |
| `Challenge`, `Order`, `Confirm`, `ConfirmMismatch`, `Expire` | the handlers of the dashboard |
| `EmitOperatorCommand`, `EmitFails` | the insert of the event |
| `Claim`, `Execute`, `Release`, `Mark`, `TimeOut` | the command worker and its claim |
| `BotRestarts`, `DashboardRestarts` | what is lost with a process: offset and batch; tokens and accepted commands |
| `Buy`, `Opens`, `TriggeredRescan` | the bot, as far as commands depend on it |

### 2.12 Submission

`Trade` has one step `Execute` with any outcome. `Submission` is what happens in
that step, for several orders at a time, and it has the chain in it: `pool` the
transactions that some node has taken, `blocks` those in a block with their
commitment and error, `height` the age of blockhashes, `forks` how many blocks
were thrown out. A transaction is an order and its key, a blockhash or a nonce,
because the signature is a function of the two. The bot as shipped passes no client for
the EVM executor (`cmd/serve.go:200`); its code is modelled as it stands.

| action | code |
|---|---|
| `FetchBlockhash`, `SendTransaction`, `RenewBlockhash` | the loop of Execute (`modules/execution_solana`), with the answers the client can make of an RPC: a signature, a blank one, an expired blockhash, an error, none |
| `ConfirmSignature` | confirmWithTimeout: an error ends it at any commitment, success at "confirmed" only |
| `InsertSolanaSignature` | processSolanaAlloc, best effort, the first row stays |
| `AllocateNonce` | the upsert that counts; if it fails there is no result |
| `SendRawTransaction`, `PollReceipt` | Process of `modules/execution`: everything up to the submission, and the first receipt |
| `ExecutorStops` | the process or its context ends |
| `NewBlock`, `Include`, `Finalize`, `Fork` | the chains: recent blockhashes, nonces in order, blocks that are final or are thrown out |

## 3. What TLC checks

Deadlock is not checked: the system may come to rest (all events settled, bounds
used up), and the loops that would go on forever have nothing to do then.

| run | instance | what it shows |
|---|---|---|
| `backbone_core` | bus: 3 events (a root with an output, a second root of the first stage), 2 workers, 1 listener, cap 1, 1 fault, 1 requeue, prompt stages; control: 2 controllers, both command sources, 1 executor, 1 change of the drawdown, 2 windows, 1 command, 1 fault; decisions: 2 tokens of four kinds after 2 others, 1 mishap; console: 2 requests, 1 confirmation, 1 fault; 1.1 million states | `OneHolder`, `NoEarlyBurial`; `OneMovePerWindow`, `OperatorOutlivesWindow`, `LateSubmissionsBounded`; `BirthBlockedByPeers`, `UnknownAgeNeedsInstability`; `OncePerChallenge`, `EveryUpdateHandled` |
| `delivery_core` | bus: 3 events, one with an output that is refused, 2 workers that may outlive their claims, 2 faults, 1 requeue; endpoints: 3 of each kind in any condition, 2 programs, 1 caller; with fairness; 0.3 million states | `NoSilentDrop`, the refinement `ImplementsWorkQueue`, the liveness `EveryEventSettles`; the liveness `FailoverFindsService` |
| `funnel_core` | 1 token, 1 model, a rescan, 2 processes, 1 fault and then 2 deliveries at a time; with fairness; 0.2 million states | `OneRunCarries`, the refinement `ImplementsScreening`, the liveness `EveryTokenScreened` |
| `selection_core` | 2 tokens of one creator, 2 processes, 1 position allowed, 1 fault and then 3 goroutines at a time; or 3 tokens, 1 process, no fault; with fairness; 0.45 million states | `OneVerdict`, `NothingForgotten`, the liveness `EveryTokenDecided` |
| `trade_core` | 1 trade, 2 workers, 2 pollers, 1 fault and then 2 goroutines at a time, one exit reason; pricing: 3 callers, a curve or an unreadable pool, two prices, cycles of up to two positions, one lost list or snapshot; submission: one order of Solana with 3 attempts and 3 blocks, two of one EVM wallet, one fork; 1.0 million states | `AtMostOneSubmission`, `OneResult`, `OpenMeansFilled`, `ExitsAreRecorded`; `ServedPriceIsRecent`, `ClosesInTime`; `LandsOnce`, `ResultTellsTheChain` |
| `upkeep_core` | probes: 1 token with or without a name, 1 process, 3 ticks of half an hour, 1 attempt, 1 fault; versions: 2 processes, 2 configurations, 1 proposal, 4 starts; with fairness; 0.44 million states | `NoDeferralForgotten`, the liveness `DueRowsEnd`; `CurrentIsActive` |
| `intake_core` | ingestion: 2 families of 2 launches, a batch of 2 with other traffic in it, 1 fault; market: 6 tokens, 2 passes for one of them; baselines: 2 keys, windows of 1 value, writes of 1 key, 2 faults, no bound on the events; with fairness; 0.19 million states | `WatermarkHasData`, the liveness `GapsClose`; `AdmittedOnTruth`, `LooserModesAdmit`; the liveness `DirtyWindowsAreSaved` |

What the less obvious ones say, and why they hold:

- `AtMostOneSubmission` is what ClaimExecution is for. It holds because a
  reservation is never taken back: the price is that a crash between the
  reservation and the result leaves the trade to the dead letters.
- `OneMovePerWindow` holds over restarts because a restarted controller's version
  is 0, and so every write of it fails once the row has been written. The same
  mechanism is behind `OperatorOutlivesWindow`, and behind the disagreement
  `control_drawdown` below. A repair that resynchronised the version would have
  to give both properties another reason to hold (the slip
  `WriteAppetiteResynced` is such a repair, and breaks the second).
- `LateSubmissionsBounded` says what a halt does not promise: the allocation
  under way is still submitted, and one more for each pre-check that cannot read.
- `NothingForgotten` and `EveryTokenDecided` hold without faults only, and say so.
  The event of a token is marked while the token waits in memory, so after a
  crash nothing leads back to it. Without a fault they rest on a timer that is
  always there when the batch is not empty: a late timer that clears the field of
  its successor takes the successor's item too. The run has a third token for that:
  the second one fills the batch, the third arms the next timer, and only then does
  the function of the first timer run. Without a fault is a premise of both; what a
  crash or a failed flush loses is said in 3.1 and not claimed to be kept.
- `OneRunCarries` and `ImplementsScreening` hold without faults only, too: a
  delivery that fails after its transition is taken for already advanced when it
  comes again, and its token stays where it is. A rescan does not look at the row
  of the token it brings, only at its latest decision; that the two agree is what
  these properties rest on.
- `EveryEventSettles` excepts what the table refuses, and what is behind it: an event
  whose output is refused is delivered without end, and workers that outlive their
  claims may take it, the oldest, again and again.
- `NoDeferralForgotten` is about every token that was refused a probe, and excepts
  those that the code writes off: the insert or the retry failed, which it logs; the
  drain stopped between the expiry of a row and its last retry; or the identifier of
  the row was taken. The last one is quiet: a process restarts, its window now ends
  later in the hour in which a row of the token falls due, the row is re-emitted, and
  its retry is refused once more (or the second window is that of another process,
  and nothing has failed at all).
- `CurrentIsActive` holds for ActivateStrategyVersion because it closes every row
  that is open, whatever its status says, and for the promotion because the loops
  find candidates by status. Each would break the other's notion alone. A table
  without a version in force satisfies it only in the three ways that it names.
- `WatermarkHasData` is the order of the emitter's three statements; `GapsClose`
  allows that a later launch moves the watermark past a gap, because it does, and
  asks nothing of a launch that a batch of newer signatures hides.
- `AdmittedOnTruth` is about the whole chain of probes: what one misses, another
  remembers, and an older row brings back, does not let a token in that should
  stay out. It allows what the code cannot tell: a service that answers with a list
  too short lets a serial launcher in. What it rules out is that a creator is let in
  because nobody answered: data quality then asks its own database, and takes a count
  of none for unknown.
- `LooserModesAdmit` is not true of any figures: a looser mode that asks more
  holders of a serial launcher than the one before it would lose a token. What it
  takes is `LooserLadder`, which the shipped figures satisfy; that it takes no more
  is not obvious, since the exploring modes skip where the strict ones do not.
- `DirtyWindowsAreSaved` is about a window that is dirty before the flush takes its key
  up: it is written, or has grown on, whatever fails. It excepts a key that others
  outrank again and again, and says nothing of a value appended after the copy of its
  window was made, which MarkClean makes clean unsaved (3.1).
- `ClosesInTime` counts in cycles, not in ticks of the poll: the poll serves what it
  has listed one by one, so a position waits for the calls of all others, twice at
  worst, and once more for each list or snapshot that is lost. The list keeps the
  positions that have exited (GetOpenPositions has no way to leave them out), so the
  bound in hours grows with every position ever opened.
- `FailoverFindsService` is claimed for a program that is alone in its attempt. Two
  that fail at one endpoint rotate twice, and may miss the one that serves.
- `ServedPriceIsRecent` bounds a served price by the stale window and the length
  of a call, although StoreCache stamps a value with the time it is stored.
- `LandsOnce` rests on isBlockhashExpired alone: an order is signed anew only after
  an answer that says the node did not take the transaction before it. A timeout,
  which says nothing, ends the order instead.
- `ResultTellsTheChain` names the three ways in which the bot may own a token that
  no position knows of: the answer to the transaction or to a poll is lost, the
  time to wait is over before the block, or an error is read in a block that is
  thrown out afterwards. The order is recorded as failed in each, and nothing
  looks at the transaction again. The reservation keeps it from being bought twice.
- `BirthBlockedByPeers` is what is left of "births are blocked" (see 3.1): the
  capped score is equal to the gate, so the baselines decide.
- `UnknownAgeNeedsInstability` says that an unknown age is enough to block a
  token, unless unstable signals hand the confidence they lose to the others.
- `OncePerChallenge` and `EveryUpdateHandled` hold over restarts of either side; a
  message may be dispatched by two runs of the bot, never twice by one.

### 3.1 Where the code and its documents disagree

Each of these runs checks one statement of a comment or document, and TLC shows
an execution of the code that breaks it.

| run | statement | what happens |
|---|---|---|
| `bus_fanout` | "every event ... is claimed by exactly one primary group" (`docs/reference/implementation_roadmap.md:198`) | a listener claims the event type of a stage and marks the row, and the stage never sees it; the comment in `postgres/events.go:105-108` knows that one flag is right for a linear pipeline only |
| `trade_reemit` | the redelivery re-emits the result so that "a crash window ... cannot leave the pipeline stuck" (`workers/run_execution.go:121-125`) | the re-emitted event carries the allocation's id, which the bus already has, and is dropped |
| `control_drawdown` | the controller "transitions the system mode between BALANCED, DEGRADED, and HALTED" (`workers/run_risk_controller.go:51`) | after an operator command its version is stale for good, and a drawdown no longer halts |
| `console_kill` | "All execution workers MUST check IsSystemHalted" (`shared/database/adapter.go:519-520`) | the execution stage reads the mode only, and buys under the kill switch |
| `console_poison` | "Every event terminates in finite time — either successfully processed or moved to DLQ" (`docs/ops/PROGRESS_REPORT.md:197`) | a force close whose target no listed position matches (or several tokens do) cannot succeed: it is released, uncounted, and being the oldest is claimed again at once; those behind it never run |

Others were read and not run, because the models leave out the data they are
about, or because they are statements about one line:

- *Bus.* "Only one worker claims each event" (`docs/reference/db_adapter_spec.md:652`):
  a claim has no owner, and a slow worker that fails releases the claim of its
  successor (`EventBus` models it; `OneHolder` is stated for prompt stages).
  MarkEventProcessed "only after successful stage execution"
  (`shared/database/adapter.go:44`): the first item of a selection batch is marked
  while it waits. An old command of the dashboard that is redelivered replays
  after newer ones. An output that InsertEvent refuses is tried for ever, and is
  neither "successfully processed" nor "moved to DLQ"
  (`docs/ops/PROGRESS_REPORT.md:197`).
- *Versions.* "Exactly one version has Status="active" at any time"
  (`shared/database/adapter.go:947`, `docs/reference/dto_contracts.md:913`): there is none after a
  rollback whose parent is refused. And ActivateStrategyVersion leaves the
  deactivated_at of a version that it activates again: start with one configuration,
  with another, and with the first again, and GetActiveStrategyVersion, which is said to
  prefer the status (`postgres/versions.go:51`) and looks at the times, finds nothing,
  the active row is closed by nobody, and the unique index on the status refuses every
  other configuration at its start.
- *Probes.* A row is "one queue row per hour" of a token
  (`shared/database/probe_pending_id.go:19-21`), also when the row has been taken up or has
  ended: a refusal that meets it is logged as queued and is lost.
- *Baselines.* "The remainder is naturally picked up on the next tick"
  (`workers/baseline_flush.go:44-45`): the next tick begins with the first keys again, and a
  late one waits for as long as those are dirty. A value appended between DirtyKeys and
  MarkClean "will be flushed next cycle (the Append re-marks it)"
  (`modules/features/baseline.go:182-184`): between the copy and MarkClean it is not, and
  stays unsaved until something is appended again.
- *Positions.* GetOpenPositions "returns all currently open positions"
  (`postgres/positions.go:66`): an exited one is still returned, counts against the
  cap and exits again. The filled share is not loaded, so a configured partial
  sale repeats at each poll; the peak is not loaded either, so the trailing stop
  is never armed. A transaction confirmed on chain sets no realized entry price
  and opens as failed. A shadow fill without a price pays 0.000001.
- *Execution.* "`processed`: NEVER — too weak" (`docs/reference/architecture.md:5034`):
  an error of that commitment is final to confirmWithTimeout. "On timeout, the
  signature is recorded with status=dropped" (line 5039): it is recorded as failed,
  with CONFIRM_FAILED. "Each retry uses a fresh recent blockhash" (line 5027): the old
  one, if the new one cannot be read. Nonces have "no gaps" (line 4160): one is spent before gas price,
  quote and guard may end the order, and the next transaction of the wallet waits
  for it; ReconcileNonce has no caller and ErrNonceGap no use. Every Solana order
  goes to the market of the first configured program (`cmd/serve.go:677`), since
  Execute is called without one.
- *Scores.* The cap of a birth's liquidity score is equal to the gate, so births
  at or above the mean of the baseline pass although
  `modules/features/liquidity_scoring.go:44` and
  `docs/specs/2026-06-23-fortress-posture-design.md:29,36` say blocked; just beyond
  the 5 % around the anchor a birth scores less than inside. An unknown age takes
  the confidence with it, although `modules/features/features.go:452-454` and
  `modules/edge/edge.go:343-345` mean it
  to be neutral. Instability raises the confidence of the stable signals. Price
  momentum is measured against raw prices. Retried features are measured against
  a history that holds the token already. The estimates are made from the first
  run's features, the edge from the last one's. An α row is keyed by chain and
  read by chain and market, so α is always 1; a realized latency is never
  recorded.
- *Intake.* The recovery "fetches and re-emits events for slots [fromSlot+1, toSlot]"
  (`modules/ingestion_solana/gap_recovery.go:18-19`): it asks for the newest 100 signatures
  of the program and then drops those of other slots, so a launch that 100 swaps have
  followed is not found by any round. An error of the reputation service that comes as
  an object with status 200 is a creator without launches, and known. A failed read of market data rejects a token for good; a rescan does
  not bring the social links (`workers/run_rescan.go:261`); rescanned tokens keep an
  age of one second; a pool account is told from another by its length.
- *Client.* A failed dial never rotates, two limited endpoints alternate, the
  attempt counter of a program loop is never reset, an answer of null makes a
  blank blockhash.
- *Operator.* "Already-seen updates are never replayed" (`telegram/poller.go:15`)
  is false after a restart; an alert is marked although sending failed;
  /enable_trading clears a kill that came between its read and its write; an
  unread system_state means BALANCED, although the thresholds "fail closed to
  STRICT".

### 3.2 The bounds, and why they are enough

- *Faults* (`MaxFaults`, `MaxControlFaults`, `MaxMishaps`, `MaxConsoleFaults`,
  `ProbeFaults`, `IngestFaults`, `BaselineFaults`, `PricingFaults`): a crash, a
  failed statement, a lost answer, as each module says. Every hazard in
  `PROJECT.json` needs one fault, or one fault and a slow stage; two let the
  recovery itself be interrupted, and are used where the state space allows it.
- *After a fault* (`Crew`): in `trade_core`, `funnel_core` and `selection_core` two
  or three goroutines are at work at a time once a fault has happened, and all of
  them before it. What recovers meets one that goes on, or two. The properties of
  the funnel and of selection that are about behaviours without a fault lose
  nothing by it, and the others are theorems without this bound.
- *Requeues*: one requeue brings an event back with its history; a second one
  starts from the same states.
- *Retries*: the cap is 1 instead of 3. An event is then delivered, retried and
  buried within the bounds, which is what the comparison with the cap is about.
  The probe queue has 1 of its attempts, so that with the one fault a row that
  cannot be re-emitted is exhausted at once; a second attempt is left to the theorem.
  `funnel_core` has the rescan and not the retry of the probes (`Retries` is empty):
  both enter as a second run, and the theorems have any set of either.
- *Workers and processes*: two for each role where two meet in a row. The code has
  no counting of workers; every statement looks at one row, and what a third
  worker could do, one of the two can do after it is done. The theorems remove
  this bound where there are any. The drain of the probe queue is one process in
  `upkeep_core`.
- *Trades, tokens of the funnel*: one. They share no row: every statement is about
  the rows of one trade or token, except for the poll's list. The theorems about
  trades remove this bound.
- *Orders*: one of Solana, since orders of Solana share nothing; two of one EVM wallet,
  which share its nonces. Three attempts are a first, a middle and a last one; a
  blockhash lives one block (`Validity`) of the `MaxHeight` = 3, so it expires
  while it waits and while it is sent; one fork (`MaxForks`) is the case in question.
  The theorems about orders remove these bounds.
- *The batch of selection*: its tokens are those of one chain, since a batch and
  its count of open positions are per chain. The window is positive, as shipped
  (3 s), and far shorter than the claim timeout, so the event of a waiting token
  is not delivered again. `top_k` is 0 as shipped, so the cap is max_positions,
  here of one mode. Two tokens let the second fill the batch while the timer of
  the first is late, and a third one starts the batch that this timer then meets;
  three tokens are taken in one process and without a fault, which is what the
  properties of liveness speak of.
- *Drifts, windows, commands*: enough for a halt and a recovery, a move before
  and after a window's end, and a command at every point in between.
- *Scaled figures*: a baseline is warm with `MinSamples` = 2 values instead of 20
  and can show instability with `MinBars` = 3 instead of 30; a window of
  `Baselines` holds 1 value of two, a flush writes 1 key of two; the probe budget is one
  token, or the credits of one, a pending row lives 1 hour of 2 ticks; a batch of
  signatures holds 2 instead of 100, a cycle of the poll 2 positions; prices take two levels, a basis is 10. Each is large
  enough for its limit to be met and passed. All other figures of `Decisions` and
  `DataQuality` are those shipped.
- *Clocks*: `MaxClock` and `MaxSlot` end the clock, and the properties that need
  time left say so (`DueRowsEnd`). `Pricing` needs no end: ages saturate once they
  are beyond every limit.
- *Console*: two requests are a command and one that overtakes it, from either
  side; one confirmation, asked for again and again.

Slow stages are a constant of the model (`SlowHandlers`), because the code has
no lease renewal and the claim timeout (300 s by default) bounds no stage.
`OneHolder` and `NoEarlyBurial` are stated for prompt stages.

### 3.3 Fairness

Faults, restarts and requeues are never fair, and they are bounded, which is the
assumption that they do not go on forever. What is assumed is weak fairness of:

| module | of | because |
|---|---|---|
| `EventBus` | each worker's next statement; the passing of time for each claim | its goroutine loops until the process ends, and a stopped process is started again |
| `Funnel` | each delivery's next step | the same |
| `Selection` | the selection worker of each process; a timer that is due and its function | it polls; the runtime runs timers |
| `SystemControl` | each controller's tick | its ticker |
| `Probes` | a process's worker, its drain, the clock | polling and a ticker; time passes |
| `Ingestion` | the gap round of each webhook family | its ticker; `GapsClose` asks nothing of notifications, which may all be lost |
| `Baselines` | the flush | its ticker; the stage may append for ever, and nothing is asked of it |
| `Endpoints` | each program's loop, each call, the end of a cooldown, the rate limiter's tick | goroutines and timers |
| `Console` | the command worker, the timeout of a claim, the storing of what was bought | it polls; time passes; the opening stage runs |

Nothing is assumed of what a stage returns (one that fails forever is
dead-lettered), of what a probe finds, of operators, of the capital stage or of
trades. `Pricing` and `Decisions` have no liveness: `ClosesInTime` is a bound on
time, a safety property. `delivery_core` has no listener: two claimants that release a
row to each other without counting can go on forever under weak fairness, and
the code does not rule that out.

## 4. What is proved

Every safety invariant, action property and refinement that a passing run checks is
the conclusion of a theorem, for any sets (events, workers, trades, tokens,
processes, controllers, requests, orders, wallets, launches, families, keys, ...)
and any bounds. The theorems rest on the assumptions that stand with the constants
of each module: `BusAssumption`, `ControlAssumption`, `ConsoleAssumption`,
`DecisionsAssumption`, `FunnelAssumption`, `SelectionAssumption`,
`TradeAssumption`, `NoEventAssumption`, `SubmissionAssumption`,
`PricingAssumption` and `KindsAssumption`, `ProbesAssumption`,
`VersionsAssumption`, `IngestionAssumption`, `DataQualityAssumption`,
`MarketAssumption`, `BaselinesAssumption`. They say that the constants are of
their kind, that the names of different things differ, and what the code
guarantees of a figure (a percent is at most 100, a window is positive). TLC
evaluates all of them.

Three theorems have a hypothesis more, about the configuration. `ClosedInTime`
takes `Tp1FilledPct = 0` (everything is sold at the first step, as shipped; with a
partial sale the position that is read back has forgotten it, see 3.1).
`AdmittedTokensAreAsKnown` takes `StrictLimits`: the limit on launches is 1,
supply has a limit, and the modes that do not explore have no limit of their own.
With a higher limit the count that data quality reads from the database when no
service has answered, which may be any number of the launches that the bot has seen,
could be below it while the truth is above. `LooserModesKeepTokens` takes `LooserLadder`. TLC evaluates
the last two for the shipped figures (`ShippedFigures` in `MCMarket`), so they are
not empty.

- **EventBus** (`BackboneProofs`). `Shape` (types; a worker that is about to mark its event has put
  the output on the bus, or ended the event, or is a listener; dead letters are
  processed) is inductive and gives `TypeCorrect`, `DeadLettersAreSettled`,
  `SettledForGood`; with no listeners also `NothingDropped` and
  `BusImplementsQueue`, the refinement. With listeners both are false, as
  `bus_fanout` shows. For prompt stages `Exclusive` (a row in a worker's hands is
  freshly claimed, unprocessed and in no other's) is inductive on top of `Shape`
  and gives `ExclusiveHolder` and `RetriesUsedUp`.
- **SystemControl** (`BackboneProofs`). `Versions`: what a writer has read is not newer than the row
  and is the row if it is as new, and a controller's own version is not newer
  than what it has read. `Turns`: a controller in step with the row remembers a
  window as late as every move made so far, and no controller is in step with a
  row that an operator wrote. `Budget`: what an executor may still submit. They
  give `NoLostUpdates`, `SafetyModesKept`, `OneMove`, `OperatorWins`,
  `HaltLeaksAreBounded`.
- **Console** (`BackboneProofs`). `TokensSpent`: a command that needed a
  confirmation, wherever it is between the dashboard and the desk, carries a token
  that was issued for it, that nobody can confirm any more, and that no other
  command carries. It gives `OneCommandPerToken`. `UpdatesKept`: the batch in hand
  is the unbroken stretch of updates before the offset; what lies before its first
  one, or what Telegram has forgotten, has been dispatched; and this run has
  dispatched nothing beyond it. It gives `NoUpdateSkipped`; the offset alone says
  nothing of the updates that were received and not dispatched yet.
- **Decisions** (`DecisionsProofs`). The invariant is that a verdict rests on
  features that are still there: what an edge was detected on was emitted, what a
  token was accepted on was routed, and kinds never change (`Carried`, `Verdicts`).
  The rest is arithmetic: a birth whose score reaches the gate lies at or above the
  mean of its baseline (`EdgeAboveMean`), and an unknown age leaves too little
  confidence for any mode unless something is unstable (`UnknownAgeIsRejected`).
  Means and deviations are recursive functions over a sequence, so the module first
  proves `Induction` and `Recursion` over the natural numbers.
- **Funnel** (`FunnelProofs`). `Quiet` holds as long as nothing has failed: an event
  is delivered once, the output of a stage is inserted when its input is settled,
  and the events that have a token in hand agree with its row, are one for each
  token, and exist for every token under way. `OneRunCarries` says none of this of
  the events, which is why it is not inductive. It gives `OneRunCarriesAToken` and
  `FunnelImplementsScreening`, step by step.
- **Selection** (`SelectionProofs`). `Shape` (types; what each goroutine holds at each statement; the
  row a flush has read is a row the token had; what is announced is in the row) is
  inductive and gives `SelectionTypeCorrect` and `VerdictsAgree`. `Exclusive`, on
  top of it, says that as long as nothing has failed a token is in one place (one
  batch, one flush, one worker's hands, or the bus), a token that is still to be
  decided is VALIDATED, a batch that is not empty has its timer, a row that was
  read is still current, and every token without a verdict has its place. It is
  what `NothingForgotten` needs to be inductive, and gives `NothingLost`: the loss
  of a waiting token takes a failure.
- **Trade** (`TradeProofs`). Three layers, each inductive given the ones before. `Shape`: what a
  process holds at each statement. `Gate`: the worker that won ClaimExecution is
  alone with its trade until it posts the result, has submitted nothing before
  it executes, and the row and lifecycle agree with what it is about to post;
  this is why `AtMostOneSubmission`, `OneResult` and `ResultIsFinal` are not
  inductive by themselves: they say nothing of workers in flight. `Book`: a
  position that has ever been open belongs to a posted fill, and what a poller
  is about to announce is in the table. Together they give `SubmittedOnce`,
  `ResultsAgree`, `FinalResults`, `NoPhantomPositions`, `ExitsRecorded`.
- **Submission** (`DeskProofs`). What some node holds of an order carries the key the order was
  signed with last, and its executor has left the loop that signs; no transaction
  waits and is in a block at once; and `Tells`, which ties each outcome to what is
  in the pool and the blocks. Neither property is inductive alone: both speak of
  blocks, and what gets there was in the pool before. Every step of an executor is
  first shown to be of one form (`Moves`), which keeps the invariant. They give
  `BoughtOnce` and `ReportsAgree`. For the types, the nonces that are taken are
  as many as the orders that signed with one.
- **Pricing** (`DeskProofs`). A value may be stamped later than it was read, by at
  most the length of the call that read it (`CacheOK`, and the same for a value
  in a caller's hands); so what the cache serves by its stamp is bounded by its
  read. It gives `ServedInTime`. `CycleOK`: what a cycle has spent and what its list
  still needs (`Turns`, a call each, and the `Rest` of the one under way) are no more
  than `MaxCycle`. `Closing`: the age of a position that has no exit is bounded by
  `Latest` and by what the cycle has spent, since no unit of time passes between two
  cycles, and the one that began past the end of the time closes it when its turn
  comes. They give `ClosedInTime`, for lists of any length.
- **Probes** (`UpkeepProofs`). A row of the queue belongs to one token for good
  (`Owner`: the identifier says which), rows are not deleted, a waiting row has
  attempts left, and a completed one has its retry on the bus. `AccountKept`: a token
  that is owed a probe is `Brought` back, by an event that no worker is about to mark, or
  by a row that is awaited (`Live`, `Awaited`). `NoDeferralForgotten` does not say which worker's event it is,
  nor that a claimed row is in the hands of a drain or will expire, and each of its
  alternatives ends in another. It gives `DeferredTokensKept`.
- **Versions** (`UpkeepProofs`). `RowsOK` of the table: at most one row is in force
  by its times, and its status says active. Of each writer it is shown what the
  table is after it, as a value (`SucceedKeeps` and its likes), and that it leaves a version
  in force but in the three ways named (`NoneInForce`); a rollback under way
  has a parent to restore. It gives `OneVersionInForce`.
- **Ingestion** (`IntakeProofs`). A notification that has come to the row has its
  event, one that has come to the watermark has its row, and so does the oldest of
  a gap round. It gives `WatermarkNamesData`.
- **Market and DataQuality** (`IntakeProofs`). `FactsOK`: what a pass knows is no
  better than the truth (links that are there, the supply that it has), for the facts of the pass under way and of the pending
  queue; what a row or the cache of holders can bring back is typed. Each probe
  keeps it. What a service says of the launches may be wrong; what data quality fills in
  where none answered is at least one, the limit, so that the token is turned down
  (`JudgedOnTruth`). It gives `AdmittedTokensAreAsKnown`. For
  `LooserModesKeepTokens`, the verdict is first taken apart (`AdmitsWhen`); then
  each part is compared in two modes: a looser one has no reason that a stricter
  one has not (`FoundLoosens`), watches or clears where that did not skip
  (`WatchLoosens`), and computes no higher risk (`RiskMonotone`), since the risk is
  a sum that is monotone in its terms. That a sum over a finite set obeys its
  equations is shown by taking the fold apart (`SumEquations`), with an induction
  on the size of the set.
- **Baselines** (`IntakeProofs`). The windows in memory, in the table and in the
  hands of a flush keep their length and hold observed values.
- **Side by side.** `BackboneTypeCorrect`, `DeskTypeCorrect`, `UpkeepTypeCorrect`
  and `IntakeTypeCorrect`: a behaviour of the instance that runs several components
  is a behaviour of each, so each one's invariant holds in it.

Proved and not run: `DeadLettersSettled`, `SettledStaysSettled` (`EventBus`),
`ResultIsFinal` (`Trade`), `AppetiteKeepsSafetyModes` and `WritersHaveRead`
(`SystemControl`; the last says that no update is lost although the controller
compares a version it did not read, because its own version is at most the
version it has read).

Induction: the library's induction theorems take an operator as a parameter, which
the provers at hand cannot instantiate. What is needed of it is derived from the
well-foundedness of the natural numbers (a set of numbers that is not empty has a
least element, `LeastNatural`), with the counterexamples of the statement at hand
as that set.

What the proofs changed in the models. The bound of `ClosesInTime` is two cycles
and not one: a cycle decides as of the time it began, so one that begins just before
the end of the time serves all its positions in vain, and only the next one sees the end. Two arms of a CASE in `Decisions`
overlapped. Several modules relied on what their instances had and no assumption
said: that a bound on faults is a number, that a marker is none of the things it
is told apart from, that the figures of profiles are numbers. `GapsClose` holds
with the fairness of the recovery alone.

Model-checked only: the five disagreements, which are counterexamples, and
liveness, since fairness and ENABLED are beyond the prover: `EveryEventSettles`,
`FailoverFindsService`, `EveryTokenScreened`, `EveryTokenDecided`, `DueRowsEnd`,
`GapsClose`, `DirtyWindowsAreSaved`. `Endpoints` has no theorem, because what is claimed of it is
liveness. No module declares a recursive operator.

## 5. What is not modelled, and why

Of the modelled parts: the text and content of events; gas, the quote and
the slippage guard of the executors (they refuse), MEV routes, and how a token is
mapped to a wallet; the
evaluation's metrics; the amount adjustment of the reconciliation; the debounce
of validation (left open as a rejection); the scores of selection and the sizes of capital; the statistics that promote or
roll back a version; the correction of the edge by latency, the α of the slippage
model and the drift detector; the probes of EVM chains; the commands that only
read, and the alerts; the controller's cold start without a row, which the
migration rules out, and the events it announces.

Not modelled at all: ReconcileNonce, which has no caller; the resource
limits of execution (the semaphore and the budgets are wired nowhere, and the
circuit breaker is not reached: Process of the execution module returns no error,
so RecordFailure is never called), EVM ingestion and the EVM client, byte layouts
and encodings of transactions, configuration parsing and the contract records,
the views of the dashboards and the web front end. Their content is data, wording
or input and output; what depends on a setting has a constant for it.

## 6. The plan

1. An abstract specification of the probe queue (a token is owed a retry until it
   is answered or given up) that `Probes` implements, and one of the positions
   that `Trade` implements.
2. The loop from the realized slippage to α, the latency record and the drift
   detector, beside `Decisions`.
3. The debounce of validation over its ring, and the sizes of capital, as
   operators with reference definitions.
4. A module for the limits of execution once something calls them.
