------------------------------- MODULE Probes -------------------------------
(***************************************************************************)
(* The market probes and the queue of the tokens they put off              *)
(* (run_market_probes.go, probe_budget.go, probe_completion.go,            *)
(* run_probe_pending.go in sniper-bot/internal/workers; probe_pending.go   *)
(* in shared/database/engines/postgres).                                   *)
(*                                                                         *)
(* Every market data event passes the probes of a process before data      *)
(* quality sees it.  A name the process has met is flagged without a       *)
(* probe; a token beyond the hourly budget is put off in a table; a token  *)
(* whose probes leave a mandatory field unknown is passed on and put off   *)
(* as well.  The drain goroutine of each process re-emits what is due.     *)
(*                                                                         *)
(* A clock moves the windows, the due times and the expiry; it ticks Hour  *)
(* times an hour, since a window starts when its process does and a row is *)
(* named after the hour in which it falls due.  What a probe finds is left *)
(* open, and other tokens of the chain use up the budget.  The bus         *)
(* redelivers an event until it is settled (see EventBus).                 *)
(***************************************************************************)
EXTENDS Integers, FiniteSets

CONSTANTS
  Tokens,        \* tokens of one chain
  Bots,          \* processes of the bot
  NameOf,        \* the name of a token, or NoName
  NoName,        \* a token without a name (EVM)
  KnownNames,    \* name_dedup.known_tokens
  FreshCap,      \* rate_limit_buckets.fresh_tokens_per_hour, 0 for none
  RescanCap,     \* rate_limit_buckets.rescan_tokens_per_hour, 0 for none
  CreditCap,     \* max_probe_credits_per_hour, 0 for none
  ProbeCost,     \* credits that the probes of one token cost
  Hour,          \* ticks of the clock in an hour
  Ttl,           \* pending_queue.ttl_hours
  MaxAttempts,   \* pending_queue.max_attempts
  NoRequest,     \* the worker holds no event
  MaxClock,      \* bound: the clock stops
  ProbeFaults    \* bound: crashes and failed statements

ASSUME ProbesAssumption ==
  /\ {FreshCap, RescanCap, CreditCap, ProbeCost, MaxClock, ProbeFaults} \subseteq Nat
  /\ {Hour, Ttl, MaxAttempts} \subseteq Nat \ {0}

VARIABLES
  clock,      \* ticks since the model starts
  raised,     \* events: the rows of type market_data_event
  answered,   \* events: those rows that are processed
  enriched,   \* events: what the probes returned, by the event they answer
  cache,      \* seenNames of each process
  budget,     \* probeBudget of each process
  probing,    \* the event each worker works on, its statement and its findings
  queue,      \* probe_pending_queue: a row per pending_id
  drain,      \* the statement of each drain goroutine and the rows it holds
  account,    \* of each token: "owed" a probe since it was last answered, or "written_off"
  mishaps     \* faults so far

probesVars == <<clock, raised, answered, enriched, cache, budget, probing,
                queue, drain, account, mishaps>>

Times == 0..MaxClock

\* The event of ingestion, that of a rescan, and those of the drain, which are
\* named after the row.
Root(t)   == [kind |-> "ingest", token |-> t, row |-> NoRequest]
Rescan(t) == [kind |-> "rescan_15m", token |-> t, row |-> NoRequest]
Retry(kind, t, id) == [kind |-> kind, token |-> t, row |-> id]
RetryKinds == {"probe_pending_retry", "probe_exhausted_retry"}

\* database.ProbePendingBudgetID and database.ProbePendingID: hashes of texts of
\* a different form, both with the hour in which the row falls due and no more.
BudgetId(t, due) == [scope |-> "token", of |-> t, hour |-> due \div Hour]
EventId(e, due)  == [scope |-> "event", of |-> e, hour |-> due \div Hour]

IsRescan(e) == e.kind = "rescan_15m"

EmptyBudget(h) == [start |-> h, credits |-> 0, fresh |-> 0, rescan |-> 0]
NotProbing == [event |-> NoRequest, at |-> "idle", flags |-> {}]
Resting == [at |-> "rest", rows |-> {}, sent |-> {}]

ProbesTypeOK ==
  /\ clock \in Times
  /\ answered \subseteq raised
  /\ \A e \in raised : e.token \in Tokens
                       /\ e.kind \in RetryKinds \union {"ingest", "rescan_15m"}
  /\ \A a \in enriched : a.event \in raised /\ a.flags \subseteq {"duplicate", "copycat"}
  /\ \A p \in Bots :
       /\ cache[p] \subseteq {NameOf[t] : t \in Tokens}
       /\ budget[p].start \in Times
       /\ CreditCap > 0 => budget[p].credits \in 0..CreditCap
       /\ FreshCap > 0 => budget[p].fresh \in 0..FreshCap
       /\ RescanCap > 0 => budget[p].rescan \in 0..RescanCap
       /\ probing[p].at # "idle" => probing[p].event \in raised
       /\ drain[p].rows \union drain[p].sent \subseteq DOMAIN queue
  /\ \A id \in DOMAIN queue :
       /\ queue[id].status \in {"pending", "claimed", "completed", "expired"}
       /\ queue[id].attempts \in 0..MaxAttempts
       /\ queue[id].source \in raised
  /\ account \in [Tokens -> {"clear", "owed", "written_off"}]
  /\ mishaps \in 0..ProbeFaults

ProbesInit ==
  /\ clock = 0
  /\ raised = {}
  /\ answered = {}
  /\ enriched = {}
  /\ cache = [p \in Bots |-> {}]
  /\ budget = [p \in Bots |-> EmptyBudget(0)]
  /\ probing = [p \in Bots |-> NotProbing]
  /\ queue = [id \in {} |-> NoRequest]
  /\ drain = [p \in Bots |-> Resting]
  /\ account = [t \in Tokens |-> "clear"]
  /\ mishaps = 0

-------------------------------------------------------------------------------
(* The probes stage. *)

\* Ingestion raises a token; a rescan one that has reached data quality.
Raise(t) ==
  /\ \/ raised' = raised \union {Root(t)}
     \/ /\ \E a \in enriched : a.event.token = t
        /\ raised' = raised \union {Rescan(t)}
  /\ raised' # raised
  /\ UNCHANGED <<clock, answered, enriched, cache, budget, probing, queue, drain,
                 account, mishaps>>

Continue(p, at) == probing' = [probing EXCEPT ![p].at = at]

\* CheckTokenNameSeen: another token of the name has a row of market data.
CheckTokenNameSeen(t) ==
  \E e \in raised : e.token # t /\ NameOf[e.token] = NameOf[t]

\* The guard before the probes: the cache, the list, the table. A failed query
\* reads as a name not seen.
Flags(p, t, seen) ==
  LET n == NameOf[t]
  IN  IF n = NoName THEN {}
      ELSE IF n \in cache[p] THEN {"duplicate"}
      ELSE IF n \in KnownNames THEN {"copycat"}
      ELSE IF seen THEN {"duplicate"} ELSE {}

\* A worker claims an event and checks the name, which the process keeps. The
\* last tick of the clock is left to the drain.
Take(p) ==
  /\ probing[p] = NotProbing /\ clock < MaxClock
  /\ \E e \in raised \ answered, seen \in BOOLEAN :
       LET flags == Flags(p, e.token, seen)
       IN /\ seen => CheckTokenNameSeen(e.token)
          /\ \A q \in Bots : probing[q].event # e
          /\ cache' = [cache EXCEPT ![p] = @ \union ({NameOf[e.token]} \ {NoName})]
          /\ probing' = [probing EXCEPT ![p] =
               [event |-> e, at |-> IF flags = {} THEN "budget" ELSE "emit", flags |-> flags]]
  /\ UNCHANGED <<clock, raised, answered, enriched, budget, queue, drain, account, mishaps>>

\* resetIfNeeded
Window(p) == IF clock - budget[p].start >= Hour THEN EmptyBudget(clock) ELSE budget[p]

\* A cap of zero is no cap.
Below(count, cap) == cap = 0 \/ count < cap

\* Slip: the cap is compared with what is spent, not with what would be.
AffordableSoFar(p, rescan) ==
  /\ IF rescan THEN Below(Window(p).rescan, RescanCap) ELSE Below(Window(p).fresh, FreshCap)
  /\ Below(Window(p).credits, CreditCap)

\* tryConsume refuses without counting.
Affordable(p, rescan) ==
  /\ IF rescan THEN Below(Window(p).rescan, RescanCap) ELSE Below(Window(p).fresh, FreshCap)
  /\ CreditCap = 0 \/ Window(p).credits + ProbeCost <= CreditCap

Spent(p, rescan) ==
  [Window(p) EXCEPT !.credits = @ + ProbeCost,
                    !.rescan = IF rescan THEN @ + 1 ELSE @,
                    !.fresh = IF rescan THEN @ ELSE @ + 1]

\* What a rescan finds in the latest row may be complete: nothing is probed. The
\* budget otherwise lets the probes run, after which a mandatory field may be
\* missing, or refuses them: from now on the token is owed a probe.
Consume(p, refused) ==
  LET e == probing[p].event
      rescan == IsRescan(e)
  IN /\ probing[p].at = "budget"
     /\ \/ rescan /\ Continue(p, "emit") /\ UNCHANGED <<budget, account>>
        \/ /\ Affordable(p, rescan)
           /\ budget' = [budget EXCEPT ![p] = Spent(p, rescan)]
           /\ \E at \in {"incomplete", "emit"} : Continue(p, at)
           /\ UNCHANGED account
        \/ /\ ~ Affordable(p, rescan)
           /\ budget' = [budget EXCEPT ![p] = Window(p)]
           /\ account' = [account EXCEPT ![e.token] = "owed"]
           /\ Continue(p, refused)
     /\ UNCHANGED <<clock, raised, answered, enriched, cache, queue, drain, mishaps>>

\* The other tokens of the chain take their share, up to the caps.
OthersConsume(p) ==
  /\ \E rescan \in BOOLEAN :
       /\ Affordable(p, rescan)
       /\ budget' = [budget EXCEPT ![p] = Spent(p, rescan)]
  /\ UNCHANGED <<clock, raised, answered, enriched, cache, probing, queue, drain,
                 account, mishaps>>

\* Slip: a token beyond the budget is dropped, with nothing put off.
TryConsumeForgets(p) == Consume(p, "settle")

\* A token beyond the budget is put off.
TryConsume(p) == Consume(p, "defer")

\* The statement of EnqueueProbePending: a new row, or a pending one renewed. A
\* row that a drain has claimed, or that is at its end, stays as it is.
EnqueueProbePending(id, e, due) ==
  LET fresh == [status |-> "pending", attempts |-> 0, source |-> e, due |-> due,
                since |-> clock]
  IN  queue' = IF id \notin DOMAIN queue
               THEN [i \in DOMAIN queue \union {id} |->
                       IF i = id THEN fresh ELSE queue[i]]
               ELSE IF queue[id].status = "pending"
               THEN [queue EXCEPT ![id].source = e, ![id].due = due, ![id].since = clock]
               ELSE queue

\* nextHourBoundary
NextBoundary(p) == budget[p].start + Hour

TakenUp(id) == id \in DOMAIN queue /\ queue[id].status # "pending"

WriteOff(tokens) ==
  account' = [t \in Tokens |-> IF t \in tokens THEN "written_off" ELSE account[t]]

\* A token beyond the budget is put off and its event ends without an answer;
\* one that is incomplete is put off and passed on. An error is logged; a row
\* of this id that is no longer pending takes nothing up, and nothing says so.
Defer(p) ==
  LET e == probing[p].event
      due == NextBoundary(p)
      scoped == probing[p].at = "defer"
      id == IF scoped THEN BudgetId(e.token, due) ELSE EventId(e, due)
      refused == IF scoped THEN {e.token} ELSE {}
  IN /\ probing[p].at \in {"defer", "incomplete"}
     /\ Continue(p, IF scoped THEN "settle" ELSE "emit")
     /\ \/ /\ EnqueueProbePending(id, e, due)
           /\ WriteOff(IF TakenUp(id) THEN refused ELSE {})
           /\ UNCHANGED mishaps
        \/ /\ mishaps < ProbeFaults
           /\ mishaps' = mishaps + 1
           /\ WriteOff(refused)
           /\ UNCHANGED queue
     /\ UNCHANGED <<clock, raised, answered, enriched, cache, budget, drain>>

\* The enriched event is named after the event it answers: the first one stays.
EmitEnriched(p) ==
  /\ probing[p].at = "emit"
  /\ enriched' = IF \E a \in enriched : a.event = probing[p].event THEN enriched
                 ELSE enriched \union {[event |-> probing[p].event, flags |-> probing[p].flags]}
  /\ account' = [account EXCEPT ![probing[p].event.token] = "clear"]
  /\ Continue(p, "settle")
  /\ UNCHANGED <<clock, raised, answered, cache, budget, queue, drain, mishaps>>

SettleRequest(p) ==
  /\ probing[p].at = "settle"
  /\ answered' = answered \union {probing[p].event}
  /\ probing' = [probing EXCEPT ![p] = NotProbing]
  /\ UNCHANGED <<clock, raised, enriched, cache, budget, queue, drain, account, mishaps>>

\* The insert of the answer or the mark fails: the event is delivered again.
RequestFails(p) ==
  /\ probing[p].at \in {"emit", "settle"}
  /\ mishaps < ProbeFaults
  /\ mishaps' = mishaps + 1
  /\ probing' = [probing EXCEPT ![p] = NotProbing]
  /\ UNCHANGED <<clock, raised, answered, enriched, cache, budget, queue, drain, account>>

-------------------------------------------------------------------------------
(* The drain. *)

\* Slip: a row that is claimed never expires.
StalePendingOnly(id) == queue[id].status = "pending" /\ clock - queue[id].since > Ttl * Hour

Stale(id) == queue[id].status \in {"pending", "claimed"} /\ clock - queue[id].since > Ttl * Hour

DueRow(id) == queue[id].status = "pending" /\ queue[id].due <= clock

Drains(p, at, rows, sent) ==
  drain' = [drain EXCEPT ![p] =
    IF at = "claimed" /\ rows \union sent = {} THEN Resting
    ELSE [at |-> at, rows |-> rows, sent |-> sent]]

\* The tick of a drain: expire what is stale, then claim what is due. A batch
\* holds more rows than the model has.
ExpireStaleProbePendingRows(p) ==
  /\ drain[p] = Resting
  /\ \E id \in DOMAIN queue : Stale(id) \/ DueRow(id)
  /\ LET stale == {id \in DOMAIN queue : Stale(id)}
     IN /\ queue' = [id \in DOMAIN queue |->
                       IF id \in stale THEN [queue[id] EXCEPT !.status = "expired"] ELSE queue[id]]
        /\ Drains(p, "expired", stale, {})
  /\ UNCHANGED <<clock, raised, answered, enriched, cache, budget, probing, account, mishaps>>

ClaimDueProbePending(p) ==
  /\ drain[p].at = "expired" /\ drain[p].rows = {}
  /\ LET due == {id \in DOMAIN queue : DueRow(id)}
     IN /\ queue' = [id \in DOMAIN queue |->
                       IF id \in due THEN [queue[id] EXCEPT !.status = "claimed", !.attempts = @ + 1]
                       ELSE queue[id]]
        /\ Drains(p, "claimed", due, {})
  /\ UNCHANGED <<clock, raised, answered, enriched, cache, budget, probing, account, mishaps>>

\* emitProbeFairChanceRetry: the row of market data and the event, both named
\* after the pending row.
Retried(kind, id) == Retry(kind, queue[id].source.token, id)
Reemit(kind, id) == raised' = raised \union {Retried(kind, id)}

\* The last retry of a row is of use once; its token is written off otherwise.
ReemitExhausted(id) ==
  /\ Reemit("probe_exhausted_retry", id)
  /\ WriteOff(IF Retried("probe_exhausted_retry", id) \in raised
              THEN {queue[id].source.token} ELSE {})

\* A row that has expired is re-emitted once; an error is logged.
EmitExhausted(p, id) ==
  /\ drain[p].at = "expired" /\ id \in drain[p].rows
  /\ Drains(p, "expired", drain[p].rows \ {id}, {})
  /\ \/ ReemitExhausted(id) /\ UNCHANGED mishaps
     \/ /\ mishaps < ProbeFaults /\ mishaps' = mishaps + 1
        /\ WriteOff({queue[id].source.token}) /\ UNCHANGED raised
  /\ UNCHANGED <<clock, answered, enriched, cache, budget, probing, queue>>

\* The row goes back, or expires: written whatever its status has become. The
\* attempt was counted by the claim. A row that has used up its attempts is
\* re-emitted as exhausted. Both errors are ignored.
FailProbePending(id) ==
  LET spent == queue[id].attempts >= MaxAttempts
  IN /\ \/ queue' = [queue EXCEPT ![id].status = IF spent THEN "expired" ELSE "pending"]
        \/ UNCHANGED queue
     /\ \/ spent /\ ReemitExhausted(id)
        \/ /\ WriteOff(IF spent THEN {queue[id].source.token} ELSE {})
           /\ UNCHANGED raised

\* A claimed row is re-emitted and then completed: two statements.
EmitPending(p, id) ==
  /\ drain[p].at = "claimed" /\ id \in drain[p].rows /\ drain[p].sent = {}
  /\ \/ /\ Reemit("probe_pending_retry", id)
        /\ Drains(p, "claimed", drain[p].rows \ {id}, {id})
        /\ UNCHANGED <<queue, account, mishaps>>
     \/ /\ mishaps < ProbeFaults /\ mishaps' = mishaps + 1
        /\ FailProbePending(id)
        /\ Drains(p, "claimed", drain[p].rows \ {id}, {})
  /\ UNCHANGED <<clock, answered, enriched, cache, budget, probing>>

CompleteProbePending(p, id) ==
  /\ id \in drain[p].sent
  /\ Drains(p, "claimed", drain[p].rows, {})
  /\ \/ queue' = [queue EXCEPT ![id].status = "completed"] /\ UNCHANGED mishaps
     \/ mishaps < ProbeFaults /\ mishaps' = mishaps + 1 /\ UNCHANGED queue
  /\ UNCHANGED <<clock, raised, answered, enriched, cache, budget, probing, account>>

-------------------------------------------------------------------------------
(* The clock and the process. *)

\* A process that stops forgets the names, the window and what it works on.
StopBot(p) ==
  /\ mishaps < ProbeFaults
  /\ mishaps' = mishaps + 1
  /\ cache' = [cache EXCEPT ![p] = {}]
  /\ budget' = [budget EXCEPT ![p] = EmptyBudget(clock)]
  /\ probing' = [probing EXCEPT ![p] = NotProbing]
  /\ drain' = [drain EXCEPT ![p] = Resting]
  /\ WriteOff(IF drain[p].at = "expired" THEN {queue[id].source.token : id \in drain[p].rows}
              ELSE {})
  /\ UNCHANGED <<clock, raised, answered, enriched, queue>>

PassTime ==
  /\ clock < MaxClock
  /\ clock' = clock + 1
  /\ UNCHANGED <<raised, answered, enriched, cache, budget, probing, queue, drain,
                 account, mishaps>>

ProbeStep(p) ==
  \/ Take(p) \/ TryConsume(p) \/ Defer(p) \/ EmitEnriched(p) \/ SettleRequest(p)

DrainStep(p) ==
  \/ ExpireStaleProbePendingRows(p) \/ ClaimDueProbePending(p)
  \/ \E id \in drain[p].rows \union drain[p].sent :
       EmitExhausted(p, id) \/ EmitPending(p, id) \/ CompleteProbePending(p, id)

ProbesNext ==
  \/ \E t \in Tokens : Raise(t)
  \/ \E p \in Bots : ProbeStep(p) \/ OthersConsume(p) \/ RequestFails(p)
                    \/ DrainStep(p) \/ StopBot(p)
  \/ PassTime

\* The goroutines of a process run, and time passes.
ProbesFairness ==
  /\ \A p \in Bots : WF_probesVars(ProbeStep(p)) /\ WF_probesVars(DrainStep(p))
  /\ WF_probesVars(PassTime)

ProbesSpec == ProbesInit /\ [][ProbesNext]_probesVars

ProbesFairSpec == ProbesSpec /\ ProbesFairness

-------------------------------------------------------------------------------
(* Properties. *)

\* Something that will bring the token of a row back: the row itself, until it
\* is re-emitted, or the drain that has just expired it.
Outstanding(id) ==
  \/ queue[id].status = "pending"
  \/ queue[id].status = "claimed" /\ Retried("probe_pending_retry", id) \notin raised
  \/ \E p \in Bots : drain[p].at = "expired" /\ id \in drain[p].rows

\* A token that is refused a probe is not forgotten: until one of its events is
\* answered again, an event of it waits for the probes or a row of it is still
\* to be re-emitted. It is about the order of the statements of the stage and of
\* the drain, their crashes, and the rows that two events, or two hours, of a
\* token share. Written off, and by this property alone, are the tokens whose
\* statement failed, whose drain stopped between the expiry and the retry, or
\* whose refusal met a row of the same hour that had been taken up: then nothing
\* brings it back (run_market_probes.go, run_probe_pending.go, probe_pending.go).
NoDeferralForgotten ==
  \A t \in Tokens : account[t] = "owed" =>
    \/ \E e \in raised \ answered : e.token = t
    \/ \E id \in DOMAIN queue : queue[id].source.token = t /\ Outstanding(id)

\* A row that falls due while the clock still leaves room for its expiry comes
\* to an end, although the process that claimed it may have stopped.
DueRowsEnd ==
  \A t \in Tokens, hour \in 1..(MaxClock \div Hour - Ttl + 1) :
    \A id \in {BudgetId(t, hour * Hour), EventId(Root(t), hour * Hour)} :
      (/\ id \in DOMAIN queue
       /\ DueRow(id)
       /\ queue[id].since + Ttl * Hour < MaxClock)
        ~> (id \in DOMAIN queue /\ queue[id].status \in {"completed", "expired"})
=============================================================================
