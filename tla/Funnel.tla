------------------------------- MODULE Funnel -------------------------------
(***************************************************************************)
(* From market data to a validated edge: the stages data quality,          *)
(* features, edge and validation, and the two models whose estimates       *)
(* validation joins (run_data_quality.go, run_features.go, run_edge.go,    *)
(* run_probability.go, run_slippage.go, run_validation.go and              *)
(* run_rescan.go in sniper-bot/internal/workers).                          *)
(*                                                                         *)
(* A token enters with the event of its ingestion; the pending queue of    *)
(* the probes and the rescan worker bring the same token again. Each such  *)
(* entry is a run: its events carry its trace, and a probe retry keeps the *)
(* trace of the original event. What a module decides is left open here    *)
(* (see Decisions); StartLifecycle's row is there from the start, because  *)
(* the first statement of every first stage inserts it if it is missing.   *)
(***************************************************************************)
EXTENDS Lifecycle, FiniteSets, Sequences

CONSTANTS
  Tokens,      \* the tokens
  Processes,   \* how many processes run the stages
  Models,      \* the models validation waits for: probability, slippage
  Retries,     \* the retries of the probe queue that occur (a bound)
  Rescans,     \* the rescan buckets that occur (a bound)
  NoRun,       \* no estimate, nobody screens the token
  MaxFaults    \* bound: crashes, failed statements and claims that run out

\* The runs of a token.
Runs == {"fresh"} \union Retries \union Rescans

ASSUME FunnelAssumption ==
  /\ Processes \in Nat \ {0}
  /\ Models \subseteq {"probability", "slippage"}
  /\ MaxFaults \in Nat
  /\ NoRun \notin Runs
  /\ "fresh" \notin Retries \union Rescans
  /\ Retries \intersect Rescans = {}

VARIABLES
  life,       \* token_lifecycle: the row of each token
  rescannable,\* data_quality: the tokens whose latest decision a rescan takes up
  estimates,  \* the estimates of a model for a trace, by the run they are of
  posted,     \* events: the rows
  settled,    \* events: the processed rows
  dead,       \* dead_letter_events
  pc,         \* the statement each delivery runs next
  seen,       \* the lifecycle row it has read
  choice,     \* the state its module decided on
  joined,     \* the estimates a validation has fetched
  faults      \* faults so far

tables == <<life, rescannable, estimates>>
bus    == <<posted, settled, dead>>
memory == <<pc, seen, choice, joined>>
vars   == <<tables, bus, memory, faults>>

Stages == {"dq", "features", "edge", "validation"}

Event(kind, t, r) == [kind |-> kind, token |-> t, run |-> r]

\* What each stage consumes and emits. The features of a token go to the models
\* as events of their own.
Input ==
  [dq |-> "market_data", features |-> "data_quality", edge |-> "feature",
   validation |-> "edge"]
Output ==
  [dq |-> "data_quality", features |-> "feature", edge |-> "edge",
   validation |-> "validated_edge"]

Inputs == {Input[s] : s \in Stages}
Events == [kind : Inputs \union {"validated_edge"} \union Models, token : Tokens, run : Runs]

\* An event in the hands of a worker. It has a second delivery at the same time
\* only when a claim has run out.
Deliveries == [kind : Inputs, token : Tokens, run : Runs] \X (1..(MaxFaults + 1))
StageOf == [k \in Inputs |-> CHOOSE s \in Stages : Input[s] = k]
Stage(d) == StageOf[d[1].kind]
Token(d) == d[1].token
Run(d)   == d[1].run

\* A retry of the probes carries the trace of the original event.
Trace(r) == IF r \in Retries THEN "fresh" ELSE r

DetectedRow == [state |-> "DETECTED", version |-> 0]

\* The state each stage takes a token from, and the one of a pass. Data quality
\* takes it from several.
From == [features |-> "DQ_PASSED", edge |-> "FEATURE_READY", validation |-> "EDGE_DETECTED"]
Pass ==
  [dq |-> "DQ_PASSED", features |-> "FEATURE_READY", edge |-> "EDGE_DETECTED",
   validation |-> "VALIDATED"]

Choices == {"none", "REJECTED", "DQ_SKIPPED"} \union {Pass[s] : s \in Stages}
PCs == {"idle", "start", "read", "cas", "emit"}

TypeOK ==
  /\ life \in [Tokens -> LifecycleRows]
  /\ rescannable \subseteq Tokens
  /\ estimates \in [Models \X Tokens \X Runs -> Seq(Runs)]
  /\ posted \subseteq Events
  /\ settled \subseteq posted
  /\ dead \subseteq settled
  /\ pc \in [Deliveries -> PCs]
  /\ seen \in [Deliveries -> LifecycleRows]
  /\ choice \in [Deliveries -> Choices]
  /\ joined \in [Deliveries -> [Models -> Runs \union {NoRun}]]
  /\ faults \in 0..MaxFaults

NothingJoined == [m \in Models |-> NoRun]

Init ==
  /\ life = [t \in Tokens |-> DetectedRow]
  /\ rescannable = {}
  /\ estimates = [x \in Models \X Tokens \X Runs |-> <<>>]
  /\ posted = {Event("market_data", t, "fresh") : t \in Tokens}
  /\ settled = {}
  /\ dead = {}
  /\ pc = [d \in Deliveries |-> "idle"]
  /\ seen = [d \in Deliveries |-> DetectedRow]
  /\ choice = [d \in Deliveries |-> "none"]
  /\ joined = [d \in Deliveries |-> NothingJoined]
  /\ faults = 0

-------------------------------------------------------------------------------
(* Control. *)

Goto(d, next) == pc' = [pc EXCEPT ![d] = next]

\* The workers of D forget what they hold.
Forget(D) ==
  /\ pc' = [d \in Deliveries |-> IF d \in D THEN "idle" ELSE pc[d]]
  /\ seen' = [d \in Deliveries |-> IF d \in D THEN DetectedRow ELSE seen[d]]
  /\ choice' = [d \in Deliveries |-> IF d \in D THEN "none" ELSE choice[d]]
  /\ joined' = [d \in Deliveries |-> IF d \in D THEN NothingJoined ELSE joined[d]]

\* Slip: a dead letter is written, and its event is not marked.
FailUnmarked(d) ==
  /\ Forget({d})
  /\ dead' \in {dead, dead \union {d[1]}}
  /\ UNCHANGED <<posted, settled>>

\* An error of the stage: the event stays for another delivery, or has used up
\* its retries and is dead-lettered.
Fail(d) ==
  /\ Forget({d})
  /\ \/ UNCHANGED bus
     \/ /\ dead' = dead \union {d[1]}
        /\ settled' = settled \union {d[1]}
        /\ UNCHANGED posted

\* MarkEventProcessed, the last statement of a round. Should it fail, or the
\* process stop before it, the event is delivered once more.
Settle(d) ==
  /\ Forget({d})
  /\ \/ settled' = settled \union {d[1]} /\ UNCHANGED faults
     \/ faults < MaxFaults /\ faults' = faults + 1 /\ UNCHANGED settled
  /\ UNCHANGED dead

Active == {d \in Deliveries : pc[d] # "idle"}

\* A worker of the stage claims the event: nobody works on it or, which counts
\* as a fault, those who do have outlived their claims.
Deliver(d) ==
  LET others == {h \in Active : h[1] = d[1]}
  IN /\ pc[d] = "idle" /\ d[1] \in posted \ settled
     /\ d[2] = Cardinality(others) + 1
     /\ Cardinality({h \in Active : Stage(h) = Stage(d)}) < Processes
     /\ \/ others = {} /\ UNCHANGED faults
        \/ others # {} /\ faults < MaxFaults /\ faults' = faults + 1
     /\ Goto(d, "start")
     /\ UNCHANGED <<tables, bus, seen, choice, joined>>

-------------------------------------------------------------------------------
(* The modules and the transition. *)

\* The stage goes on to a transition from the row it has read.
Proceed(d, next, row, to) ==
  /\ seen' = [seen EXCEPT ![d] = row]
  /\ choice' = [choice EXCEPT ![d] = to]
  /\ Goto(d, next)
  /\ UNCHANGED <<settled, dead, joined, faults>>

\* InsertProbabilityEstimate and InsertSlippageEstimate: the row of an event is
\* written once.
InsertEstimate(m, t, r) ==
  LET x == <<m, t, Trace(r)>>
      known == \E i \in DOMAIN estimates[x] : estimates[x][i] = r
  IN estimates' = IF known THEN estimates
                  ELSE [estimates EXCEPT ![x] = Append(@, r)]

\* Slip: a token that is already where the stage wants it counts as moved.
ReadLifecycleTolerates(d, from, to) ==
  LET row == life[Token(d)]
  IN IF row.state = from THEN Proceed(d, "cas", row, to)
     ELSE IF row.state = Pass[Stage(d)] THEN Proceed(d, "emit", row, to)
     ELSE Settle(d)

\* doMandatoryTransition, GetLifecycle: an event whose token has moved on is
\* drained.
ReadLifecycle(d, from, to) ==
  LET row == life[Token(d)]
  IN IF row.state = from THEN Proceed(d, "cas", row, to) ELSE Settle(d)

\* DataQualityWorker: the module decides, and its row is written whatever
\* becomes of the token. GetLifecycle: a token past data quality is drained, and
\* so is one that is rejected or skipped once more.
Assess(d) ==
  LET row == life[Token(d)]
  IN /\ pc[d] = "start" /\ Stage(d) = "dq"
     /\ \E to \in {"DQ_PASSED", "REJECTED", "DQ_SKIPPED"} :
          /\ rescannable' = IF to = "DQ_SKIPPED" THEN rescannable \ {Token(d)}
                            ELSE rescannable \union {Token(d)}
          /\ IF row.state \in {"DETECTED", "REJECTED", "DQ_SKIPPED"} \ {to}
             THEN Proceed(d, "read", row, to)
             ELSE Settle(d)
     /\ UNCHANGED <<life, estimates, posted>>

\* The transition of data quality starts from the state it has found.
ReadAgain(d) ==
  /\ pc[d] = "read"
  /\ ReadLifecycle(d, seen[d].state, choice[d])
  /\ UNCHANGED <<tables, posted>>

\* FeaturesWorker: its features are for the edge stage and, on events of their
\* own that are inserted before the transition, for the two models.
Extract(d) ==
  /\ pc[d] = "start" /\ Stage(d) = "features"
  /\ posted' = posted \union {Event(m, Token(d), Run(d)) : m \in Models}
  /\ ReadLifecycle(d, "DQ_PASSED", "FEATURE_READY")
  /\ UNCHANGED tables

\* EdgeWorker.
DetectEdge(d) ==
  /\ pc[d] = "start" /\ Stage(d) = "edge"
  /\ \E to \in {"EDGE_DETECTED", "REJECTED"} : ReadLifecycle(d, "FEATURE_READY", to)
  /\ UNCHANGED <<tables, posted>>

\* ProbabilityWorker and SlippageWorker: features the model refuses are passed
\* over, and the insert of the row is best effort. A round is one step, because
\* nobody consumes its output and a repeated round changes nothing.
Estimate(m, t, r) ==
  LET e == Event(m, t, r)
  IN /\ e \in posted \ settled
     /\ InsertEstimate(m, t, r) \/ UNCHANGED estimates
     /\ \/ settled' = settled \union {e} /\ UNCHANGED faults
        \/ faults < MaxFaults /\ faults' = faults + 1 /\ UNCHANGED settled
     /\ UNCHANGED <<life, rescannable, posted, dead, memory>>

\* GetEstimatesByTrace: the latest estimate of each model for the trace.
Latest(m, t, trace) ==
  LET rows == estimates[<<m, t, trace>>]
  IN IF rows = <<>> THEN NoRun ELSE rows[Len(rows)]

\* ValidationWorker: it polls until it has both estimates or JoinTimeoutMs has
\* passed, and keeps what it has once.
Poll(d) ==
  /\ pc[d] = "start" /\ Stage(d) = "validation"
  /\ joined' = [joined EXCEPT ![d] =
       [m \in Models |-> IF @[m] # NoRun THEN @[m]
                         ELSE Latest(m, Token(d), Trace(Run(d)))]]
  /\ UNCHANGED <<tables, bus, pc, seen, choice, faults>>

\* It decides with what it has.
Validate(d) ==
  /\ pc[d] = "start" /\ Stage(d) = "validation"
  /\ \E to \in {"VALIDATED", "REJECTED"} : ReadLifecycle(d, "EDGE_DETECTED", to)
  /\ UNCHANGED <<tables, posted>>

\* Slip: the version of the row is not compared.
TransitionStateUnguarded(d) ==
  LET t == Token(d)
  IN /\ pc[d] = "cas"
     /\ life' = [life EXCEPT ![t] = Advanced(@, choice[d])]
     /\ IF choice[d] = Pass[Stage(d)]
        THEN Goto(d, "emit") /\ UNCHANGED <<seen, choice, joined, settled, dead, faults>>
        ELSE Settle(d)
     /\ UNCHANGED <<rescannable, estimates, posted>>

\* doMandatoryTransition, TransitionState: a pass is announced, a rejection and
\* a skip are not.
TransitionState(d) ==
  LET t == Token(d)
  IN /\ pc[d] = "cas"
     /\ IF ~Transits(life[t], seen[d], choice[d])
        THEN Fail(d) /\ UNCHANGED <<life, faults>>
        ELSE /\ life' = [life EXCEPT ![t] = Advanced(@, choice[d])]
             /\ IF choice[d] = Pass[Stage(d)]
                THEN Goto(d, "emit") /\ UNCHANGED <<seen, choice, joined, settled, dead, faults>>
                ELSE Settle(d)
     /\ UNCHANGED <<rescannable, estimates, posted>>

\* Slip: the id of an output is made of the token and not of the input event.
InsertOutputPerToken(d) ==
  /\ pc[d] = "emit"
  /\ posted' = posted \union {Event(Output[Stage(d)], Token(d), "fresh")}
  /\ Settle(d)
  /\ UNCHANGED tables

\* InsertEvent and MarkEventProcessed, by RunWorker.
InsertOutput(d) ==
  /\ pc[d] = "emit"
  /\ posted' = posted \union {Event(Output[Stage(d)], Token(d), Run(d))}
  /\ Settle(d)
  /\ UNCHANGED tables

-------------------------------------------------------------------------------
(* The environment. *)

\* The token comes again: from the pending queue of the probes, under the trace
\* of its original event, or from a rescan, which takes any token that has a
\* decision of data quality, unless it is selected or traded.
Reenter(t, r) ==
  /\ Event("market_data", t, r) \notin posted
  /\ r \in Rescans =>
       t \in rescannable /\ life[t].state # "SELECTED"
  /\ posted' = posted \union {Event("market_data", t, r)}
  /\ UNCHANGED <<tables, settled, dead, memory, faults>>

\* What Selection makes of a validated token.
Selection(t) ==
  /\ life[t].state = "VALIDATED"
  /\ \E to \in {"SELECTED", "REJECTED"} : life' = [life EXCEPT ![t] = Advanced(@, to)]
  /\ UNCHANGED <<rescannable, estimates, bus, memory, faults>>

\* A statement fails. Of the events for the models the first one may be there; an
\* output that cannot be inserted leaves the event claimed; the other errors are
\* errors of the stage.
StatementFails(d) ==
  /\ faults < MaxFaults
  /\ faults' = faults + 1
  /\ \/ pc[d] \in {"start", "read", "cas"} /\ Fail(d)
     \/ /\ pc[d] = "start" /\ Stage(d) = "features"
        /\ \E m \in Models : posted' = posted \union {Event(m, Token(d), Run(d))}
        /\ Forget({d})
        /\ UNCHANGED <<settled, dead>>
     \/ pc[d] = "emit" /\ Forget({d}) /\ UNCHANGED bus
  /\ UNCHANGED tables

\* A process stops and forgets what its workers hold, one delivery of a stage.
Crash(D) ==
  /\ faults < MaxFaults
  /\ D # {}
  /\ \A c, d \in D : Stage(c) = Stage(d) => c = d
  /\ faults' = faults + 1
  /\ Forget(D)
  /\ UNCHANGED <<tables, bus>>

-------------------------------------------------------------------------------
Work(d) ==
  \/ Deliver(d)
  \/ Assess(d) \/ ReadAgain(d)
  \/ Extract(d)
  \/ DetectEdge(d)
  \/ Poll(d) \/ Validate(d)
  \/ TransitionState(d)
  \/ InsertOutput(d)

Next ==
  \/ \E d \in Deliveries : Work(d) \/ StatementFails(d)
  \/ \E D \in SUBSET Active : Crash(D)
  \/ \E m \in Models, t \in Tokens, r \in Runs : Estimate(m, t, r)
  \/ \E t \in Tokens : Selection(t) \/ \E r \in Runs : Reenter(t, r)

Spec == Init /\ [][Next]_vars

\* Every worker polls the bus and goes on with what it has claimed.
Fairness == \A d \in Deliveries : WF_vars(Work(d))

FairSpec == Spec /\ Fairness

-------------------------------------------------------------------------------
(* Properties. *)

UnderWay == {"DQ_PASSED", "FEATURE_READY", "EDGE_DETECTED"}

\* A run has a token in its hands: its worker has made the transition to the
\* token's state and is about to announce it, or the announcement is on the bus
\* and its transition is still to be made.
Carries(t, r) ==
  \/ \E d \in Deliveries :
       /\ pc[d] = "emit" /\ Token(d) = t /\ Run(d) = r
       /\ Pass[Stage(d)] = life[t].state
  \/ \E s \in Stages \ {"dq"} :
       /\ From[s] = life[t].state
       /\ Event(Input[s], t, r) \in posted \ settled
       /\ \A d \in Deliveries : d[1] = Event(Input[s], t, r) => pc[d] # "emit"

\* Without a fault, a token between data quality and validation is in the hands
\* of exactly one run, however many of its events are under way: it is neither
\* stranded nor screened twice at a time.
OneRunCarries ==
  faults = 0 =>
    \A t \in Tokens :
      life[t].state \in UnderWay => \E r \in Runs : \A q \in Runs : Carries(t, q) <=> q = r

\* Every token leaves the funnel with a verdict, unless something fails.
EveryTokenScreened ==
  \A t \in Tokens : life[t].state \in UnderWay ~> life[t].state \notin UnderWay \/ faults > 0

(* Refinement: what the stages promise (see Screening). *)

\* The run that screens a token.
Holder(t) ==
  IF life[t].state \in UnderWay THEN CHOOSE r \in Runs : Carries(t, r) ELSE NoRun

Abstract == INSTANCE Screening WITH
  Tokens <- Tokens, Runs <- Runs, NoRun <- NoRun,
  row <- life, holder <- [t \in Tokens |-> Holder(t)]

\* As long as nothing fails, the stages implement Screening: whatever the other
\* events of a token do, it passes from stage to stage within one run.
ImplementsScreening ==
  Abstract!Init /\ [][faults' = 0 => Abstract!Next]_<<life, [t \in Tokens |-> Holder(t)]>>
==============================================================================
