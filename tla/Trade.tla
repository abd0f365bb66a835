-------------------------------- MODULE Trade --------------------------------
(***************************************************************************)
(* From an allocation to a closed position: the execution, position-open   *)
(* and evaluation stages, the learning recorder that competes with the     *)
(* last one, the position poller, the operator's force close and the       *)
(* reconciliation (run_execution.go, run_position_open.go,                 *)
(* run_evaluation.go, run_learning_record.go, run_position_poll.go and     *)
(* run_reconciliation.go in sniper-bot/internal/workers,                   *)
(* internal/operator/commands.go), over the tables events,                 *)
(* execution_results, positions and token_lifecycle.                       *)
(*                                                                         *)
(* The bus appears as its users see it, which is what EventBus is shown to *)
(* provide: a posted event is delivered until it is settled, possibly more *)
(* than once and to two workers at a time, and a failed one may be         *)
(* dead-lettered and requeued.  Every statement is an action of its own,   *)
(* and a process may stop between any two of them.                         *)
(*                                                                         *)
(* A trade has one allocation, one execution id, one lifecycle and one     *)
(* position id.  Prices and the chain are left open: an executor reports   *)
(* any outcome, and an open position may be closed for any reason.         *)
(***************************************************************************)
EXTENDS Lifecycle, FiniteSets

CONSTANTS
  Trades,     \* the allocations
  Workers,    \* goroutines that run the stages, over all processes
  Pollers,    \* goroutines that run the position poll
  Reasons,    \* the reasons for which a poll closes a position
  NoEvent,    \* no event in memory
  MaxFaults   \* bound: crashes and failed statements in a behaviour

\* What execution reports: a fill with a price (only shadow mode has one), a
\* confirmed transaction without a price (the chain executors set none), a
\* failure, and the rejection of a halted system.
Outcomes == {"filled", "unpriced", "failed", "halted"}

ASSUME TradeAssumption ==
  /\ Workers \intersect Pollers = {}
  /\ Reasons \intersect (Outcomes \union {"open", "onchain_zero", "MANUAL"}) = {}
  /\ MaxFaults \in Nat

VARIABLES
  life,      \* token_lifecycle: the row of each trade's token
  exec,      \* execution_results: no row, "reserved", or the final outcome
  sent,      \* history: transactions submitted on chain for the trade
  rows,      \* positions: the statuses and exit reasons of the trade's rows
  posted,    \* events: the rows
  settled,   \* events: the processed rows
  dead,      \* dead_letter_events
  pc,        \* the statement each process runs next
  job,       \* the event a worker holds
  out,       \* the event a process is about to insert
  seen,      \* the lifecycle row a process has read
  list,      \* the open positions a poll cycle has still to look at
  faults     \* crashes and failed statements so far

busVars  == <<posted, settled, dead>>
procVars == <<pc, job, out, seen, list>>
vars == <<life, exec, sent, rows, busVars, procVars, faults>>

Procs == Workers \union Pollers

ExitTags == Reasons \union {"onchain_zero", "MANUAL"}

Alloc(t)     == [kind |-> "alloc", trade |-> t, tag |-> "-"]
Result(t, r) == [kind |-> "result", trade |-> t, tag |-> r]
Opened(t, s) == [kind |-> "opened", trade |-> t, tag |-> s]
Exit(t, r)   == [kind |-> "exit", trade |-> t, tag |-> r]

Events ==
  {Alloc(t) : t \in Trades}
  \union {Result(t, r) : t \in Trades, r \in Outcomes}
  \union {Opened(t, s) : t \in Trades, s \in {"open", "failed"}}
  \union {Exit(t, r) : t \in Trades, r \in Reasons}

ASSUME NoEventAssumption == NoEvent \notin Events

\* The row selection leaves: SELECTED after five transitions from DETECTED.
SelectedRow == [state |-> "SELECTED", version |-> 5]

PCs == {"idle", "claim", "lookup", "gate", "execute", "record", "upsert",
        "read", "cas", "emit", "mark", "evaluate", "poll"}

TypeOK ==
  /\ life \in [Trades -> LifecycleRows]
  /\ exec \in [Trades -> {"none", "reserved"} \union Outcomes]
  /\ sent \in [Trades -> Nat]
  /\ rows \in [Trades -> SUBSET ({"open", "failed"} \union ExitTags)]
  /\ posted \subseteq Events
  /\ settled \subseteq posted
  /\ dead \subseteq settled
  /\ pc \in [Procs -> PCs]
  /\ job \in [Procs -> Events \union {NoEvent}]
  /\ out \in [Procs -> Events \union {NoEvent}]
  /\ seen \in [Procs -> LifecycleRows]
  /\ list \in [Procs -> SUBSET Trades]
  /\ faults \in 0..MaxFaults

Init ==
  /\ life = [t \in Trades |-> SelectedRow]
  /\ exec = [t \in Trades |-> "none"]
  /\ sent = [t \in Trades |-> 0]
  /\ rows = [t \in Trades |-> {}]
  /\ posted = {Alloc(t) : t \in Trades}
  /\ settled = {}
  /\ dead = {}
  /\ pc = [p \in Procs |-> "idle"]
  /\ job = [p \in Procs |-> NoEvent]
  /\ out = [p \in Procs |-> NoEvent]
  /\ seen = [p \in Procs |-> SelectedRow]
  /\ list = [p \in Procs |-> {}]
  /\ faults = 0

-------------------------------------------------------------------------------
(* Control. *)

Goto(p, next) == pc' = [pc EXCEPT ![p] = next]

\* The process forgets what it holds.
Drop(p) ==
  /\ Goto(p, "idle")
  /\ job' = [job EXCEPT ![p] = NoEvent]
  /\ out' = [out EXCEPT ![p] = NoEvent]
  /\ seen' = [seen EXCEPT ![p] = SelectedRow]
  /\ list' = [list EXCEPT ![p] = {}]

\* A stage returns an error: the event stays for another delivery, or it has
\* used up its retries and is dead-lettered.
Fail(w) ==
  /\ Drop(w)
  /\ \/ UNCHANGED busVars
     \/ /\ dead' = dead \union {job[w]}
        /\ settled' = settled \union {job[w]}
        /\ UNCHANGED posted

\* What the claimant of an event runs first. A position_state_event goes to
\* evaluation or to the learning recorder, whoever asks first; the recorder
\* writes learning_records, which is not modelled, and settles the event.
FirstStatements(e) ==
  CASE e.kind = "alloc"  -> {"claim"}
    [] e.kind = "result" -> {"upsert"}
    [] OTHER             -> {"evaluate", "mark"}

\* The bus delivers an event that is not settled.
Deliver(w) ==
  /\ pc[w] = "idle"
  /\ \E e \in posted \ settled :
       /\ job' = [job EXCEPT ![w] = e]
       /\ \E s \in FirstStatements(e) : Goto(w, s)
  /\ UNCHANGED <<life, exec, sent, rows, busVars, out, seen, list, faults>>

\* The state a stage's lifecycle transition starts from and leads to.
From(e) ==
  CASE e.kind = "result" -> "SELECTED"
    [] e.kind = "opened" -> "EXECUTED"
    [] OTHER             -> "POSITION_OPEN"

To(e) ==
  CASE e.tag = "halted"                 -> "REJECTED"
    [] e.tag = "failed"                 -> "FAILED"
    [] e.tag \in {"filled", "unpriced"} -> "EXECUTED"
    [] e.tag = "open"                   -> "POSITION_OPEN"
    [] OTHER                            -> "POSITION_CLOSED"

-------------------------------------------------------------------------------
(* The execution stage. *)

\* Slip: the claim's RowsAffected is not looked at.
ClaimExecutionUnchecked(w) ==
  LET t == job[w].trade
  IN /\ pc[w] = "claim"
     /\ exec' = [exec EXCEPT ![t] = IF @ = "none" THEN "reserved" ELSE @]
     /\ Goto(w, "gate")
     /\ UNCHANGED <<life, sent, rows, busVars, job, out, seen, list, faults>>

\* ClaimExecution: INSERT ... ON CONFLICT (execution_id) DO NOTHING.
ClaimExecution(w) ==
  LET t == job[w].trade
  IN /\ pc[w] = "claim"
     /\ IF exec[t] = "none"
        THEN exec' = [exec EXCEPT ![t] = "reserved"] /\ Goto(w, "gate")
        ELSE UNCHANGED exec /\ Goto(w, "lookup")
     /\ UNCHANGED <<life, sent, rows, busVars, job, out, seen, list, faults>>

\* Slip: a stale reservation is recovered by running the execution again.
ReemitRecovers(w) ==
  LET t == job[w].trade
  IN /\ pc[w] = "lookup"
     /\ IF exec[t] = "reserved"
        THEN Goto(w, "gate") /\ UNCHANGED <<busVars, job, out, seen, list>>
        ELSE /\ out' = [out EXCEPT ![w] = Alloc(t)]
             /\ Goto(w, "emit")
             /\ UNCHANGED <<busVars, job, seen, list>>
     /\ UNCHANGED <<life, exec, sent, rows, faults>>

\* A duplicate delivery looks the execution up. A reservation is an error; a
\* final row is emitted again under the row's event_id, and that is the
\* allocation's: InsertExecutionResult keeps what ClaimExecution wrote.
Reemit(w) ==
  LET t == job[w].trade
  IN /\ pc[w] = "lookup"
     /\ IF exec[t] = "reserved"
        THEN Fail(w)
        ELSE /\ out' = [out EXCEPT ![w] = Alloc(t)]
             /\ Goto(w, "emit")
             /\ UNCHANGED <<busVars, job, seen, list>>
     /\ UNCHANGED <<life, exec, sent, rows, faults>>

\* GetSystemState: whoever set the mode, execution finds it HALTED or not.
HaltGate(w) ==
  /\ pc[w] = "gate"
  /\ \/ Goto(w, "execute") /\ UNCHANGED out
     \/ /\ out' = [out EXCEPT ![w] = Result(job[w].trade, "halted")]
        /\ Goto(w, "record")
  /\ UNCHANGED <<life, exec, sent, rows, busVars, job, seen, list, faults>>

\* An executor runs: simulated in shadow mode, submitted and confirmed,
\* submitted and not confirmed, or refused before anything was submitted.
Execute(w) ==
  LET t == job[w].trade
  IN /\ pc[w] = "execute"
     /\ \E r \in {"filled", "unpriced", "failed"} :
          /\ out' = [out EXCEPT ![w] = Result(t, r)]
          /\ \/ r # "filled" /\ sent' = [sent EXCEPT ![t] = @ + 1]
             \/ r # "unpriced" /\ UNCHANGED sent
     /\ Goto(w, "record")
     /\ UNCHANGED <<life, exec, rows, busVars, job, seen, list, faults>>

\* InsertExecutionResult: ON CONFLICT (execution_id) DO UPDATE.
InsertExecutionResult(w) ==
  /\ pc[w] = "record"
  /\ exec' = [exec EXCEPT ![job[w].trade] = out[w].tag]
  /\ Goto(w, "read")
  /\ UNCHANGED <<life, sent, rows, busVars, job, out, seen, list, faults>>

-------------------------------------------------------------------------------
(* The position-open stage. *)

\* Slip: a confirmed transaction without a price opens a position too.
OpenStatusUnpriced(outcome) == IF outcome \in {"filled", "unpriced"} THEN "open" ELSE "failed"

\* OpenPosition: no entry price, no position.
OpenStatus(outcome) == IF outcome = "filled" THEN "open" ELSE "failed"

\* UpsertPositionFromExecution: ON CONFLICT (source_execution_id) DO NOTHING.
\* A duplicate skips the transition and emits the event again.
UpsertPosition(w) ==
  LET t == job[w].trade
      s == OpenStatus(job[w].tag)
  IN /\ pc[w] = "upsert"
     /\ out' = [out EXCEPT ![w] = Opened(t, s)]
     /\ IF rows[t] = {}
        THEN rows' = [rows EXCEPT ![t] = {s}] /\ Goto(w, "read")
        ELSE UNCHANGED rows /\ Goto(w, "emit")
     /\ UNCHANGED <<life, exec, sent, busVars, job, seen, list, faults>>

-------------------------------------------------------------------------------
(* doMandatoryTransition, the output event and the end of a worker's round. *)

\* GetLifecycle: a token that is no longer in the state the stage starts from
\* ends the round, and the event is settled without its output.
ReadLifecycle(w) ==
  LET row == life[job[w].trade]
  IN /\ pc[w] = "read"
     /\ w \in Workers
     /\ IF row.state = From(out[w])
        THEN seen' = [seen EXCEPT ![w] = row] /\ Goto(w, "cas")
        ELSE UNCHANGED seen /\ Goto(w, "mark")
     /\ UNCHANGED <<life, exec, sent, rows, busVars, job, out, list, faults>>

TransitionState(w) ==
  LET t == job[w].trade
  IN /\ pc[w] = "cas"
     /\ w \in Workers
     /\ IF Transits(life[t], seen[w], To(out[w]))
        THEN /\ life' = [life EXCEPT ![t] = Advanced(@, To(out[w]))]
             /\ Goto(w, "emit")
             /\ UNCHANGED <<busVars, job, out, seen, list>>
        ELSE Fail(w) /\ UNCHANGED life
     /\ UNCHANGED <<exec, sent, rows, faults>>

\* InsertEvent: ON CONFLICT (event_id) DO NOTHING.
InsertOutput(w) ==
  /\ pc[w] = "emit"
  /\ w \in Workers
  /\ posted' = posted \union {out[w]}
  /\ Goto(w, "mark")
  /\ UNCHANGED <<life, exec, sent, rows, settled, dead, job, out, seen, list, faults>>

MarkEventProcessed(w) ==
  /\ pc[w] = "mark"
  /\ settled' = settled \union {job[w]}
  /\ Drop(w)
  /\ UNCHANGED <<life, exec, sent, rows, posted, dead, faults>>

\* The evaluation stage skips a position that is not exited. For an exited one
\* it asks for POSITION_CLOSED -> EVALUATED, which TransitionState forbids.
Evaluate(w) ==
  /\ pc[w] = "evaluate"
  /\ \/ /\ job[w].kind = "opened"
        /\ Goto(w, "mark")
        /\ UNCHANGED <<busVars, job, out, seen, list>>
     \/ /\ job[w].kind = "exit"
        /\ <<"POSITION_CLOSED", "EVALUATED">> \notin ValidTransitions
        /\ Fail(w)
  /\ UNCHANGED <<life, exec, sent, rows, faults>>

-------------------------------------------------------------------------------
(* The position poll and the reconciliation. *)

\* GetOpenPositions: the trades that have a row with status open.
OpenPositions == {t \in Trades : "open" \in rows[t]}

GetOpenPositions(p) ==
  /\ pc[p] = "idle"
  /\ OpenPositions # {}
  /\ list' = [list EXCEPT ![p] = OpenPositions]
  /\ Goto(p, "poll")
  /\ UNCHANGED <<life, exec, sent, rows, busVars, job, out, seen, faults>>

\* The loop goes on with the positions in rest, or the cycle ends.
Continue(p, rest) ==
  IF rest = {}
  THEN Drop(p)
  ELSE /\ list' = [list EXCEPT ![p] = rest]
       /\ out' = [out EXCEPT ![p] = NoEvent]
       /\ seen' = [seen EXCEPT ![p] = SelectedRow]
       /\ Goto(p, "poll")
       /\ UNCHANGED job

\* PollExit keeps the position: InsertPositionState adds an open snapshot.
PollHolds(p) ==
  /\ pc[p] = "poll"
  /\ \E t \in list[p] :
       /\ rows' = [rows EXCEPT ![t] = @ \union {"open"}]
       /\ Continue(p, list[p] \ {t})
  /\ UNCHANGED <<life, exec, sent, busVars, faults>>

\* Slip: a failed InsertPositionState does not stop the exit.
PollExitsUnrecorded(p) ==
  /\ pc[p] = "poll"
  /\ \E t \in list[p], r \in Reasons :
       /\ out' = [out EXCEPT ![p] = Exit(t, r)]
       /\ list' = [list EXCEPT ![p] = @ \ {t}]
  /\ Goto(p, "read")
  /\ UNCHANGED <<life, exec, sent, rows, busVars, job, seen, faults>>

\* PollExit closes the position: InsertPositionState adds an exited snapshot.
PollExits(p) ==
  /\ pc[p] = "poll"
  /\ \E t \in list[p], r \in Reasons :
       /\ rows' = [rows EXCEPT ![t] = @ \union {r}]
       /\ out' = [out EXCEPT ![p] = Exit(t, r)]
       /\ list' = [list EXCEPT ![p] = @ \ {t}]
  /\ Goto(p, "read")
  /\ UNCHANGED <<life, exec, sent, busVars, job, seen, faults>>

\* The poll tolerates a token that is not in POSITION_OPEN.
PollReadsLifecycle(p) ==
  LET row == life[out[p].trade]
  IN /\ pc[p] = "read"
     /\ p \in Pollers
     /\ IF row.state = From(out[p])
        THEN seen' = [seen EXCEPT ![p] = row] /\ Goto(p, "cas")
        ELSE UNCHANGED seen /\ Goto(p, "emit")
     /\ UNCHANGED <<life, exec, sent, rows, busVars, job, out, list, faults>>

PollTransitions(p) ==
  LET t == out[p].trade
  IN /\ pc[p] = "cas"
     /\ p \in Pollers
     /\ IF Transits(life[t], seen[p], To(out[p]))
        THEN /\ life' = [life EXCEPT ![t] = Advanced(@, To(out[p]))]
             /\ Goto(p, "emit")
             /\ UNCHANGED <<job, out, seen, list>>
        ELSE Continue(p, list[p]) /\ UNCHANGED life
     /\ UNCHANGED <<exec, sent, rows, busVars, faults>>

PollEmits(p) ==
  /\ pc[p] = "emit"
  /\ p \in Pollers
  /\ posted' = posted \union {out[p]}
  /\ Continue(p, list[p])
  /\ UNCHANGED <<life, exec, sent, rows, settled, dead, faults>>

\* ForceClosePositions: the operator closes a position that GetOpenPositions has
\* returned, now or a while ago, by inserting an exited snapshot; the lifecycle
\* and the bus are not told.
ForceClosePositions(t) ==
  /\ rows[t] \ {"failed"} # {}
  /\ rows' = [rows EXCEPT ![t] = @ \union {"MANUAL"}]
  /\ UNCHANGED <<life, exec, sent, busVars, procVars, faults>>

\* ClosePositionForced of RunReconciliation (which no command of the bot starts):
\* the chain has none of the token left. The open rows become exited; the
\* lifecycle and the bus are not told.
ClosePositionForced(t) ==
  /\ "open" \in rows[t]
  /\ rows' = [rows EXCEPT ![t] = (@ \ {"open"}) \union {"onchain_zero"}]
  /\ UNCHANGED <<life, exec, sent, busVars, procVars, faults>>

-------------------------------------------------------------------------------
(* Faults and the operator. *)

\* A statement of a stage fails. A failed InsertExecutionResult is only logged;
\* a failed InsertEvent or MarkEventProcessed ends the round, as a failure of
\* the learning recorder does; any other error is the stage's.
WorkerStatementFails(w) ==
  /\ faults < MaxFaults
  /\ faults' = faults + 1
  /\ \/ pc[w] = "record" /\ Goto(w, "read") /\ UNCHANGED <<busVars, job, out, seen, list>>
     \/ pc[w] \in {"emit", "mark"} /\ Drop(w) /\ UNCHANGED busVars
     \/ pc[w] \in {"claim", "lookup", "execute", "upsert", "read", "cas", "evaluate"} /\ Fail(w)
  /\ UNCHANGED <<life, exec, sent, rows>>

\* A statement of the poll fails: the cycle goes on with the next position.
PollStatementFails(p) ==
  /\ faults < MaxFaults
  /\ faults' = faults + 1
  /\ \/ pc[p] = "poll" /\ \E t \in list[p] : Continue(p, list[p] \ {t})
     \/ pc[p] \in {"read", "cas", "emit"} /\ Continue(p, list[p])
  /\ UNCHANGED <<life, exec, sent, rows, busVars>>

Crash(p) ==
  /\ pc[p] # "idle"
  /\ faults < MaxFaults
  /\ faults' = faults + 1
  /\ Drop(p)
  /\ UNCHANGED <<life, exec, sent, rows, busVars>>

\* Slip: the dead letter is not deleted.
RequeueFromDLQKeepsLetter(e) ==
  /\ e \in dead
  /\ settled' = settled \ {e}
  /\ UNCHANGED <<life, exec, sent, rows, posted, dead, procVars, faults>>

\* RequeueFromDLQ.
RequeueFromDLQ(e) ==
  /\ e \in dead
  /\ dead' = dead \ {e}
  /\ settled' = settled \ {e}
  /\ UNCHANGED <<life, exec, sent, rows, posted, procVars, faults>>

-------------------------------------------------------------------------------
WorkerStep(w) ==
  \/ Deliver(w)
  \/ ClaimExecution(w)
  \/ Reemit(w)
  \/ HaltGate(w)
  \/ Execute(w)
  \/ InsertExecutionResult(w)
  \/ UpsertPosition(w)
  \/ ReadLifecycle(w)
  \/ TransitionState(w)
  \/ InsertOutput(w)
  \/ MarkEventProcessed(w)
  \/ Evaluate(w)
  \/ WorkerStatementFails(w)

PollStep(p) ==
  \/ GetOpenPositions(p)
  \/ PollHolds(p)
  \/ PollExits(p)
  \/ PollReadsLifecycle(p)
  \/ PollTransitions(p)
  \/ PollEmits(p)
  \/ PollStatementFails(p)

Next ==
  \/ \E w \in Workers : WorkerStep(w)
  \/ \E p \in Pollers : PollStep(p)
  \/ \E p \in Procs : Crash(p)
  \/ \E t \in Trades : ClosePositionForced(t) \/ ForceClosePositions(t)
  \/ \E e \in dead : RequeueFromDLQ(e)

Spec == Init /\ [][Next]_vars

-------------------------------------------------------------------------------
(* Safety. *)

\* Exactly-once submission: whatever is redelivered, requeued or interrupted,
\* a trade reaches the chain at most once (ClaimExecution, run_execution.go).
AtMostOneSubmission == \A t \in Trades : sent[t] <= 1

\* No phantom positions: a position is open, or ever was, only for a trade
\* that execution reported as filled, whose lifecycle says executed and did
\* not fail, and that has no failed row.
OpenMeansFilled ==
  \A t \in Trades :
    rows[t] \ {"failed"} # {} =>
      /\ "failed" \notin rows[t]
      /\ Result(t, "filled") \in posted
      /\ life[t].state \in {"EXECUTED", "POSITION_OPEN", "POSITION_CLOSED"}

\* The bus and the execution table tell one story: a trade has one result
\* event, its row holds that outcome or, when the update was lost, still the
\* reservation, and the lifecycle went the way the outcome says.
OneResult ==
  \A t \in Trades, r \in Outcomes :
    Result(t, r) \in posted =>
      /\ exec[t] \in {r, "reserved"}
      /\ life[t].state # "SELECTED"
      /\ r = "failed" => life[t].state = "FAILED"
      /\ \A q \in Outcomes \ {r} : Result(t, q) \notin posted

\* An exit is never announced, and a lifecycle never closed, before the exited
\* snapshot is in the positions table.
ExitsAreRecorded ==
  \A t \in Trades :
    /\ \A r \in Reasons : Exit(t, r) \in posted => r \in rows[t]
    /\ life[t].state = "POSITION_CLOSED" => rows[t] \intersect Reasons # {}

\* A final execution row is never rewritten (InsertExecutionResult overwrites;
\* only the gate of ClaimExecution keeps a second run away from it).
ResultIsFinal ==
  [][\A t \in Trades : exec[t] \in Outcomes => exec'[t] = exec[t]]_vars

\* run_execution.go promises that a redelivery emits the result event again, so
\* that no crash leaves the pipeline without a position: an allocation that is
\* settled and not dead-lettered, that no worker holds any more, and whose fill
\* is recorded, has its result on the bus.
FillReachesTheBus ==
  \A t \in Trades :
    /\ exec[t] = "filled"
    /\ Alloc(t) \in settled \ dead
    /\ \A w \in Workers : job[w] # Alloc(t)
    => Result(t, "filled") \in posted
==============================================================================
