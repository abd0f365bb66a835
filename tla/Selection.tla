------------------------------ MODULE Selection ------------------------------
(***************************************************************************)
(* From a validated edge to an allocation: the selection and the capital   *)
(* stage (run_selection.go and run_capital.go in                           *)
(* sniper-bot/internal/workers, modules/selection/top_k.go).               *)
(*                                                                         *)
(* Selection keeps a validated token in the memory of its process until a  *)
(* second one arrives or a timer of three seconds fires, ranks what it has *)
(* against the open positions, and writes one verdict after the other; the *)
(* event of a waiting token is marked as processed in the meantime.  Three *)
(* goroutines of a process matter: its selection worker, a function that   *)
(* the timer has started, and its capital worker.                          *)
(*                                                                         *)
(* The tokens are those of one chain, because a batch and the count of     *)
(* open positions are per chain.  Scores are left open: every order of the *)
(* items is possible.  The bus is the one Trade uses, and what Trade does  *)
(* with an allocation is the action Traded.                                *)
(***************************************************************************)
EXTENDS Lifecycle, FiniteSets, Sequences

CONSTANTS
  Tokens,        \* tokens that validation accepted
  Procs,         \* processes of the bot
  CreatorOf,     \* the wallet that created a token, or NoCreator
  NoCreator,     \* the creator is not known
  MaxPositions,  \* max_positions of the mode
  NoToken,       \* no timer
  NoEvent,       \* no event in memory
  MaxFaults      \* bound: crashes, failed statements and claims that run out

ASSUME SelectionAssumption ==
  /\ NoToken \notin Tokens
  /\ MaxPositions \in Nat
  /\ MaxFaults \in Nat

VARIABLES
  life,      \* token_lifecycle: the row of each token
  open,      \* the tokens for which GetOpenPositions returns a position
  posted,    \* events: the rows
  settled,   \* events: the processed rows
  dead,      \* dead_letter_events
  batch,     \* batch.items of each process
  timer,     \* batch.timer of each process: the token that armed it
  late,      \* timers of each process that run although batch.timer is another
  pc,        \* the statement each goroutine runs next
  job,       \* the event a goroutine works on (the timer's: its triggerID)
  items,     \* what is left of the items a flush has taken
  picked,    \* the tokens the flush selects
  out,       \* the event a goroutine returns or is about to insert
  seen,      \* the lifecycle row a goroutine has read
  faults     \* faults so far

busVars   == <<posted, settled, dead>>
batchVars == <<batch, timer, late>>
flushVars == <<items, picked, seen>>
goVars    == <<pc, job, out, flushVars>>
vars == <<life, open, busVars, batchVars, goVars, faults>>

Goroutines == Procs \X {"select", "timer", "capital"}
Role(g) == g[2]

Validated(t) == [kind |-> "validated", token |-> t]
Selected(t)  == [kind |-> "selection", token |-> t]
Allocated(t) == [kind |-> "allocation", token |-> t]

Events == [kind : {"validated", "selection", "allocation"}, token : Tokens]

ASSUME NoEventAssumption == NoEvent \notin Events

\* The row validation leaves: VALIDATED after four transitions from DETECTED,
\* so that the row selection leaves is the one Trade starts from.
ValidatedRow == [state |-> "VALIDATED", version |-> 4]

\* What a batch may hold: the second item always flushes it.
Batches == {<<>>} \union {<<t>> : t \in Tokens}

PCs == {"idle", "receive", "rank", "read", "cas", "insert", "gate", "emit", "end"}

TypeOK ==
  /\ life \in [Tokens -> LifecycleRows]
  /\ open \subseteq Tokens
  /\ posted \subseteq Events
  /\ settled \subseteq posted
  /\ dead \subseteq settled
  /\ batch \in [Procs -> Batches]
  /\ timer \in [Procs -> Tokens \union {NoToken}]
  /\ late \in [Procs -> SUBSET Tokens]
  /\ pc \in [Goroutines -> PCs]
  /\ job \in [Goroutines -> Events \union {NoEvent}]
  /\ items \in [Goroutines -> Batches \union (Tokens \X Tokens)]
  /\ picked \in [Goroutines -> SUBSET Tokens]
  /\ out \in [Goroutines -> Events \union {NoEvent}]
  /\ seen \in [Goroutines -> LifecycleRows]
  /\ faults \in 0..MaxFaults

RejectedRow == Advanced(ValidatedRow, "REJECTED")

\* Some tokens have been rejected before.
Init ==
  /\ \E past \in SUBSET Tokens :
       /\ life = [t \in Tokens |-> IF t \in past THEN RejectedRow ELSE ValidatedRow]
       /\ settled = {Validated(t) : t \in past}
  /\ open = {}
  /\ posted = {Validated(t) : t \in Tokens}
  /\ dead = {}
  /\ batch = [p \in Procs |-> <<>>]
  /\ timer = [p \in Procs |-> NoToken]
  /\ late = [p \in Procs |-> {}]
  /\ pc = [g \in Goroutines |-> "idle"]
  /\ job = [g \in Goroutines |-> NoEvent]
  /\ items = [g \in Goroutines |-> <<>>]
  /\ picked = [g \in Goroutines |-> {}]
  /\ out = [g \in Goroutines |-> NoEvent]
  /\ seen = [g \in Goroutines |-> ValidatedRow]
  /\ faults = 0

-------------------------------------------------------------------------------
(* Control. *)

Goto(g, next) == pc' = [pc EXCEPT ![g] = next]

\* The goroutine forgets what it holds.
Drop(g) ==
  /\ Goto(g, "idle")
  /\ job' = [job EXCEPT ![g] = NoEvent]
  /\ out' = [out EXCEPT ![g] = NoEvent]
  /\ items' = [items EXCEPT ![g] = <<>>]
  /\ picked' = [picked EXCEPT ![g] = {}]
  /\ seen' = [seen EXCEPT ![g] = ValidatedRow]

\* An error: the event of a worker stays for another delivery, or has used up
\* its retries and is dead-lettered; the error of a timer's flush is logged.
Fail(g) ==
  /\ Drop(g)
  /\ \/ UNCHANGED busVars
     \/ /\ Role(g) # "timer"
        /\ dead' = dead \union {job[g]}
        /\ settled' = settled \union {job[g]}
        /\ UNCHANGED posted

\* The next item of the flush, or its end: the event to return, if there is one.
NextItem(g, result) ==
  /\ items' = [items EXCEPT ![g] = Tail(@)]
  /\ out' = [out EXCEPT ![g] = result]
  /\ Goto(g, IF Len(items[g]) > 1 THEN "read"
             ELSE IF result # NoEvent THEN "emit" ELSE "end")
  /\ UNCHANGED <<job, picked, seen>>

\* A worker claims an event of its type: one that nobody works on, or, which
\* counts as a fault, one whose holder has outlived its claim. A token waits in
\* a batch for seconds and a claim runs out after minutes, so the event of a
\* waiting token is not delivered again.
Deliver(g) ==
  /\ pc[g] = "idle"
  /\ \E e \in posted \ settled :
       /\ \/ Role(g) = "select" /\ e.kind = "validated" /\ Goto(g, "receive")
          \/ Role(g) = "capital" /\ e.kind = "selection" /\ Goto(g, "gate")
       /\ \A p \in Procs : e.kind = "validated" => batch[p] # <<e.token>>
       /\ \/ (\A h \in Goroutines : Role(h) # "timer" => job[h] # e) /\ UNCHANGED faults
          \/ faults < MaxFaults /\ faults' = faults + 1
       /\ job' = [job EXCEPT ![g] = e]
  /\ UNCHANGED <<life, open, busVars, batchVars, out, flushVars>>

-------------------------------------------------------------------------------
(* SelectionWorker.Process. *)

\* GetSystemState says HALTED: the token is rejected, by the transition of a
\* flush that picks nothing.
ReceiveHalted(p) ==
  LET g == <<p, "select">>
  IN /\ pc[g] = "receive"
     /\ items' = [items EXCEPT ![g] = <<job[g].token>>]
     /\ Goto(g, "read")
     /\ UNCHANGED <<life, open, busVars, batchVars, job, picked, out, seen, faults>>

\* The first item of a batch arms the timer, and its event is marked.
AddToBatch(p) ==
  LET g == <<p, "select">>
  IN /\ pc[g] = "receive"
     /\ batch[p] = <<>>
     /\ batch' = [batch EXCEPT ![p] = <<job[g].token>>]
     /\ timer' = [timer EXCEPT ![p] = job[g].token]
     /\ Goto(g, "end")
     /\ UNCHANGED <<life, open, busVars, late, job, items, picked, out, seen, faults>>

\* The second item takes the batch. Stop comes too late for a timer whose
\* function waits for the mutex.
FillBatch(p) ==
  LET g == <<p, "select">>
  IN /\ pc[g] = "receive"
     /\ batch[p] # <<>>
     /\ items' = [items EXCEPT ![g] = Append(batch[p], job[g].token)]
     /\ batch' = [batch EXCEPT ![p] = <<>>]
     /\ timer' = [timer EXCEPT ![p] = NoToken]
     /\ \/ UNCHANGED late
        \/ late' = [late EXCEPT ![p] = @ \union ({timer[p]} \ {NoToken})]
     /\ Goto(g, "rank")
     /\ UNCHANGED <<life, open, busVars, job, picked, out, seen, faults>>

\* Slip: a batch of one is kept for another window.
TimerFiresKeepsOne(p) ==
  LET g == <<p, "timer">>
  IN /\ pc[g] = "idle"
     /\ \E trigger \in ({timer[p]} \ {NoToken}) \union late[p] :
          timer' = [timer EXCEPT ![p] = IF batch[p] = <<>> THEN NoToken ELSE trigger]
     /\ late' = [late EXCEPT ![p] = {}]
     /\ UNCHANGED <<life, open, busVars, batch, goVars, faults>>

\* The function of a timer: it takes whatever is in the batch and forgets
\* batch.timer, which may be another one that goes on running. (Bound: a
\* process runs one such flush at a time.)
TimerFires(p) ==
  LET g == <<p, "timer">>
  IN /\ pc[g] = "idle"
     /\ \E trigger \in ({timer[p]} \ {NoToken}) \union late[p] :
          /\ late' = [late EXCEPT ![p] = (@ \union ({timer[p]} \ {NoToken})) \ {trigger}]
          /\ IF batch[p] = <<>>
             THEN UNCHANGED <<pc, job, items>>
             ELSE /\ items' = [items EXCEPT ![g] = batch[p]]
                  /\ job' = [job EXCEPT ![g] = Validated(trigger)]
                  /\ Goto(g, "rank")
     /\ batch' = [batch EXCEPT ![p] = <<>>]
     /\ timer' = [timer EXCEPT ![p] = NoToken]
     /\ UNCHANGED <<life, open, busVars, picked, out, seen, faults>>

-------------------------------------------------------------------------------
(* flushItems. *)

SameCreator(s, t) == CreatorOf[s] = CreatorOf[t] /\ CreatorOf[s] # NoCreator

\* PickTopK, for any scores: the slots left go to items of different creators,
\* and an item is passed over only for want of a slot or for its creator. (The
\* cap per creator filters nothing: the worker passes it no open positions.)
PickTopK(batchItems, openCount) ==
  LET slots == IF openCount >= MaxPositions THEN 0 ELSE MaxPositions - openCount
  IN {P \in SUBSET batchItems :
        /\ Cardinality(P) <= slots
        /\ \A s, t \in P : SameCreator(s, t) => s = t
        /\ \A t \in batchItems \ P :
             Cardinality(P) = slots \/ \E s \in P : SameCreator(s, t)}

\* GetOpenPositions and ProcessBatch. A failed query counts as no positions.
ProcessBatch(g) ==
  /\ pc[g] = "rank"
  /\ \E openCount \in {Cardinality(open), 0} :
       /\ \/ openCount = Cardinality(open) /\ UNCHANGED faults
          \/ openCount = 0 /\ faults < MaxFaults /\ faults' = faults + 1
       /\ picked' \in {[picked EXCEPT ![g] = P] :
                         P \in PickTopK({items[g][i] : i \in DOMAIN items[g]}, openCount)}
  /\ Goto(g, "read")
  /\ UNCHANGED <<life, open, busVars, batchVars, job, items, out, seen>>

\* Slip: a token that is no longer VALIDATED is passed over as done.
ReadLifecycleTolerates(g) ==
  LET row == life[Head(items[g])]
  IN /\ pc[g] = "read"
     /\ IF row.state = "VALIDATED"
        THEN /\ seen' = [seen EXCEPT ![g] = row]
             /\ Goto(g, "cas")
             /\ UNCHANGED <<job, out, items, picked>>
        ELSE IF Head(items[g]) \in picked[g]
        THEN Goto(g, "insert") /\ UNCHANGED <<job, out, items, picked, seen>>
        ELSE NextItem(g, out[g])
     /\ UNCHANGED <<life, open, busVars, batchVars, faults>>

\* doMandatoryTransition, GetLifecycle. A token that is no longer VALIDATED ends
\* the whole flush, and the worker marks its own event, whatever becomes of it.
ReadLifecycle(g) ==
  LET row == life[Head(items[g])]
  IN /\ pc[g] = "read"
     /\ IF row.state = "VALIDATED"
        THEN /\ seen' = [seen EXCEPT ![g] = row]
             /\ Goto(g, "cas")
             /\ UNCHANGED <<job, out, items, picked>>
        ELSE /\ items' = [items EXCEPT ![g] = <<>>]
             /\ out' = [out EXCEPT ![g] = NoEvent]
             /\ Goto(g, "end")
             /\ UNCHANGED <<job, picked, seen>>
     /\ UNCHANGED <<life, open, busVars, batchVars, faults>>

Verdict(g) == IF Head(items[g]) \in picked[g] THEN "SELECTED" ELSE "REJECTED"

\* Slip: a rejected item ends the flush.
TransitionStateEndsFlush(g) ==
  LET t == Head(items[g])
  IN /\ pc[g] = "cas"
     /\ IF Transits(life[t], seen[g], Verdict(g))
        THEN /\ life' = [life EXCEPT ![t] = Advanced(@, Verdict(g))]
             /\ UNCHANGED busVars
             /\ IF t \notin picked[g]
                THEN Goto(g, "end") /\ UNCHANGED <<job, out, items, picked, seen>>
                ELSE IF job[g] = Validated(t) THEN NextItem(g, Selected(t))
                ELSE Goto(g, "insert") /\ UNCHANGED <<job, out, items, picked, seen>>
        ELSE Fail(g) /\ UNCHANGED life
     /\ UNCHANGED <<open, batchVars, faults>>

\* doMandatoryTransition, TransitionState: the verdict. The selection event of
\* the returnEventID's own token is returned, the other ones are inserted here.
TransitionState(g) ==
  LET t == Head(items[g])
  IN /\ pc[g] = "cas"
     /\ IF Transits(life[t], seen[g], Verdict(g))
        THEN /\ life' = [life EXCEPT ![t] = Advanced(@, Verdict(g))]
             /\ UNCHANGED busVars
             /\ IF t \notin picked[g] THEN NextItem(g, out[g])
                ELSE IF job[g] = Validated(t) THEN NextItem(g, Selected(t))
                ELSE Goto(g, "insert") /\ UNCHANGED <<job, out, items, picked, seen>>
        ELSE Fail(g) /\ UNCHANGED life
     /\ UNCHANGED <<open, batchVars, faults>>

\* InsertEvent, for an item that is not the own one.
InsertSelected(g) ==
  /\ pc[g] = "insert"
  /\ posted' = posted \union {Selected(Head(items[g]))}
  /\ NextItem(g, out[g])
  /\ UNCHANGED <<life, open, settled, dead, batchVars, faults>>

-------------------------------------------------------------------------------
(* The capital stage and the end of a round. *)

\* CapitalWorker.Process: in HALTED the event is left for a retry, otherwise an
\* allocation is returned (rejected, reduced or full; its size is left open).
Allocate(p) ==
  LET g == <<p, "capital">>
  IN /\ pc[g] = "gate"
     /\ \/ Fail(g)
        \/ /\ out' = [out EXCEPT ![g] = Allocated(job[g].token)]
           /\ Goto(g, "emit")
           /\ UNCHANGED <<busVars, job, items, picked, seen>>
     /\ UNCHANGED <<life, open, batchVars, faults>>

\* InsertEvent, by RunWorker or by the function of the timer.
InsertOutput(g) ==
  /\ pc[g] = "emit"
  /\ posted' = posted \union {out[g]}
  /\ out' = [out EXCEPT ![g] = NoEvent]
  /\ Goto(g, "end")
  /\ UNCHANGED <<life, open, settled, dead, batchVars, job, flushVars, faults>>

\* MarkEventProcessed; the function of the timer just returns.
EndRound(g) ==
  /\ pc[g] = "end"
  /\ settled' = IF Role(g) = "timer" THEN settled ELSE settled \union {job[g]}
  /\ Drop(g)
  /\ UNCHANGED <<life, open, posted, dead, batchVars, faults>>

-------------------------------------------------------------------------------
(* The environment. *)

\* What Trade makes of an allocation: the token's execution fails, or its
\* position opens, and GetOpenPositions returns it from then on (an exit does
\* not change that, see Trade).
Traded(t) ==
  /\ Allocated(t) \in posted
  /\ life[t].state = "SELECTED"
  /\ \/ life' = [life EXCEPT ![t] = Advanced(@, "FAILED")] /\ UNCHANGED open
     \/ /\ life' = [life EXCEPT ![t] = Advanced(Advanced(@, "EXECUTED"), "POSITION_OPEN")]
        /\ open' = open \union {t}
  /\ UNCHANGED <<busVars, batchVars, goVars, faults>>

\* A statement fails. InsertEvent inside a flush is only logged; a worker whose
\* InsertEvent or MarkEventProcessed fails leaves the event claimed; the others
\* are errors of the stage.
StatementFails(g) ==
  /\ faults < MaxFaults
  /\ faults' = faults + 1
  /\ \/ pc[g] \in {"read", "cas"} /\ Fail(g)
     \/ pc[g] = "insert" /\ NextItem(g, out[g]) /\ UNCHANGED busVars
     \/ /\ pc[g] = "emit" \/ (pc[g] = "end" /\ Role(g) # "timer")
        /\ Drop(g)
        /\ UNCHANGED busVars
  /\ UNCHANGED <<life, open, batchVars>>

\* A process ends, in a crash or by a shutdown, which does not wait for the
\* timer: its goroutines and its batch are gone.
Crash(p) ==
  LET mine == {g \in Goroutines : g[1] = p}
      Reset(f, value) == [g \in Goroutines |-> IF g \in mine THEN value ELSE f[g]]
  IN /\ batch[p] # <<>> \/ \E g \in mine : pc[g] # "idle"
     /\ faults < MaxFaults
     /\ faults' = faults + 1
     /\ pc' = Reset(pc, "idle")
     /\ job' = Reset(job, NoEvent)
     /\ items' = Reset(items, <<>>)
     /\ picked' = Reset(picked, {})
     /\ out' = Reset(out, NoEvent)
     /\ seen' = Reset(seen, ValidatedRow)
     /\ batch' = [batch EXCEPT ![p] = <<>>]
     /\ timer' = [timer EXCEPT ![p] = NoToken]
     /\ late' = [late EXCEPT ![p] = {}]
     /\ UNCHANGED <<life, open, busVars>>

-------------------------------------------------------------------------------
FlushStep(g) ==
  \/ ProcessBatch(g)
  \/ ReadLifecycle(g)
  \/ TransitionState(g)
  \/ InsertSelected(g)
  \/ InsertOutput(g)
  \/ EndRound(g)

\* What the goroutines of one process do.
Select(p) ==
  LET g == <<p, "select">>
  IN Deliver(g) \/ ReceiveHalted(p) \/ AddToBatch(p) \/ FillBatch(p) \/ FlushStep(g)

Timer(p) == TimerFires(p) \/ FlushStep(<<p, "timer">>)

Capital(p) ==
  LET g == <<p, "capital">>
  IN Deliver(g) \/ Allocate(p) \/ InsertOutput(g) \/ EndRound(g)

Next ==
  \/ \E p \in Procs : Select(p) \/ Timer(p) \/ Capital(p) \/ Crash(p)
  \/ \E g \in Goroutines : StatementFails(g)
  \/ \E t \in Tokens : Traded(t)

Spec == Init /\ [][Next]_vars

\* The selection worker polls and goes on, and so does a timer that is due.
Fairness == \A p \in Procs : WF_vars(Select(p)) /\ WF_vars(Timer(p))

FairSpec == Spec /\ Fairness

-------------------------------------------------------------------------------
(* Properties. *)

\* One verdict: whatever is redelivered, interrupted or flushed twice, a token
\* whose selection was announced is SELECTED or further and was never REJECTED,
\* and an allocation finds its token in the row that Trade starts from.
OneVerdict ==
  \A t \in Tokens :
    /\ Selected(t) \in posted => life[t].state \notin {"VALIDATED", "REJECTED"}
    /\ Allocated(t) \in posted =>
         /\ Selected(t) \in posted
         /\ life[t].state = "SELECTED" => life[t].version = 5

\* Some goroutine has the token among the items it has still to decide.
InFlush(t) == \E g \in Goroutines : \E i \in DOMAIN items[g] : items[g][i] = t

\* A process holds the token in its batch, and a timer will come for it.
Waiting(t) ==
  \E p \in Procs : batch[p] = <<t>> /\ (timer[p] # NoToken \/ late[p] # {})

\* Without a fault no token is forgotten, although its event is marked before
\* its verdict: a VALIDATED token whose event is processed waits in a batch with
\* a timer or is in a flush, and a SELECTED one is announced or about to be.
NothingForgotten ==
  faults = 0 =>
    \A t \in Tokens :
      /\ life[t].state = "VALIDATED" /\ Validated(t) \in settled => Waiting(t) \/ InFlush(t)
      /\ life[t].state = "SELECTED" /\ Selected(t) \notin posted =>
           InFlush(t) \/ \E g \in Goroutines : out[g] = Selected(t)

\* In the end every validated token is rejected or announced, unless something fails:
\* the second item, the timer, and the timer that comes late and takes another batch
\* than its own, leave nobody (flushItems, the function of the timer).
EveryTokenDecided ==
  <>(faults > 0 \/ \A t \in Tokens : life[t].state = "REJECTED" \/ Selected(t) \in posted)
==============================================================================
