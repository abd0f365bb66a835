------------------------------- MODULE EventBus -------------------------------
(***************************************************************************)
(* The Postgres event bus and the generic worker loop of the orchestrator  *)
(* (shared/database/engines/postgres/events.go and hardening.go,           *)
(* sniper-bot/internal/orchestrator/worker.go).                            *)
(*                                                                         *)
(* One row of the events table is one event; a worker claims the oldest    *)
(* claimable row of its types, runs its stage on it, inserts the output,   *)
(* and marks the row processed.  The claim is a timestamp and carries no   *)
(* owner: a crashed worker's claim is recovered by its age, and a release  *)
(* or a mark is applied to the row whoever claimed it last.                *)
(*                                                                         *)
(* Every statement of the loop is an action of its own, because a process  *)
(* may stop between any two of them.  What a stage computes is left open:  *)
(* it may emit its output, end the event, or fail.                         *)
(*                                                                         *)
(* A row has one processed flag and no record of who it is for.  Besides   *)
(* the stage of its type, a row may be claimed by a listener: the learning *)
(* recorder, the shadow recorder and the creator profile aggregator claim  *)
(* the types of five stages through the same ClaimNextEvent.               *)
(***************************************************************************)
EXTENDS Naturals, FiniteSets

CONSTANTS
  Events,        \* event ids
  NoEvent,       \* no event: an idle worker's job, the output of a last stage
  Roots,         \* events published by ingestion (causation_id NULL)
  OutputOf,      \* [Events -> Events \cup {NoEvent}]: deterministic output id
  Refused,       \* events the table never takes: a trace field is empty, or
                 \* their cause is not in the table
  Workers,       \* goroutines running RunWorker, over all processes
  Handles,       \* [Workers -> SUBSET Events]: the events of its event types
  Listeners,     \* the workers that are not the stage of the events they claim
  MaxRetries,    \* worker.max_retry_count
  MaxFaults,     \* bound: crashes and failed statements in a behaviour
  MaxRequeues,   \* bound: dead letters the operator requeues
  SlowHandlers   \* TRUE: a live stage may run longer than the claim timeout

ASSUME BusAssumption ==
  /\ NoEvent \notin Events
  /\ Roots \subseteq Events
  /\ OutputOf \in [Events -> Events \union {NoEvent}]
  /\ Refused \subseteq Events
  /\ Handles \in [Workers -> SUBSET Events]
  /\ Listeners \subseteq Workers
  /\ MaxRetries \in Nat \ {0}
  /\ MaxFaults \in Nat
  /\ MaxRequeues \in Nat
  /\ SlowHandlers \in BOOLEAN

VARIABLES
  created,    \* events.created_at as a stamp; 0: the row does not exist
  processed,  \* rows with processed = TRUE
  claim,      \* events.claimed_at: none, fresh, or older than the timeout
  retries,    \* events.retry_count
  dlq,        \* dead_letter_events
  pc,         \* the statement each worker runs next
  job,        \* the event each worker holds in memory
  clock,      \* rows inserted so far
  faults,     \* crashes and failed statements so far
  requeues,   \* dead letters requeued so far
  waived      \* history: events a stage ended without an output

rowVars   == <<created, processed, claim, retries, dlq, clock>>
boundVars == <<faults, requeues>>
vars == <<created, processed, claim, retries, dlq, pc, job, clock,
          faults, requeues, waived>>

PCs == {"idle", "handle", "insert", "mark", "count", "bury", "release"}

Present == {e \in Events : created[e] # 0}

TypeOK ==
  /\ created \in [Events -> Nat]
  /\ processed \subseteq Events
  /\ claim \in [Events -> {"none", "fresh", "stale"}]
  /\ retries \in [Events -> Nat]
  /\ dlq \subseteq Events
  /\ pc \in [Workers -> PCs]
  /\ job \in [Workers -> Events \union {NoEvent}]
  /\ clock \in Nat
  /\ faults \in 0..MaxFaults
  /\ requeues \in 0..MaxRequeues
  /\ waived \subseteq Events

Init ==
  /\ created = [e \in Events |-> 0]
  /\ processed = {}
  /\ claim = [e \in Events |-> "none"]
  /\ retries = [e \in Events |-> 0]
  /\ dlq = {}
  /\ pc = [w \in Workers |-> "idle"]
  /\ job = [w \in Workers |-> NoEvent]
  /\ clock = 0
  /\ faults = 0
  /\ requeues = 0
  /\ waived = {}

-------------------------------------------------------------------------------
(* The events table. *)

\* InsertEvent, when neither ErrMissingTraceField nor ErrOrphanEvent is returned:
\* ON CONFLICT (event_id) DO NOTHING.
InsertEvent(e) ==
  /\ e \notin Refused
  /\ IF created[e] # 0
     THEN UNCHANGED <<created, clock>>
     ELSE /\ created' = [created EXCEPT ![e] = clock + 1]
          /\ clock' = clock + 1

\* Slip: only rows with claimed_at NULL are claimed; a stale claim is never.
ClaimableNeverStale(w, e) ==
  /\ e \in Handles[w]
  /\ created[e] # 0
  /\ e \notin processed
  /\ claim[e] = "none"

\* Slip: the WHERE clause forgets claimed_at.
ClaimableWhoeverHolds(w, e) ==
  /\ e \in Handles[w]
  /\ created[e] # 0
  /\ e \notin processed

\* The WHERE clause of ClaimNextEvent.
Claimable(w, e) ==
  /\ e \in Handles[w]
  /\ created[e] # 0
  /\ e \notin processed
  /\ claim[e] # "fresh"

-------------------------------------------------------------------------------
(* The worker loop. Goto moves a worker on with its event, Drop ends its round. *)

Goto(w, next) == pc' = [pc EXCEPT ![w] = next] /\ UNCHANGED job

Drop(w) == /\ pc' = [pc EXCEPT ![w] = "idle"]
           /\ job' = [job EXCEPT ![w] = NoEvent]

\* ClaimNextEvent: the oldest claimable row, claimed_at = now.
ClaimNextEvent(w) ==
  /\ pc[w] = "idle"
  /\ \E e \in Events :
       /\ Claimable(w, e)
       /\ \A f \in Events : Claimable(w, f) => created[e] <= created[f]
       /\ claim' = [claim EXCEPT ![e] = "fresh"]
       /\ job' = [job EXCEPT ![w] = e]
  /\ pc' = [pc EXCEPT ![w] = "handle"]
  /\ UNCHANGED <<created, processed, retries, dlq, clock, boundVars, waived>>

\* Slip: the event is marked processed instead of inserting its output first.
HandlerEmitsLater(w) ==
  /\ pc[w] = "handle"
  /\ w \notin Listeners
  /\ OutputOf[job[w]] # NoEvent
  /\ Goto(w, "mark")
  /\ UNCHANGED <<rowVars, boundVars, waived>>

\* The stage returns an output event.
HandlerEmits(w) ==
  /\ pc[w] = "handle"
  /\ w \notin Listeners
  /\ OutputOf[job[w]] # NoEvent
  /\ Goto(w, "insert")
  /\ UNCHANGED <<rowVars, boundVars, waived>>

\* The stage returns no output, or reports ErrLifecycleAlreadyAdvanced: the
\* event goes straight to MarkEventProcessed.
HandlerEnds(w) ==
  /\ pc[w] = "handle"
  /\ w \notin Listeners
  /\ Goto(w, "mark")
  /\ waived' = waived \union {job[w]}
  /\ UNCHANGED <<rowVars, boundVars>>

\* The stage returns any other error, or panics.
HandlerFails(w) ==
  /\ pc[w] = "handle"
  /\ w \notin Listeners
  /\ Goto(w, "count")
  /\ UNCHANGED <<rowVars, boundVars, waived>>

\* A listener has recorded what it wants to know of the event: the row is
\* settled, and the stage of its type does not see it.
ListenerSettles(w) ==
  /\ pc[w] = "handle"
  /\ w \in Listeners
  /\ Goto(w, "mark")
  /\ UNCHANGED <<rowVars, boundVars, waived>>

\* The event is not for the listener, or recording it failed: no retry is counted.
ListenerReleases(w) ==
  /\ pc[w] = "handle"
  /\ w \in Listeners
  /\ Goto(w, "release")
  /\ UNCHANGED <<rowVars, boundVars, waived>>

InsertOutput(w) ==
  /\ pc[w] = "insert"
  /\ InsertEvent(OutputOf[job[w]])
  /\ Goto(w, "mark")
  /\ UNCHANGED <<processed, claim, retries, dlq, boundVars, waived>>

\* The output is refused, as it will be every time: no retry is counted, and the
\* event waits for its claim to time out.
OutputRefused(w) ==
  /\ pc[w] = "insert"
  /\ OutputOf[job[w]] \in Refused
  /\ Drop(w)
  /\ UNCHANGED <<rowVars, boundVars, waived>>

\* MarkEventProcessed: unconditional on the claim, and clears it.
MarkEventProcessed(w) ==
  /\ pc[w] = "mark"
  /\ processed' = processed \union {job[w]}
  /\ claim' = [claim EXCEPT ![job[w]] = "none"]
  /\ Drop(w)
  /\ UNCHANGED <<created, retries, dlq, clock, boundVars, waived>>

\* Slip: the cap is compared with >= and the last retry is lost.
IncrementEventRetryEarly(w) ==
  /\ pc[w] = "count"
  /\ retries' = [retries EXCEPT ![job[w]] = @ + 1]
  /\ Goto(w, IF retries[job[w]] + 1 >= MaxRetries THEN "bury" ELSE "release")
  /\ UNCHANGED <<created, processed, claim, dlq, clock, boundVars, waived>>

\* handleStageFailure, first statement: IncrementEventRetry and the cap.
IncrementEventRetry(w) ==
  /\ pc[w] = "count"
  /\ retries' = [retries EXCEPT ![job[w]] = @ + 1]
  /\ Goto(w, IF retries[job[w]] + 1 > MaxRetries THEN "bury" ELSE "release")
  /\ UNCHANGED <<created, processed, claim, dlq, clock, boundVars, waived>>

\* MoveToDLQ: one transaction; the claim is left as it is.
MoveToDLQ(w) ==
  /\ pc[w] = "bury"
  /\ dlq' = dlq \union {job[w]}
  /\ processed' = processed \union {job[w]}
  /\ Drop(w)
  /\ UNCHANGED <<created, claim, retries, clock, boundVars, waived>>

\* Slip: the release forgets WHERE processed = FALSE and resets the row.
ReleaseEventClaimReopens(w) ==
  /\ pc[w] = "release"
  /\ claim' = [claim EXCEPT ![job[w]] = "none"]
  /\ processed' = processed \ {job[w]}
  /\ Drop(w)
  /\ UNCHANGED <<created, retries, dlq, clock, boundVars, waived>>

\* Slip: the release gives back a retry that may never have been counted.
ReleaseEventClaimRefunds(w) ==
  /\ pc[w] = "release"
  /\ claim' = IF job[w] \in processed THEN claim ELSE [claim EXCEPT ![job[w]] = "none"]
  /\ retries' = [retries EXCEPT ![job[w]] = @ - 1]
  /\ Drop(w)
  /\ UNCHANGED <<created, processed, dlq, clock, boundVars, waived>>

\* ReleaseEventClaim: clears the claim of an unprocessed row, whoever holds it.
ReleaseEventClaim(w) ==
  /\ pc[w] = "release"
  /\ claim' = IF job[w] \in processed THEN claim ELSE [claim EXCEPT ![job[w]] = "none"]
  /\ Drop(w)
  /\ UNCHANGED <<created, processed, retries, dlq, clock, boundVars, waived>>

-------------------------------------------------------------------------------
(* Faults, time and the operator. *)

\* Slip: a failed InsertEvent is logged and the event is marked all the same.
StatementFailsQuietly(w) ==
  /\ faults < MaxFaults
  /\ faults' = faults + 1
  /\ \/ pc[w] \in {"count", "bury"} /\ Goto(w, "release")
     \/ pc[w] = "insert" /\ Goto(w, "mark")
     \/ pc[w] \in {"mark", "release"} /\ Drop(w)
  /\ UNCHANGED <<rowVars, requeues, waived>>

\* A statement fails: a lost retry count or dead letter falls through to the
\* release, any other failure ends the round and leaves the claim to its timeout.
StatementFails(w) ==
  /\ faults < MaxFaults
  /\ faults' = faults + 1
  /\ \/ pc[w] \in {"count", "bury"} /\ Goto(w, "release")
     \/ pc[w] \in {"insert", "mark", "release"} /\ Drop(w)
  /\ UNCHANGED <<rowVars, requeues, waived>>

\* The process stops (crash or shutdown) and starts again with empty memory.
Crash(w) ==
  /\ pc[w] # "idle"
  /\ faults < MaxFaults
  /\ faults' = faults + 1
  /\ Drop(w)
  /\ UNCHANGED <<rowVars, requeues, waived>>

\* claimed_at passes the stale-claim timeout. Unless stages may be slow, this
\* happens only to a row that no live worker holds.
ClaimExpires(e) ==
  /\ claim[e] = "fresh"
  /\ SlowHandlers \/ \A w \in Workers : job[w] # e
  /\ claim' = [claim EXCEPT ![e] = "stale"]
  /\ UNCHANGED <<created, processed, retries, dlq, pc, job, clock, boundVars, waived>>

\* RequeueFromDLQ: reset the row and delete the dead letter, in one transaction.
RequeueFromDLQ(e) ==
  /\ e \in dlq
  /\ requeues < MaxRequeues
  /\ requeues' = requeues + 1
  /\ processed' = processed \ {e}
  /\ retries' = [retries EXCEPT ![e] = 0]
  /\ claim' = [claim EXCEPT ![e] = "none"]
  /\ dlq' = dlq \ {e}
  /\ UNCHANGED <<created, pc, job, clock, faults, waived>>

\* Ingestion publishes a root event.
Publish(e) ==
  /\ e \in Roots
  /\ created[e] = 0
  /\ InsertEvent(e)
  /\ UNCHANGED <<processed, claim, retries, dlq, pc, job, boundVars, waived>>

-------------------------------------------------------------------------------
WorkerStep(w) ==
  \/ ClaimNextEvent(w)
  \/ HandlerEmits(w)
  \/ HandlerEnds(w)
  \/ HandlerFails(w)
  \/ InsertOutput(w)
  \/ OutputRefused(w)
  \/ MarkEventProcessed(w)
  \/ IncrementEventRetry(w)
  \/ MoveToDLQ(w)
  \/ ReleaseEventClaim(w)

\* What a loop that is not the stage of its event type does in place of a handler.
ListenerStep(w) ==
  \/ ListenerSettles(w)
  \/ ListenerReleases(w)

Next ==
  \/ \E w \in Listeners : ListenerStep(w)
  \/ \E w \in Workers : WorkerStep(w) \/ StatementFails(w) \/ Crash(w)
  \/ \E e \in Events : ClaimExpires(e) \/ RequeueFromDLQ(e) \/ Publish(e)

Spec == Init /\ [][Next]_vars

\* Every worker goroutine keeps running and wall-clock time passes.
FairSpec ==
  /\ Spec
  /\ \A w \in Workers : WF_vars(WorkerStep(w))
  /\ \A w \in Listeners : WF_vars(ListenerStep(w))
  /\ \A e \in Events : WF_vars(ClaimExpires(e))

-------------------------------------------------------------------------------
(* Safety. *)

\* No event is dropped: a processed row is dead-lettered, or its output is on
\* the bus, or its stage decided to end it (worker.go: InsertEvent comes before
\* MarkEventProcessed, and every early exit of the loop leaves the row).
NoSilentDrop ==
  \A e \in processed :
    \/ e \in dlq
    \/ e \in waived
    \/ OutputOf[e] \in Present

\* The dead-letter table and the events table agree: a dead letter is never
\* also claimable (MoveToDLQ and RequeueFromDLQ are transactions).
DeadLettersSettled == dlq \subseteq processed

\* The poison-pill barrier gives every event its retries: nothing is
\* dead-lettered before retry_count exceeds the cap, across workers, crashes,
\* failed statements and requeues.
NoEarlyBurial == \A e \in dlq : retries[e] > MaxRetries

\* At most one worker holds an event when no live stage outlives its claim.
OneHolder ==
  \A v, w \in Workers : v # w /\ job[v] # NoEvent => job[v] # job[w]

\* Inserting an output again after a redelivery never re-opens an event that
\* was settled; only a requeue of a dead letter does (ON CONFLICT DO NOTHING).
SettledStaysSettled ==
  [][\A e \in processed : e \notin processed' => e \in dlq /\ e \notin dlq']_vars

(* Liveness. *)

\* No output of e or of an older event is one that the table refuses.
Unobstructed(e) ==
  \A f \in Present : created[f] <= created[e] => OutputOf[f] \notin Refused

\* Every event on the bus that a worker handles is settled in the end, whatever
\* the stage returns and in spite of crashes and failed statements, unless the
\* table refuses its output or that of an older event. (Such an event is
\* delivered for ever, and stages that outlive their claims may never come to
\* those behind it.)
EveryEventSettles ==
  \A e \in UNION {Handles[w] : w \in Workers} :
    created[e] # 0 /\ Unobstructed(e) ~> e \in processed

(* Refinement. *)

\* The bus as its users see it.
status == [e \in Events |->
             IF created[e] = 0 THEN "absent"
             ELSE IF e \in dlq THEN "dead"
             ELSE IF e \in processed THEN "done"
             ELSE "pending"]

Queue == INSTANCE WorkQueue WITH
  Events <- Events, NoEvent <- NoEvent, Roots <- Roots, OutputOf <- OutputOf,
  status <- status, waived <- waived

ImplementsWorkQueue == Queue!Spec
===============================================================================
