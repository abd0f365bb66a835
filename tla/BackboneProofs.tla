----------------------------- MODULE BackboneProofs -----------------------------
(***************************************************************************)
(* Theorems about what the whole bot stands on: the event bus, the control *)
(* rows and the operators' console.  The three share nothing and have one  *)
(* part each, which begins with the argument.  Behaviours of MCBackbone    *)
(* are behaviours of each of them, and of Decisions.                       *)
(***************************************************************************)
EXTENDS MCBackbone, DecisionsProofs, SequenceTheorems, TLAPS

-------------------------------------------------------------------------------
(***************************************************************************)
(* What holds of the event bus for any number of events, workers, retries  *)
(* and faults.                                                             *)
(*                                                                         *)
(* The argument has two layers.  Shape relates a worker's next statement   *)
(* to the rows it is about to write: the worker that is about to mark its  *)
(* event has already put the output on the bus.  With it, no event is      *)
(* dropped and the bus implements WorkQueue, however slow the stages are.  *)
(* Exclusive adds, for stages that answer in time, that a row in a         *)
(* worker's hands is freshly claimed and unprocessed, which is why a       *)
(* second worker cannot take it and a requeue cannot touch it.             *)
(***************************************************************************)

\* A worker's memory agrees with the statement it runs next.
WorkerShape(w) ==
  /\ pc[w] = "idle" <=> job[w] = NoEvent
  /\ job[w] # NoEvent => created[job[w]] # 0
  /\ pc[w] = "insert" => OutputOf[job[w]] # NoEvent
  /\ pc[w] = "mark" =>
       w \in Listeners \/ job[w] \in waived \/ OutputOf[job[w]] \in Present

WorkersShaped == \A w \in Workers : WorkerShape(w)

Shape ==
  /\ TypeOK
  /\ WorkersShaped
  /\ processed \subseteq Present
  /\ DeadLettersSettled
  /\ Listeners = {} => NoSilentDrop

\* The migrated, empty tables satisfy the shape.
LEMMA ShapeInit == Init => Shape
BY BusAssumption
   DEF Init, Shape, TypeOK, PCs, WorkersShaped, WorkerShape, Present,
       DeadLettersSettled, NoSilentDrop

\* The two actions that insert a row give it a nonzero stamp and keep the others.
LEMMA InsertKeeps ==
  ASSUME TypeOK, NEW e \in Events, InsertEvent(e)
  PROVE  /\ created' \in [Events -> Nat]
         /\ clock' \in Nat
         /\ created'[e] # 0
         /\ \A f \in Events : created[f] # 0 => created'[f] # 0
BY DEF TypeOK, InsertEvent

\* Every statement of the worker loop, every crash and every requeue keep the shape.
LEMMA ShapeNext == Shape /\ [Next]_vars => Shape'
<1> SUFFICES ASSUME Shape, [Next]_vars PROVE Shape'
  OBVIOUS
<1> USE BusAssumption DEF Shape, rowVars, boundVars
<1> USE DEF TypeOK, PCs, WorkersShaped, WorkerShape, DeadLettersSettled, NoSilentDrop
<1>1. ASSUME NEW w \in Workers, ClaimNextEvent(w) PROVE Shape'
  BY <1>1 DEF ClaimNextEvent, Claimable, Present
<1>2. ASSUME NEW w \in Workers, HandlerEmits(w) PROVE Shape'
  BY <1>2 DEF HandlerEmits, Goto, Present
<1>3. ASSUME NEW w \in Workers, HandlerEnds(w) PROVE Shape'
  BY <1>3 DEF HandlerEnds, Goto, Present
<1>4. ASSUME NEW w \in Workers, HandlerFails(w) PROVE Shape'
  BY <1>4 DEF HandlerFails, Goto, Present
<1>5. ASSUME NEW w \in Workers, InsertOutput(w) PROVE Shape'
  <2>1. OutputOf[job[w]] \in Events /\ InsertEvent(OutputOf[job[w]])
    BY <1>5 DEF InsertOutput
  <2>2. /\ created' \in [Events -> Nat]
        /\ clock' \in Nat
        /\ created'[OutputOf[job[w]]] # 0
        /\ \A f \in Events : created[f] # 0 => created'[f] # 0
    BY <2>1, InsertKeeps
  <2>3. Present \subseteq Present' /\ OutputOf[job[w]] \in Present'
    BY <2>1, <2>2 DEF Present
  <2>4. TypeOK'
    BY <1>5, <2>2 DEF InsertOutput, Goto
  <2>5. WorkersShaped'
    BY <1>5, <2>2, <2>3 DEF InsertOutput, Goto
  <2>6. (processed \subseteq Present)' /\ DeadLettersSettled' /\ (Listeners = {} => NoSilentDrop')
    BY <1>5, <2>3 DEF InsertOutput
  <2> QED BY <2>4, <2>5, <2>6
<1>6. ASSUME NEW w \in Workers, MarkEventProcessed(w) PROVE Shape'
  BY <1>6 DEF MarkEventProcessed, Drop, Present
<1>7. ASSUME NEW w \in Workers, IncrementEventRetry(w) PROVE Shape'
  BY <1>7 DEF IncrementEventRetry, Goto, Present
<1>8. ASSUME NEW w \in Workers, MoveToDLQ(w) PROVE Shape'
  BY <1>8 DEF MoveToDLQ, Drop, Present
<1>9. ASSUME NEW w \in Workers, ReleaseEventClaim(w) PROVE Shape'
  BY <1>9 DEF ReleaseEventClaim, Drop, Present
<1>10. ASSUME NEW w \in Workers, StatementFails(w) PROVE Shape'
  BY <1>10 DEF StatementFails, Goto, Drop, Present
<1>17. ASSUME NEW w \in Workers, OutputRefused(w) PROVE Shape'
  BY <1>17 DEF OutputRefused, Drop, Present
<1>11. ASSUME NEW w \in Workers, Crash(w) PROVE Shape'
  BY <1>11 DEF Crash, Drop, Present
<1>12. ASSUME NEW e \in Events, ClaimExpires(e) PROVE Shape'
  BY <1>12 DEF ClaimExpires, Present
<1>13. ASSUME NEW e \in Events, RequeueFromDLQ(e) PROVE Shape'
  BY <1>13 DEF RequeueFromDLQ, Present
<1>14. ASSUME NEW e \in Events, Publish(e) PROVE Shape'
  <2>1. /\ created' \in [Events -> Nat]
        /\ clock' \in Nat
        /\ \A f \in Events : created[f] # 0 => created'[f] # 0
    BY <1>14, InsertKeeps DEF Publish
  <2>2. Present \subseteq Present'
    BY <2>1 DEF Present
  <2> QED BY <1>14, <2>1, <2>2 DEF Publish
<1>15. CASE UNCHANGED vars
  BY <1>15 DEF vars, Present
<1>16. ASSUME NEW w \in Listeners, ListenerStep(w) PROVE Shape'
  BY <1>16, BusAssumption DEF ListenerStep, ListenerSettles, ListenerReleases, Goto, Present
<1> QED
  BY <1>1, <1>2, <1>3, <1>4, <1>5, <1>6, <1>7, <1>8, <1>9, <1>10, <1>11,
     <1>12, <1>13, <1>14, <1>15, <1>16, <1>17 DEF Next, WorkerStep

\* The shape holds in every state.
LEMMA ShapeInvariant == Spec => []Shape
BY ShapeInit, ShapeNext, PTL DEF Spec

\* Every variable of the bus keeps its type.
THEOREM TypeCorrect == Spec => []TypeOK
BY ShapeInvariant, PTL DEF Shape

\* Where every event has one consumer group no event is dropped: whatever stops
\* or fails between two statements of the worker loop, a processed row is
\* dead-lettered, ended, or has its output.
THEOREM NothingDropped == Listeners = {} /\ Spec => []NoSilentDrop
<1> SUFFICES ASSUME Listeners = {} PROVE Spec => []NoSilentDrop
  OBVIOUS
<1>1. Shape => NoSilentDrop
  BY DEF Shape
<1> QED BY <1>1, ShapeInvariant, PTL

\* A dead letter is never claimable at the same time.
THEOREM DeadLettersAreSettled == Spec => []DeadLettersSettled
BY ShapeInvariant, PTL DEF Shape

-------------------------------------------------------------------------------
(* Stages that answer before their claim times out. *)

\* A row in a worker's hands is claimed, unprocessed, and held by no one else;
\* a worker about to dead-letter a row has used up its retries.
Exclusive ==
  /\ \A w \in Workers : job[w] # NoEvent =>
       claim[job[w]] = "fresh" /\ job[w] \notin processed
  /\ OneHolder
  /\ \A w \in Workers : pc[w] = "bury" => retries[job[w]] > MaxRetries
  /\ NoEarlyBurial

\* Nobody holds a row at the start.
LEMMA ExclusiveInit == Init => Exclusive
BY DEF Init, Exclusive, OneHolder, NoEarlyBurial

\* With stages that answer in time, every step keeps a row in at most one pair of hands.
LEMMA ExclusiveNext ==
  ~SlowHandlers /\ Shape /\ Exclusive /\ [Next]_vars => Exclusive'
<1> SUFFICES ASSUME ~SlowHandlers, Shape, Exclusive, [Next]_vars PROVE Exclusive'
  OBVIOUS
<1> USE BusAssumption DEF Shape, rowVars, boundVars
<1> USE DEF TypeOK, PCs, WorkersShaped, WorkerShape, DeadLettersSettled
<1> USE DEF Exclusive, OneHolder, NoEarlyBurial
<1>1. ASSUME NEW w \in Workers, ClaimNextEvent(w) PROVE Exclusive'
  BY <1>1 DEF ClaimNextEvent, Claimable
<1>2. ASSUME NEW w \in Workers, HandlerEmits(w) PROVE Exclusive'
  BY <1>2 DEF HandlerEmits, Goto
<1>3. ASSUME NEW w \in Workers, HandlerEnds(w) PROVE Exclusive'
  BY <1>3 DEF HandlerEnds, Goto
<1>4. ASSUME NEW w \in Workers, HandlerFails(w) PROVE Exclusive'
  BY <1>4 DEF HandlerFails, Goto
<1>5. ASSUME NEW w \in Workers, InsertOutput(w) PROVE Exclusive'
  BY <1>5 DEF InsertOutput, Goto
<1>6. ASSUME NEW w \in Workers, MarkEventProcessed(w) PROVE Exclusive'
  BY <1>6 DEF MarkEventProcessed, Drop
<1>7. ASSUME NEW w \in Workers, IncrementEventRetry(w) PROVE Exclusive'
  BY <1>7 DEF IncrementEventRetry, Goto
<1>8. ASSUME NEW w \in Workers, MoveToDLQ(w) PROVE Exclusive'
  BY <1>8 DEF MoveToDLQ, Drop
<1>9. ASSUME NEW w \in Workers, ReleaseEventClaim(w) PROVE Exclusive'
  BY <1>9 DEF ReleaseEventClaim, Drop
<1>10. ASSUME NEW w \in Workers, StatementFails(w) PROVE Exclusive'
  BY <1>10 DEF StatementFails, Goto, Drop
<1>17. ASSUME NEW w \in Workers, OutputRefused(w) PROVE Exclusive'
  BY <1>17 DEF OutputRefused, Drop
<1>11. ASSUME NEW w \in Workers, Crash(w) PROVE Exclusive'
  BY <1>11 DEF Crash, Drop
<1>12. ASSUME NEW e \in Events, ClaimExpires(e) PROVE Exclusive'
  BY <1>12 DEF ClaimExpires
<1>13. ASSUME NEW e \in Events, RequeueFromDLQ(e) PROVE Exclusive'
  BY <1>13 DEF RequeueFromDLQ
<1>14. ASSUME NEW e \in Events, Publish(e) PROVE Exclusive'
  BY <1>14 DEF Publish
<1>15. CASE UNCHANGED vars
  BY <1>15 DEF vars
<1>16. ASSUME NEW w \in Listeners, ListenerStep(w) PROVE Exclusive'
  BY <1>16, BusAssumption DEF ListenerStep, ListenerSettles, ListenerReleases, Goto, Present
<1> QED
  BY <1>1, <1>2, <1>3, <1>4, <1>5, <1>6, <1>7, <1>8, <1>9, <1>10, <1>11,
     <1>12, <1>13, <1>14, <1>15, <1>16, <1>17 DEF Next, WorkerStep

\* When no live stage outlives its claim, no two workers ever hold one event.
THEOREM ExclusiveHolder == ~SlowHandlers /\ Spec => []OneHolder
<1> SUFFICES ASSUME ~SlowHandlers PROVE Spec => []OneHolder
  OBVIOUS
<1>1. Init => Exclusive
  BY ExclusiveInit
<1>2. Shape /\ Exclusive /\ [Next]_vars => Exclusive'
  BY ExclusiveNext
<1>3. Exclusive => OneHolder
  BY DEF Exclusive
<1> QED
  BY <1>1, <1>2, <1>3, ShapeInvariant, PTL DEF Spec

\* When no live stage outlives its claim, no event is dead-lettered before its
\* retries are used up.
THEOREM RetriesUsedUp == ~SlowHandlers /\ Spec => []NoEarlyBurial
<1> SUFFICES ASSUME ~SlowHandlers PROVE Spec => []NoEarlyBurial
  OBVIOUS
<1>1. Init => Exclusive
  BY ExclusiveInit
<1>2. Shape /\ Exclusive /\ [Next]_vars => Exclusive'
  BY ExclusiveNext
<1>3. Exclusive => NoEarlyBurial
  BY DEF Exclusive
<1> QED
  BY <1>1, <1>2, <1>3, ShapeInvariant, PTL DEF Spec

-------------------------------------------------------------------------------
(* Re-emission and refinement. *)

\* Only RequeueFromDLQ makes a processed row unprocessed, and it takes the dead letter away.
LEMMA ReopenStep ==
  Shape /\ [Next]_vars => \A e \in processed : e \notin processed' => e \in dlq /\ e \notin dlq'
<1> SUFFICES ASSUME Shape, [Next]_vars, NEW e \in processed, e \notin processed'
             PROVE e \in dlq /\ e \notin dlq'
  OBVIOUS
<1>1. \E d \in Events : RequeueFromDLQ(d)
  BY DEF Next, WorkerStep, ListenerStep, vars, rowVars, ClaimNextEvent, HandlerEmits, HandlerEnds,
         HandlerFails, ListenerSettles, ListenerReleases, InsertOutput, OutputRefused, MarkEventProcessed, IncrementEventRetry,
         MoveToDLQ, ReleaseEventClaim, StatementFails, Crash, ClaimExpires, Publish
<1> QED BY <1>1 DEF RequeueFromDLQ

\* A redelivery that inserts its output again never re-opens a settled event.
THEOREM SettledForGood == Spec => SettledStaysSettled
BY ShapeInvariant, ReopenStep, PTL DEF Spec, SettledStaysSettled

\* The empty tables map to the initial state of the work queue.
LEMMA QueueInit == Init => Queue!Init
BY DEF Init, Queue!Init, status

\* Only a row that is inserted, marked, buried or requeued changes its status.
LEMMA StatusSame ==
  created' = created /\ processed' = processed /\ dlq' = dlq => status' = status
BY DEF status

\* A new row is seen by the users of the bus as an added event.
LEMMA InsertIsAdd ==
  ASSUME Shape, NEW e \in Events, InsertEvent(e), UNCHANGED <<processed, dlq, waived>>,
         e \in Roots \/ \E cause \in Events : OutputOf[cause] = e /\ created[cause] # 0
  PROVE  Queue!Next \/ UNCHANGED Queue!wqVars
<1>1. CASE created[e] # 0
  BY <1>1, StatusSame DEF InsertEvent, Queue!wqVars
<1>2. CASE created[e] = 0
  <2>1. e \notin processed /\ e \notin dlq
    BY <1>2 DEF Shape, Present, DeadLettersSettled
  <2>2. status[e] = "absent"
    BY <1>2 DEF status
  <2>3. created'[e] # 0 /\ \A f \in Events \ {e} : created'[f] = created[f]
    BY <1>2 DEF InsertEvent, Shape, TypeOK
  <2>4. status' = [status EXCEPT ![e] = "pending"]
    BY <2>1, <2>3 DEF status
  <2>5. e \in Roots \/ \E cause \in Events : OutputOf[cause] = e /\ status[cause] # "absent"
    BY DEF status
  <2>6. Queue!Add(e)
    BY <2>2, <2>4, <2>5 DEF Queue!Add
  <2> QED BY <2>6 DEF Queue!Next
<1> QED BY <1>1, <1>2

\* With one consumer group for every event, a step of the bus is a step of the
\* work queue or changes nothing its users see.
LEMMA QueueStep ==
  Listeners = {} /\ Shape /\ [Next]_vars => Queue!Next \/ UNCHANGED Queue!wqVars
<1> SUFFICES ASSUME Listeners = {}, Shape, [Next]_vars
             PROVE  Queue!Next \/ UNCHANGED Queue!wqVars
  OBVIOUS
<1> USE BusAssumption DEF Shape, WorkersShaped, WorkerShape, TypeOK, PCs, boundVars
<1>1. ASSUME NEW w \in Workers,
             \/ ClaimNextEvent(w) \/ HandlerEmits(w) \/ HandlerFails(w)
             \/ IncrementEventRetry(w) \/ ReleaseEventClaim(w)
             \/ OutputRefused(w) \/ StatementFails(w) \/ Crash(w)
      PROVE  UNCHANGED Queue!wqVars
  BY <1>1, StatusSame
     DEF ClaimNextEvent, HandlerEmits, HandlerFails, IncrementEventRetry,
         ReleaseEventClaim, OutputRefused, StatementFails, Crash, rowVars, Queue!wqVars
<1>2. ASSUME NEW w \in Workers, HandlerEnds(w) PROVE Queue!Next
  <2>1. job[w] \in Events /\ status[job[w]] # "absent"
    BY <1>2 DEF HandlerEnds, status
  <2>2. status' = status
    BY <1>2, StatusSame DEF HandlerEnds, rowVars
  <2>3. Queue!Waive(job[w])
    BY <1>2, <2>1, <2>2 DEF HandlerEnds, Queue!Waive
  <2> QED BY <2>1, <2>3 DEF Queue!Next
<1>3. ASSUME NEW w \in Workers, InsertOutput(w)
      PROVE  Queue!Next \/ UNCHANGED Queue!wqVars
  <2>1. job[w] \in Events /\ created[job[w]] # 0
    BY <1>3 DEF InsertOutput
  <2>2. OutputOf[job[w]] \in Events /\ InsertEvent(OutputOf[job[w]])
    BY <1>3 DEF InsertOutput
  <2>3. UNCHANGED <<processed, dlq, waived>>
    BY <1>3 DEF InsertOutput
  <2> QED BY <2>1, <2>2, <2>3, InsertIsAdd
<1>4. ASSUME NEW w \in Workers, MarkEventProcessed(w)
      PROVE  Queue!Next \/ UNCHANGED Queue!wqVars
  <2> DEFINE e == job[w]
  <2>1. /\ e \in Events /\ created[e] # 0
        /\ e \in waived \/ OutputOf[e] \in Present
        /\ processed' = processed \union {e}
        /\ UNCHANGED <<created, dlq, waived>>
    BY <1>4 DEF MarkEventProcessed
  <2>2. CASE status[e] = "pending"
    <3>0. e \notin dlq
      BY <2>1, <2>2 DEF status
    <3>1. status' = [status EXCEPT ![e] = "done"]
      <4>1. \A f \in Events : status'[f] = IF f = e THEN "done" ELSE status[f]
        BY <2>1, <3>0 DEF status
      <4> QED BY <4>1 DEF status
    <3>2. e \in waived \/ (OutputOf[e] # NoEvent /\ status[OutputOf[e]] # "absent")
      BY <2>1 DEF Present, status
    <3>3. Queue!Finish(e)
      BY <2>1, <2>2, <3>1, <3>2 DEF Queue!Finish
    <3> QED BY <2>1, <3>3 DEF Queue!Next
  <2>3. CASE status[e] # "pending"
    <3>1. status' = status
      BY <2>1, <2>3 DEF status
    <3> QED BY <2>1, <3>1 DEF Queue!wqVars
  <2> QED BY <2>2, <2>3
<1>5. ASSUME NEW w \in Workers, MoveToDLQ(w)
      PROVE  Queue!Next \/ UNCHANGED Queue!wqVars
  <2> DEFINE e == job[w]
  <2>1. /\ e \in Events /\ created[e] # 0
        /\ dlq' = dlq \union {e}
        /\ processed' = processed \union {e}
        /\ UNCHANGED <<created, waived>>
    BY <1>5 DEF MoveToDLQ
  <2>2. CASE e \in dlq
    <3>1. status' = status
      BY <2>1, <2>2 DEF status
    <3> QED BY <2>1, <3>1 DEF Queue!wqVars
  <2>3. CASE e \notin dlq
    <3>1. status[e] \in {"pending", "done"}
      BY <2>1, <2>3 DEF status
    <3>2. status' = [status EXCEPT ![e] = "dead"]
      BY <2>1 DEF status
    <3>3. Queue!Bury(e)
      BY <2>1, <3>1, <3>2 DEF Queue!Bury
    <3> QED BY <2>1, <3>3 DEF Queue!Next
  <2> QED BY <2>2, <2>3
<1>6. ASSUME NEW e \in Events, ClaimExpires(e) PROVE UNCHANGED Queue!wqVars
  BY <1>6, StatusSame DEF ClaimExpires, Queue!wqVars
<1>7. ASSUME NEW e \in Events, RequeueFromDLQ(e) PROVE Queue!Next
  <2>1. status[e] = "dead"
    BY <1>7 DEF RequeueFromDLQ, status, DeadLettersSettled, Present
  <2>2. status' = [status EXCEPT ![e] = "pending"]
    BY <1>7, <2>1 DEF RequeueFromDLQ, status
  <2>3. Queue!Reopen(e)
    BY <1>7, <2>1, <2>2 DEF RequeueFromDLQ, Queue!Reopen
  <2> QED BY <2>3 DEF Queue!Next
<1>8. ASSUME NEW e \in Events, Publish(e)
      PROVE  Queue!Next \/ UNCHANGED Queue!wqVars
  BY <1>8, InsertIsAdd DEF Publish
<1>9. CASE UNCHANGED vars
  BY <1>9, StatusSame DEF vars, Queue!wqVars
<1>10. ~\E w \in Listeners : ListenerStep(w)
  OBVIOUS
<1> QED
  BY <1>1, <1>2, <1>3, <1>4, <1>5, <1>6, <1>7, <1>8, <1>9, <1>10 DEF Next, WorkerStep

\* Where every event has one consumer group the claim protocol, with its
\* timeouts, retries, crashes and dead letters, implements the queue of WorkQueue.
THEOREM BusImplementsQueue == Listeners = {} /\ Spec => ImplementsWorkQueue
<1> SUFFICES ASSUME Listeners = {} PROVE Spec => ImplementsWorkQueue
  OBVIOUS
<1>1. Init => Queue!Init
  BY QueueInit
<1>2. Shape /\ [Next]_vars => [Queue!Next]_(Queue!wqVars)
  BY QueueStep
<1> QED
  BY <1>1, <1>2, ShapeInvariant, PTL DEF Spec, ImplementsWorkQueue, Queue!Spec

-------------------------------------------------------------------------------
(***************************************************************************)
(* Safety of system_state, for any number of controllers, executors and    *)
(* commands.                                                               *)
(*                                                                         *)
(* The argument is about versions.  A controller's own version is at most  *)
(* the version of the row it has read last, and two rows with one version  *)
(* are one row.  A write that succeeds therefore replaces the row that was *)
(* read; and the controller in step with the row is the last one to have   *)
(* written it, so its memory of the windows it has moved in is complete.   *)
(***************************************************************************)

(* The inductive invariant. *)

\* What was read is not newer than the row, and is the row if it is as new.
Reads(p) ==
  /\ seen[p].version <= row.version
  /\ seen[p].version = row.version => seen[p] = row

\* A controller has read the row after its own last write of it.
Held(c) ==
  /\ version[c] <= row.version
  /\ step[c] \in {"check", "safety", "appetite"} => version[c] <= seen[c].version

\* The appetite pass means to move an adaptive mode.
Aims(c) == step[c] = "appetite" => seen[c].mode \notin {"DEGRADED", "HALTED"}

Versions ==
  /\ row.version = 0 => row = InitialRow
  /\ \A p \in Writers : Reads(p)
  /\ \A c \in Controllers : Held(c) /\ Aims(c)

\* The windows a controller remembers lie in the past, and a move is for a new one.
Clock(c) ==
  /\ last[c] # NoWindow => last[c] <= window
  /\ step[c] \in {"adaptive", "appetite"} =>
       now[c] <= window /\ (last[c] # NoWindow => last[c] <= now[c])
  /\ step[c] = "appetite" => last[c] # now[c]

\* A controller in step with the row remembers a window as late as every move.
Remembers(c) ==
  version[c] = row.version =>
    \A x \in Windows : moves[x] > 0 => last[c] # NoWindow /\ x <= last[c]

Turns ==
  /\ row.version = 0 => \A x \in Windows : moves[x] = 0
  /\ \A c \in Controllers : Clock(c) /\ Remembers(c)
  /\ row.reason \in Operators => \A c \in Controllers : version[c] # row.version
  /\ OneMovePerWindow

\* Executor w may still submit what it holds.
Budget(w) ==
  /\ late[w] + (IF w \in gate THEN 1 ELSE 0) <= 1 + controlFaults
  /\ row.mode # "HALTED" => late[w] = 0

IInv == ControlTypeOK /\ Versions /\ Turns /\ \A w \in Executors : Budget(w)

-------------------------------------------------------------------------------
(* Facts about the operators. *)

\* The windows are numbers and NoWindow is none of them.
LEMMA WindowFacts ==
  0 \in Windows /\ Windows \subseteq Nat /\ NoWindow \in Nat /\ NoWindow \notin Windows
  BY ControlAssumption, SMT DEF ControlAssumption, Windows, NoWindow

\* The row of the migration is a row.
LEMMA InitialRowType ==
  InitialRow \in Rows /\ InitialRow.version = 0 /\ InitialRow.mode = "BALANCED"
  BY WindowFacts, SMT DEF InitialRow, Rows, Modes, AdaptiveModes, Reasons

\* The fields of a row.
LEMMA RowFacts ==
  ASSUME NEW r \in Rows
  PROVE  r.mode \in Modes /\ r.reason \in Reasons /\ r.version \in Nat /\ r.window \in Windows
  BY SMT DEF Rows

\* Controllers and operators are writers, and different ones.
LEMMA WriterFacts ==
  /\ Controllers \subseteq Writers /\ Operators \subseteq Writers
  /\ \A c \in Controllers : c \notin Operators
  BY ControlAssumption DEF ControlAssumption, Writers

\* EvaluateMode and the neighbours of a mode are modes.
LEMMA ModeFacts ==
  ASSUME NEW mode \in Modes, NEW band \in Bands
  PROVE  /\ EvaluateMode(mode, band) \in Modes
         /\ Downgrade(mode) \union Upgrade(mode) \subseteq Modes
         /\ "BALANCED" \in Modes
  <1>1. EvaluateMode(mode, band) \in Modes /\ "BALANCED" \in Modes
    BY SMT DEF EvaluateMode, Bands, Modes, AdaptiveModes
  <1>2. Downgrade(mode) \subseteq Modes
    BY SMT DEF Downgrade, Modes, AdaptiveModes
  <1>3. Upgrade(mode) \subseteq Modes
    BY SMT DEF Upgrade, Modes, AdaptiveModes
  <1> QED BY <1>1, <1>2, <1>3

\* The reasons a writer gives are reasons, and no operator is called "adaptive".
LEMMA ReasonFacts ==
  /\ "drawdown" \in Reasons /\ "adaptive" \in Reasons /\ Operators \subseteq Reasons
  /\ "drawdown" \notin Operators /\ "adaptive" \notin Operators /\ "" \notin Operators
  /\ Requests \subseteq Modes
  <1>1. Operators \subseteq {"manual_telegram", "manual_dashboard"}
    BY ControlAssumption DEF ControlAssumption
  <1>2. Requests \subseteq {"STRICT", "BALANCED", "EXPLORATION", "VERY_EXPLORATION"}
    BY ControlAssumption DEF ControlAssumption
  <1>3. Requests \subseteq Modes
    BY <1>2 DEF Modes, AdaptiveModes
  <1>4. "drawdown" \in Reasons /\ "adaptive" \in Reasons /\ Operators \subseteq Reasons
    BY Zenon DEF Reasons
  <1>5. "drawdown" \notin Operators /\ "adaptive" \notin Operators /\ "" \notin Operators
    <2>1. \A o \in Operators : o = "manual_telegram" \/ o = "manual_dashboard"
      BY <1>1
    <2>2. "manual_telegram" \notin {"drawdown", "adaptive", ""} /\ "manual_dashboard" \notin {"drawdown", "adaptive", ""}
      OBVIOUS
    <2> QED BY <2>1, <2>2, Zenon
  <1> QED BY <1>3, <1>4, <1>5

\* The row of the migration was written by no operator.
LEMMA InitialReason == InitialRow.reason \notin Operators
  BY ReasonFacts, Zenon DEF InitialRow

\* A write leaves a row of the right shape, with the next version.
LEMMA WriteFacts ==
  ASSUME ControlTypeOK, NEW mode \in Modes, NEW reason \in Reasons, Write(mode, reason)
  PROVE  /\ row' \in Rows /\ late' \in [Executors -> Nat]
         /\ row'.version = row.version + 1 /\ row'.reason = reason /\ row'.mode = mode
         /\ row' # row /\ row'.version > 0
         /\ \A w \in Executors : late'[w] = 0
  <1>1. row.version \in Nat /\ window \in Windows
    BY RowFacts DEF ControlTypeOK
  <1>2. row' \in Rows /\ row'.version = row.version + 1 /\ row'.reason = reason /\ row'.mode = mode
    BY <1>1, SMT DEF Write, Rows
  <1>3. row' # row /\ row'.version > 0
    BY <1>1, <1>2, SMT
  <1> QED BY <1>1, <1>2, <1>3, SMT DEF Write

\* What At does to the writer, and to nobody else.
LEMMA AtFacts ==
  ASSUME ControlTypeOK, NEW p \in Writers, NEW r \in Rows, NEW m \in Modes,
         NEW s \in {"idle", "check", "safety", "adaptive", "appetite", "read", "write"}, At(p, s, r, m)
  PROVE  /\ step' \in [Writers -> {"idle", "check", "safety", "adaptive", "appetite", "read", "write"}]
         /\ seen' \in [Writers -> Rows] /\ target' \in [Writers -> Modes]
         /\ step'[p] = s /\ seen'[p] = r /\ target'[p] = m
         /\ \A q \in Writers \ {p} : step'[q] = step[q] /\ seen'[q] = seen[q] /\ target'[q] = target[q]
  BY SMT DEF At, ControlTypeOK

\* The same for the end of a tick or a command.
LEMMA EndFacts ==
  ASSUME ControlTypeOK, NEW p \in Writers, Ends(p)
  PROVE  /\ step' \in [Writers -> {"idle", "check", "safety", "adaptive", "appetite", "read", "write"}]
         /\ seen' \in [Writers -> Rows] /\ target' \in [Writers -> Modes]
         /\ step'[p] = "idle" /\ seen'[p] = InitialRow
         /\ \A q \in Writers \ {p} : step'[q] = step[q] /\ seen'[q] = seen[q] /\ target'[q] = target[q]
  <1>1. "BALANCED" \in Modes
    BY DEF Modes, AdaptiveModes
  <1> QED BY <1>1, InitialRowType, AtFacts, Zenon DEF Ends

\* And for a tick that goes on to the appetite pass.
LEMMA GoesOnFacts ==
  ASSUME ControlTypeOK, NEW c \in Controllers, GoesOn(c)
  PROVE  /\ step' \in [Writers -> {"idle", "check", "safety", "adaptive", "appetite", "read", "write"}]
         /\ seen' \in [Writers -> Rows] /\ target' \in [Writers -> Modes]
         /\ now' \in [Controllers -> Windows]
         /\ step'[c] = "adaptive" /\ seen'[c] = InitialRow /\ now'[c] = window
         /\ \A q \in Writers \ {c} : step'[q] = step[q] /\ seen'[q] = seen[q] /\ target'[q] = target[q]
         /\ \A d \in Controllers \ {c} : now'[d] = now[d]
  <1>1. "BALANCED" \in Modes /\ c \in Writers
    BY WriterFacts DEF Modes, AdaptiveModes
  <1>2. now' \in [Controllers -> Windows] /\ now'[c] = window /\ \A d \in Controllers \ {c} : now'[d] = now[d]
    BY SMT DEF GoesOn, ControlTypeOK
  <1>3. At(c, "adaptive", InitialRow, "BALANCED")
    BY Zenon DEF GoesOn
  <1> QED BY <1>1, <1>2, <1>3, InitialRowType, AtFacts, Zenon

-------------------------------------------------------------------------------
(* Type correctness. *)

\* The initial state has the types.
LEMMA TypeInit == ControlInit => ControlTypeOK
  <1>1. "BALANCED" \in Modes /\ "low" \in Bands
    BY DEF Modes, AdaptiveModes, Bands
  <1>2. ControlInit => row \in Rows /\ seen \in [Writers -> Rows] /\ target \in [Writers -> Modes]
    BY <1>1, InitialRowType, SMT DEF ControlInit
  <1>3. ControlInit => /\ last \in [Controllers -> Windows \union {NoWindow}] /\ now \in [Controllers -> Windows]
                /\ version \in [Controllers -> Nat] /\ window \in Windows
                /\ moves \in [Windows -> Nat] /\ late \in [Executors -> Nat]
    BY WindowFacts, SMT DEF ControlInit
  <1>4. ControlInit => drifts \in 0..MaxDrifts /\ commands \in 0..MaxCommands /\ controlFaults \in 0..MaxControlFaults
    BY ControlAssumption, SMT DEF ControlInit, ControlAssumption
  <1>5. ControlInit => /\ drawdown \in Bands /\ gate \subseteq Executors
                /\ step \in [Writers -> {"idle", "check", "safety", "adaptive", "appetite", "read", "write"}]
    BY <1>1, Zenon DEF ControlInit
  <1> QED BY <1>2, <1>3, <1>4, <1>5, Zenon DEF ControlTypeOK

\* Every step of a controller keeps the types.
LEMMA TypeController ==
  ASSUME ControlTypeOK, NEW c \in Controllers, Tick(c) \/ TickFails(c) \/ WriteUnanswered(c) \/ Restart(c)
  PROVE  ControlTypeOK'
  <1>1. /\ c \in Writers /\ row.version \in Nat /\ row.mode \in Modes /\ seen[c] \in Rows
        /\ seen[c].mode \in Modes /\ target[c] \in Modes /\ drawdown \in Bands /\ row \in Rows
        /\ now[c] \in Windows
    BY WriterFacts, RowFacts DEF ControlTypeOK
  <1>2. CASE Check(c)
    BY <1>1, <1>2, AtFacts, SMT DEF Check, ControlTypeOK, world, memory, counters
  <1>3. CASE Decide(c)
    <2>1. EvaluateMode(seen[c].mode, drawdown) \in Modes
      BY <1>1, ModeFacts
    <2>2. CASE At(c, "safety", seen[c], EvaluateMode(seen[c].mode, drawdown)) /\ UNCHANGED now
      BY <1>1, <1>3, <2>1, <2>2, AtFacts, SMT DEF Decide, ControlTypeOK, world, counters
    <2>3. CASE GoesOn(c)
      BY <1>1, <1>3, <2>3, GoesOnFacts, SMT DEF Decide, ControlTypeOK, world, counters
    <2> QED BY <1>3, <2>2, <2>3, Zenon DEF Decide
  <1>4. CASE WriteSafety(c)
    <2>1. CASE UpsertSystemState(version[c], target[c], "drawdown") /\ GoesOn(c)
               /\ version' = [version EXCEPT ![c] = row.version + 1]
      <3>1. row' \in Rows /\ late' \in [Executors -> Nat]
        BY <1>1, <2>1, WriteFacts, ReasonFacts, Zenon DEF UpsertSystemState
      <3> QED BY <1>1, <1>4, <2>1, <3>1, GoesOnFacts, SMT DEF WriteSafety, ControlTypeOK, world, counters
    <2>2. CASE Stale(version[c]) /\ Ends(c) /\ UNCHANGED <<version, now>>
      BY <1>1, <1>4, <2>2, EndFacts, SMT DEF WriteSafety, Stale, ControlTypeOK, world, counters
    <2> QED BY <1>4, <2>1, <2>2, Zenon DEF WriteSafety
  <1>5. CASE Appetite(c)
    <2>1. CASE Ends(c)
      BY <1>1, <1>5, <2>1, EndFacts, SMT DEF Appetite, ControlTypeOK, world, memory, counters
    <2>2. CASE \E mode \in Downgrade(row.mode) \union Upgrade(row.mode) : At(c, "appetite", row, mode)
      <3>1. PICK mode \in Modes : At(c, "appetite", row, mode)
        BY <1>1, <2>2, ModeFacts, Zenon
      <3> QED BY <1>1, <1>5, <3>1, AtFacts, SMT DEF Appetite, ControlTypeOK, world, memory, counters
    <2> QED BY <1>5, <2>1, <2>2, Zenon DEF Appetite
  <1>6. CASE WriteAppetite(c)
    <2>1. row' \in Rows /\ late' \in [Executors -> Nat]
      <3>1. CASE Write(target[c], "adaptive")
        BY <1>1, <3>1, WriteFacts, ReasonFacts, Zenon
      <3>2. CASE UNCHANGED <<row, late>>
        BY <3>2, SMT DEF ControlTypeOK
      <3> QED BY <1>6, <3>1, <3>2, Zenon DEF WriteAppetite, UpsertSystemState, Stale
    <2>2. /\ moves' \in [Windows -> Nat] /\ version' \in [Controllers -> Nat]
          /\ last' \in [Controllers -> Windows \union {NoWindow}]
      BY <1>1, <1>6, SMT DEF WriteAppetite, ControlTypeOK
    <2> QED BY <1>1, <1>6, <2>1, <2>2, EndFacts, SMT DEF WriteAppetite, ControlTypeOK, world, counters
  <1>7. CASE TickFails(c)
    BY <1>1, <1>7, EndFacts, ControlAssumption, SMT DEF TickFails, ControlTypeOK, world, memory, ControlAssumption
  <1>8. CASE WriteUnanswered(c)
    <2>1. row' \in Rows /\ late' \in [Executors -> Nat]
      <3>1. \E reason \in Reasons : Write(target[c], reason)
        BY <1>8, ReasonFacts, Zenon DEF WriteUnanswered, UpsertSystemState
      <3> QED BY <1>1, <3>1, WriteFacts, Zenon
    <2>2. moves' \in [Windows -> Nat]
      BY <1>1, <1>8, SMT DEF WriteUnanswered, ControlTypeOK
    <2> QED BY <1>1, <1>8, <2>1, <2>2, EndFacts, ControlAssumption, SMT
            DEF WriteUnanswered, ControlTypeOK, world, memory, ControlAssumption
  <1>9. CASE Restart(c)
    BY <1>1, <1>9, EndFacts, WindowFacts, ControlAssumption, SMT DEF Restart, ControlTypeOK, world, ControlAssumption
  <1> QED BY <1>2, <1>3, <1>4, <1>5, <1>6, <1>7, <1>8, <1>9, Zenon DEF Tick

\* A step of anything but a controller.
Others ==
  \/ \E o \in Operators : Command(o) \/ ReadMode(o) \/ WriteMode(o)
  \/ \E w \in Executors : PassGate(w) \/ PassGateUnread(w) \/ Submit(w)
  \/ Drift
  \/ NextWindow
  \/ UNCHANGED controlVars

\* Every other step keeps the types.
LEMMA TypeOthers == ASSUME ControlTypeOK, Others PROVE ControlTypeOK'
  <1>1. row \in Rows /\ row.version \in Nat
    BY RowFacts DEF ControlTypeOK
  <1>2. ASSUME NEW o \in Operators, Command(o) PROVE ControlTypeOK'
    <2>1. PICK mode \in Modes : At(o, "read", InitialRow, mode)
      BY <1>2, ReasonFacts, Zenon DEF Command
    <2> QED BY <1>2, <2>1, WriterFacts, InitialRowType, AtFacts, ControlAssumption, SMT
            DEF Command, ControlTypeOK, world, memory, ControlAssumption
  <1>3. ASSUME NEW o \in Operators, ReadMode(o) PROVE ControlTypeOK'
    <2>1. o \in Writers /\ target[o] \in Modes
      BY WriterFacts DEF ControlTypeOK
    <2> QED BY <1>1, <1>3, <2>1, AtFacts, SMT DEF ReadMode, ControlTypeOK, world, memory, counters
  <1>4. ASSUME NEW o \in Operators, WriteMode(o) PROVE ControlTypeOK'
    <2>1. o \in Writers /\ target[o] \in Modes /\ o \in Reasons
      BY WriterFacts, ReasonFacts DEF ControlTypeOK
    <2>2. row' \in Rows /\ late' \in [Executors -> Nat]
      BY <1>4, <2>1, WriteFacts, SMT DEF WriteMode, UpsertSystemState, Stale, ControlTypeOK
    <2>3. CASE Ends(o)
      BY <1>4, <2>1, <2>2, <2>3, EndFacts, SMT DEF WriteMode, ControlTypeOK, world, memory, counters
    <2>4. CASE At(o, "read", InitialRow, target[o])
      BY <1>4, <2>1, <2>2, <2>4, InitialRowType, AtFacts, SMT DEF WriteMode, ControlTypeOK, world, memory, counters
    <2> QED BY <1>4, <2>3, <2>4, Zenon DEF WriteMode
  <1>5. ASSUME NEW w \in Executors, PassGate(w) PROVE ControlTypeOK'
    BY <1>5, SMT DEF PassGate, ControlTypeOK, world, tick, memory, counters
  <1>6. ASSUME NEW w \in Executors, PassGateUnread(w) PROVE ControlTypeOK'
    BY <1>6, ControlAssumption, SMT DEF PassGateUnread, ControlTypeOK, world, tick, memory, ControlAssumption
  <1>7. ASSUME NEW w \in Executors, Submit(w) PROVE ControlTypeOK'
    BY <1>7, SMT DEF Submit, ControlTypeOK, world, tick, memory, counters
  <1>8. CASE Drift
    BY <1>8, ControlAssumption, SMT DEF Drift, ControlTypeOK, tick, memory, ControlAssumption
  <1>9. CASE NextWindow
    <2>1. window' \in Windows
      BY <1>9, ControlAssumption, SMT DEF NextWindow, ControlTypeOK, Windows, ControlAssumption
    <2> QED BY <1>9, <2>1, SMT DEF NextWindow, ControlTypeOK, tick, memory, counters
  <1>10. CASE UNCHANGED controlVars
    BY <1>10, SMT DEF controlVars, world, tick, memory, counters, ControlTypeOK
  <1> QED BY <1>2, <1>3, <1>4, <1>5, <1>6, <1>7, <1>8, <1>9, <1>10, Zenon DEF Others

\* A step is a controller's or not.
LEMMA Split ==
  ASSUME [ControlNext]_controlVars
  PROVE  (\E c \in Controllers : Tick(c) \/ TickFails(c) \/ WriteUnanswered(c) \/ Restart(c)) \/ Others
  BY Zenon DEF ControlNext, Others

-------------------------------------------------------------------------------
(* Versions. *)

\* A reader that holds the row itself, or the row of the migration, reads well.
LEMMA FreshReads ==
  ASSUME ControlTypeOK, NEW p \in Writers, seen[p] = row \/ seen[p] = InitialRow,
         row.version = 0 => row = InitialRow
  PROVE  Reads(p)
  BY RowFacts, InitialRowType, SMT DEF Reads, ControlTypeOK

\* A write leaves what the others hold older than the row.
LEMMA Outdated ==
  ASSUME ControlTypeOK, Versions, NEW mode \in Modes, NEW reason \in Reasons, Write(mode, reason)
  PROVE  /\ row'.version # 0
         /\ \A p \in Writers : seen'[p] \in {seen[p], InitialRow} => Reads(p)'
         /\ \A c \in Controllers : version[c] < row'.version
  <1>1. row \in Rows /\ row.version \in Nat /\ row'.version = row.version + 1
    BY WriteFacts, RowFacts DEF ControlTypeOK
  <1>2. ASSUME NEW p \in Writers, seen'[p] \in {seen[p], InitialRow} PROVE Reads(p)'
    <2>1. seen[p] \in Rows /\ seen[p].version \in Nat /\ seen[p].version <= row.version
      BY RowFacts DEF ControlTypeOK, Versions, Reads
    <2>2. seen'[p].version \in Nat /\ seen'[p].version < row'.version
      BY <1>1, <1>2, <2>1, InitialRowType, SMT
    <2> QED BY <1>1, <2>2, SMT DEF Reads
  <1>3. ASSUME NEW c \in Controllers PROVE version[c] < row'.version
    BY <1>1, SMT DEF Versions, Held, ControlTypeOK
  <1> QED BY <1>1, <1>2, <1>3, SMT

\* The initial state.
LEMMA VersionsInit == ControlInit => Versions
  BY WriterFacts, InitialRowType, SMT DEF ControlInit, Versions, Reads, Held, Aims

\* A step that leaves the row alone and moves one writer on.
LEMMA VersionsMove ==
  ASSUME ControlTypeOK, Versions, UNCHANGED row, NEW p \in Writers,
         \A q \in Writers \ {p} : step'[q] = step[q] /\ seen'[q] = seen[q],
         seen'[p] \in {seen[p], row, InitialRow},
         p \in Controllers => Held(p)' /\ Aims(p)',
         \A c \in Controllers \ {p} : version'[c] = version[c]
  PROVE  Versions'
  <1>1. row.version = 0 => row = InitialRow
    BY DEF Versions
  <1>2. ASSUME NEW q \in Writers PROVE Reads(q)'
    <2>1. Reads(q) /\ row.version \in Nat
      BY RowFacts DEF Versions, ControlTypeOK
    <2>2. seen'[q] \in {seen[q], row, InitialRow} /\ row' = row
      BY SMT
    <2> QED BY <1>1, <2>1, <2>2, InitialRowType, SMT DEF Reads
  <1>3. ASSUME NEW c \in Controllers PROVE Held(c)' /\ Aims(c)'
    BY <1>3, WriterFacts, SMT DEF Versions, Held, Aims
  <1> QED BY <1>1, <1>2, <1>3, Zenon DEF Versions

\* A step that writes the row and moves one writer on.
LEMMA VersionsWrite ==
  ASSUME ControlTypeOK, Versions, NEW mode \in Modes, NEW reason \in Reasons, Write(mode, reason),
         NEW p \in Writers, \A q \in Writers \ {p} : step'[q] = step[q] /\ seen'[q] = seen[q],
         seen'[p] \in {seen[p], InitialRow}, step'[p] \in {"idle", "adaptive"},
         p \in Controllers => version'[p] \in {version[p], row.version + 1},
         \A c \in Controllers \ {p} : version'[c] = version[c]
  PROVE  Versions'
  <1>1. row'.version # 0 /\ row'.version = row.version + 1
    BY Outdated, WriteFacts
  <1>2. \A q \in Writers : Reads(q)'
    BY Outdated, SMT
  <1>3. ASSUME NEW c \in Controllers PROVE Held(c)' /\ Aims(c)'
    <2>1. version[c] < row'.version /\ version[c] \in Nat /\ row.version \in Nat
      BY Outdated, RowFacts DEF ControlTypeOK
    <2>2. CASE c = p
      BY <1>1, <2>1, <2>2, SMT DEF Held, Aims
    <2>3. CASE c # p
      BY <1>1, <2>1, <2>3, WriterFacts, SMT DEF Held, Aims, Versions
    <2> QED BY <2>2, <2>3
  <1> QED BY <1>1, <1>2, <1>3, Zenon DEF Versions

\* Every step of a controller keeps what the versions say.
LEMMA VersionsController ==
  ASSUME ControlTypeOK, Versions, NEW c \in Controllers, Tick(c) \/ TickFails(c) \/ WriteUnanswered(c) \/ Restart(c)
  PROVE  Versions'
  <1>1. /\ c \in Writers /\ row \in Rows /\ row.version \in Nat /\ row.mode \in Modes
        /\ seen[c] \in Rows /\ seen[c].mode \in Modes /\ target[c] \in Modes /\ drawdown \in Bands
        /\ version \in [Controllers -> Nat] /\ Held(c) /\ "drawdown" \in Reasons /\ "adaptive" \in Reasons
    BY WriterFacts, RowFacts, ReasonFacts DEF ControlTypeOK, Versions
  <1>2. CASE Check(c)
    <2>1. At(c, "check", row, target[c]) /\ UNCHANGED row /\ UNCHANGED version
      BY <1>2 DEF Check, memory
    <2>2. step'[c] = "check" /\ seen'[c] = row /\ \A q \in Writers \ {c} : step'[q] = step[q] /\ seen'[q] = seen[q]
      BY <1>1, <2>1, AtFacts, SMT
    <2>3. Held(c)' /\ Aims(c)'
      BY <1>1, <2>1, <2>2, SMT DEF Held, Aims
    <2> QED BY <1>1, <2>1, <2>2, <2>3, VersionsMove, SMT
  <1>3. CASE Decide(c)
    <2>1. UNCHANGED row /\ UNCHANGED version /\ step[c] = "check"
      BY <1>3 DEF Decide
    <2>2. CASE At(c, "safety", seen[c], EvaluateMode(seen[c].mode, drawdown))
      <3>1. EvaluateMode(seen[c].mode, drawdown) \in Modes
        BY <1>1, ModeFacts
      <3>2. step'[c] = "safety" /\ seen'[c] = seen[c] /\ \A q \in Writers \ {c} : step'[q] = step[q] /\ seen'[q] = seen[q]
        BY <1>1, <2>2, <3>1, AtFacts, SMT
      <3>3. Held(c)' /\ Aims(c)'
        BY <1>1, <2>1, <3>2, SMT DEF Held, Aims
      <3> QED BY <1>1, <2>1, <3>2, <3>3, VersionsMove, SMT
    <2>3. CASE GoesOn(c)
      <3>1. step'[c] = "adaptive" /\ seen'[c] = InitialRow /\ \A q \in Writers \ {c} : step'[q] = step[q] /\ seen'[q] = seen[q]
        BY <2>3, GoesOnFacts
      <3>2. Held(c)' /\ Aims(c)'
        BY <1>1, <2>1, <3>1, SMT DEF Held, Aims
      <3> QED BY <1>1, <2>1, <3>1, <3>2, VersionsMove, SMT
    <2> QED BY <1>3, <2>2, <2>3, Zenon DEF Decide
  <1>4. CASE WriteSafety(c)
    <2>1. CASE Write(target[c], "drawdown") /\ GoesOn(c) /\ version' = [version EXCEPT ![c] = row.version + 1]
      <3>1. step'[c] = "adaptive" /\ seen'[c] = InitialRow /\ \A q \in Writers \ {c} : step'[q] = step[q] /\ seen'[q] = seen[q]
        BY <2>1, GoesOnFacts
      <3>2. version'[c] = row.version + 1 /\ \A d \in Controllers \ {c} : version'[d] = version[d]
        BY <1>1, <2>1, SMT
      <3> QED BY <1>1, <2>1, <3>1, <3>2, VersionsWrite, SMT
    <2>2. CASE UNCHANGED <<row, late>> /\ Ends(c) /\ UNCHANGED <<version, now>>
      <3>1. step'[c] = "idle" /\ seen'[c] = InitialRow /\ \A q \in Writers \ {c} : step'[q] = step[q] /\ seen'[q] = seen[q]
        BY <1>1, <2>2, EndFacts
      <3>2. Held(c)' /\ Aims(c)'
        BY <1>1, <2>2, <3>1, SMT DEF Held, Aims
      <3> QED BY <1>1, <2>2, <3>1, <3>2, VersionsMove, SMT
    <2> QED BY <1>4, <2>1, <2>2, Zenon DEF WriteSafety, UpsertSystemState, Stale
  <1>5. CASE Appetite(c)
    <2>1. UNCHANGED row /\ UNCHANGED version /\ step[c] = "adaptive"
      BY <1>5 DEF Appetite, memory
    <2>2. CASE Ends(c)
      <3>1. step'[c] = "idle" /\ seen'[c] = InitialRow /\ \A q \in Writers \ {c} : step'[q] = step[q] /\ seen'[q] = seen[q]
        BY <1>1, <2>2, EndFacts
      <3>2. Held(c)' /\ Aims(c)'
        BY <1>1, <2>1, <3>1, SMT DEF Held, Aims
      <3> QED BY <1>1, <2>1, <3>1, <3>2, VersionsMove, SMT
    <2>3. CASE ~LeavesAlone(c) /\ \E mode \in Downgrade(row.mode) \union Upgrade(row.mode) : At(c, "appetite", row, mode)
      <3>1. PICK mode \in Modes : At(c, "appetite", row, mode)
        BY <1>1, <2>3, ModeFacts, Zenon
      <3>2. step'[c] = "appetite" /\ seen'[c] = row /\ \A q \in Writers \ {c} : step'[q] = step[q] /\ seen'[q] = seen[q]
        BY <1>1, <3>1, AtFacts, SMT
      <3>3. Held(c)' /\ Aims(c)'
        BY <1>1, <2>1, <2>3, <3>2, SMT DEF Held, Aims, LeavesAlone
      <3> QED BY <1>1, <2>1, <3>2, <3>3, VersionsMove, SMT
    <2> QED BY <1>5, <2>2, <2>3, Zenon DEF Appetite
  <1>6. CASE WriteAppetite(c)
    <2>1. step'[c] = "idle" /\ seen'[c] = InitialRow /\ \A q \in Writers \ {c} : step'[q] = step[q] /\ seen'[q] = seen[q]
      BY <1>1, <1>6, EndFacts DEF WriteAppetite
    <2>2. CASE Write(target[c], "adaptive") /\ version' = [version EXCEPT ![c] = row.version + 1]
      <3>1. version'[c] = row.version + 1 /\ \A d \in Controllers \ {c} : version'[d] = version[d]
        BY <1>1, <2>2, SMT
      <3> QED BY <1>1, <2>1, <2>2, <3>1, VersionsWrite, SMT
    <2>3. CASE UNCHANGED <<row, late>> /\ UNCHANGED <<version, last, moves>>
      <3>1. Held(c)' /\ Aims(c)'
        BY <1>1, <2>1, <2>3, SMT DEF Held, Aims
      <3> QED BY <1>1, <2>1, <2>3, <3>1, VersionsMove, SMT
    <2> QED BY <1>6, <2>2, <2>3, Zenon DEF WriteAppetite, UpsertSystemState, Stale
  <1>7. ASSUME Ends(c), UNCHANGED row, version' \in {version, [version EXCEPT ![c] = 0]} PROVE Versions'
    <2>1. step'[c] = "idle" /\ seen'[c] = InitialRow /\ \A q \in Writers \ {c} : step'[q] = step[q] /\ seen'[q] = seen[q]
      BY <1>1, <1>7, EndFacts
    <2>2. version'[c] \in {version[c], 0} /\ \A d \in Controllers \ {c} : version'[d] = version[d]
      BY <1>1, <1>7, SMT
    <2>3. Held(c)' /\ Aims(c)'
      BY <1>1, <1>7, <2>1, <2>2, SMT DEF Held, Aims
    <2> QED BY <1>1, <1>7, <2>1, <2>2, <2>3, VersionsMove, SMT
  <1>8. CASE TickFails(c)
    BY <1>7, <1>8, Zenon DEF TickFails, memory
  <1>9. CASE WriteUnanswered(c)
    <2>1. step'[c] = "idle" /\ seen'[c] = InitialRow /\ \A q \in Writers \ {c} : step'[q] = step[q] /\ seen'[q] = seen[q]
      BY <1>1, <1>9, EndFacts DEF WriteUnanswered
    <2>2. PICK reason \in Reasons : Write(target[c], reason)
      BY <1>1, <1>9, Zenon DEF WriteUnanswered, UpsertSystemState
    <2>3. UNCHANGED version
      BY <1>9 DEF WriteUnanswered, memory
    <2> QED BY <1>1, <2>1, <2>2, <2>3, VersionsWrite, SMT
  <1>10. CASE Restart(c)
    BY <1>7, <1>10, Zenon DEF Restart
  <1> QED BY <1>2, <1>3, <1>4, <1>5, <1>6, <1>8, <1>9, <1>10, Zenon DEF Tick

\* Every other step keeps what the versions say.
LEMMA VersionsOthers == ASSUME ControlTypeOK, Versions, Others PROVE Versions'
  <1>1. row \in Rows /\ row.version \in Nat
    BY RowFacts DEF ControlTypeOK
  <1>2. ASSUME NEW o \in Operators, NEW s \in {"idle", "read", "write"}, NEW m \in Modes, UNCHANGED <<row, version>>,
               At(o, s, row, m) \/ At(o, s, InitialRow, m)
        PROVE  Versions'
    <2>1. o \in Writers /\ o \notin Controllers
      BY WriterFacts
    <2>2. seen'[o] \in {row, InitialRow} /\ \A q \in Writers \ {o} : step'[q] = step[q] /\ seen'[q] = seen[q]
      BY <1>1, <1>2, <2>1, InitialRowType, AtFacts, SMT
    <2> QED BY <1>2, <2>1, <2>2, VersionsMove, SMT
  <1>3. ASSUME NEW o \in Operators, Command(o) PROVE Versions'
    <2>1. PICK m \in Modes : At(o, "read", InitialRow, m)
      BY <1>3, ReasonFacts, Zenon DEF Command
    <2> QED BY <1>2, <1>3, <2>1, Zenon DEF Command, memory
  <1>4. ASSUME NEW o \in Operators, ReadMode(o) PROVE Versions'
    <2>1. target[o] \in Modes
      BY WriterFacts DEF ControlTypeOK
    <2> QED BY <1>2, <1>4, <2>1, Zenon DEF ReadMode, memory
  <1>5. ASSUME NEW o \in Operators, WriteMode(o) PROVE Versions'
    <2>1. target[o] \in Modes /\ o \in Reasons /\ o \in Writers /\ o \notin Controllers /\ UNCHANGED version /\ "BALANCED" \in Modes
      BY <1>5, WriterFacts, ReasonFacts DEF ControlTypeOK, WriteMode, memory, Modes, AdaptiveModes
    <2>2. CASE Write(target[o], o) /\ Ends(o)
      <3>1. step'[o] = "idle" /\ seen'[o] = InitialRow /\ \A q \in Writers \ {o} : step'[q] = step[q] /\ seen'[q] = seen[q]
        BY <2>1, <2>2, EndFacts
      <3> QED BY <2>1, <2>2, <3>1, VersionsWrite, SMT
    <2>3. CASE UNCHANGED <<row, late>> /\ (At(o, "read", InitialRow, target[o]) \/ Ends(o))
      BY <1>2, <2>1, <2>3, Zenon DEF Ends
    <2> QED BY <1>5, <2>2, <2>3, Zenon DEF WriteMode, UpsertSystemState, Stale
  <1>6. ASSUME UNCHANGED <<row, tick, memory>> PROVE Versions'
    BY <1>6, SMT DEF Versions, Reads, Held, Aims, tick, memory
  <1> QED BY <1>3, <1>4, <1>5, <1>6, Zenon
          DEF Others, PassGate, PassGateUnread, Submit, Drift, NextWindow, controlVars

-------------------------------------------------------------------------------
(* One adaptive move per window. *)

\* The windows in memory are numbers.
LEMMA NumberFacts ==
  ASSUME ControlTypeOK, NEW c \in Controllers
  PROVE  /\ window \in Windows /\ window \in Nat /\ now[c] \in Windows /\ now[c] \in Nat
         /\ last[c] \in Windows \union {NoWindow} /\ last[c] \in Nat /\ version[c] \in Nat
         /\ moves \in [Windows -> Nat]
  <1>1. window \in Windows /\ now[c] \in Windows /\ last[c] \in Windows \union {NoWindow}
    BY DEF ControlTypeOK
  <1>2. version[c] \in Nat /\ moves \in [Windows -> Nat]
    BY DEF ControlTypeOK
  <1> QED BY <1>1, <1>2, WindowFacts

\* The initial state.
LEMMA TurnsInit == ControlInit => Turns
  <1> SUFFICES ASSUME ControlInit PROVE Turns
    OBVIOUS
  <1>1. row = InitialRow /\ row.reason \notin Operators
    BY InitialReason DEF ControlInit
  <1>2. \A c \in Controllers : step[c] = "idle" /\ last[c] = NoWindow
    BY WriterFacts, Zenon DEF ControlInit
  <1>3. \A x \in Windows : moves[x] = 0
    BY SMT DEF ControlInit
  <1> QED BY <1>1, <1>2, <1>3, SMT DEF Turns, Clock, Remembers, OneMovePerWindow

\* A step that leaves the row and the moves alone; one controller moves on.
LEMMA TurnsMove ==
  ASSUME ControlTypeOK, Turns, UNCHANGED <<row, moves, window>>, NEW c \in Controllers,
         \A d \in Controllers \ {c} :
            step'[d] = step[d] /\ version'[d] = version[d] /\ last'[d] = last[d] /\ now'[d] = now[d],
         Clock(c)', version'[c] = version[c], last'[c] = last[c]
  PROVE  Turns'
  <1>1. ASSUME NEW d \in Controllers PROVE Clock(d)' /\ Remembers(d)' /\ version'[d] = version[d]
    <2>1. CASE d = c
      BY <2>1, SMT DEF Turns, Remembers
    <2>2. CASE d # c
      BY <2>2, SMT DEF Turns, Clock, Remembers
    <2> QED BY <2>1, <2>2
  <1> QED BY <1>1, SMT DEF Turns, OneMovePerWindow

\* The clock of a controller the step leaves alone.
LEMMA SameClock ==
  ASSUME Turns, UNCHANGED window, NEW c \in Controllers,
         step'[c] = step[c], last'[c] = last[c], now'[c] = now[c]
  PROVE  Clock(c)'
  <1>1. Clock(c)
    BY DEF Turns
  <1> QED BY <1>1, Zenon DEF Clock

\* A step that touches neither the row, the moves nor any controller.
LEMMA TurnsStill ==
  ASSUME ControlTypeOK, Turns, UNCHANGED <<row, moves, memory>>, window' \in Nat, window' >= window,
         \A c \in Controllers : step'[c] = step[c]
  PROVE  Turns'
  <1>2. ASSUME NEW c \in Controllers PROVE Clock(c)' /\ Remembers(c)'
    <2>1. now'[c] = now[c] /\ last'[c] = last[c] /\ version'[c] = version[c]
      BY DEF memory
    <2>2. window \in Nat /\ window' \in Nat /\ now[c] \in Nat /\ last[c] \in Nat
      BY NumberFacts, SMT
    <2>3. Clock(c)'
      <3>1. Clock(c) /\ step'[c] = step[c]
        BY DEF Turns
      <3> QED BY <2>1, <2>2, <3>1, SMT DEF Clock
    <2>4. Remembers(c)'
      <3>1. Remembers(c) /\ UNCHANGED <<row, moves>>
        BY DEF Turns
      <3> QED BY <2>1, <3>1, Zenon DEF Remembers
    <2> QED BY <2>3, <2>4
  <1> QED BY <1>2, SMT DEF Turns, OneMovePerWindow, memory

\* A write that is no adaptive move; the writer is a controller in step, or not.
LEMMA TurnsWrite ==
  ASSUME ControlTypeOK, Versions, Turns, NEW mode \in Modes, NEW reason \in Reasons, Write(mode, reason),
         UNCHANGED <<moves, last>>, \A c \in Controllers : Clock(c)',
         \A c \in Controllers :
            \/ version'[c] = version[c]
            \/ version[c] = row.version /\ reason \notin Operators
  PROVE  Turns'
  <1>1. row'.version # 0 /\ row'.reason = reason
    BY Outdated, WriteFacts
  <1>2. ASSUME NEW c \in Controllers PROVE Remembers(c)' /\ (reason \in Operators => version'[c] # row'.version)
    <2>1. version[c] < row'.version /\ version[c] \in Nat /\ row'.version \in Nat
      BY Outdated, WriteFacts, RowFacts DEF ControlTypeOK
    <2>2. CASE version'[c] = version[c]
      BY <2>1, <2>2, SMT DEF Remembers
    <2>3. CASE version[c] = row.version /\ reason \notin Operators
      BY <2>3, SMT DEF Remembers, Turns
    <2> QED BY <2>2, <2>3
  <1>3. OneMovePerWindow'
    BY DEF Turns, OneMovePerWindow
  <1> QED BY <1>1, <1>2, <1>3, Zenon DEF Turns

\* The adaptive move of a controller in step is the first of its window.
LEMMA FirstMove ==
  ASSUME ControlTypeOK, Turns, NEW c \in Controllers, step[c] = "appetite", version[c] = row.version,
         moves' = [moves EXCEPT ![now[c]] = @ + 1]
  PROVE  /\ OneMovePerWindow'
         /\ \A x \in Windows : moves'[x] > 0 => x <= now[c]
  <1>1. now[c] \in Windows /\ now[c] \in Nat /\ Windows \subseteq Nat /\ moves \in [Windows -> Nat]
    BY NumberFacts, WindowFacts
  <1>2. \A x \in Windows : moves[x] > 0 => x <= now[c] /\ x # now[c]
    <2>1. last[c] # NoWindow => last[c] <= now[c] /\ last[c] # now[c] /\ last[c] \in Nat
      BY NumberFacts, SMT DEF Turns, Clock
    <2>2. \A x \in Windows : moves[x] > 0 => last[c] # NoWindow /\ x <= last[c]
      BY DEF Turns, Remembers
    <2> QED BY <1>1, <2>1, <2>2, SMT
  <1>3. moves[now[c]] = 0
    BY <1>1, <1>2, SMT
  <1>4. \A x \in Windows : moves'[x] = IF x = now[c] THEN 1 ELSE moves[x]
    BY <1>1, <1>3, SMT
  <1>5. ASSUME NEW x \in Windows PROVE moves'[x] <= 1 /\ (moves'[x] > 0 => x <= now[c])
    <2>1. CASE x = now[c]
      BY <1>1, <1>4, <2>1, SMT
    <2>2. CASE x # now[c]
      <3>1. moves'[x] = moves[x] /\ (moves[x] > 0 => x <= now[c])
        BY <1>2, <1>4, <2>2, Zenon
      <3>2. moves[x] <= 1
        BY Zenon DEF Turns, OneMovePerWindow
      <3> QED BY <3>1, <3>2, Zenon
    <2> QED BY <2>1, <2>2, Zenon
  <1> QED BY <1>5, Zenon DEF OneMovePerWindow

\* The adaptive move of controller c, answered or not.
LEMMA TurnsAdaptive ==
  ASSUME ControlTypeOK, Versions, Turns, NEW c \in Controllers, step[c] = "appetite", version[c] = row.version,
         Write(target[c], "adaptive"), moves' = [moves EXCEPT ![now[c]] = @ + 1],
         step'[c] = "idle", \A d \in Controllers \ {c} : step'[d] = step[d],
         UNCHANGED <<window, now>>,
         \/ version' = [version EXCEPT ![c] = row.version + 1] /\ last' = [last EXCEPT ![c] = now[c]]
         \/ UNCHANGED <<version, last>>
  PROVE  Turns'
  <1>1. target[c] \in Modes /\ "adaptive" \in Reasons /\ "adaptive" \notin Operators
    BY WriterFacts, ReasonFacts DEF ControlTypeOK
  <1>2. row'.version # 0 /\ row'.reason = "adaptive" /\ \A d \in Controllers : version[d] < row'.version
    BY <1>1, Outdated, WriteFacts
  <1>3. OneMovePerWindow' /\ \A x \in Windows : moves'[x] > 0 => x <= now[c]
    BY FirstMove
  <1>4. ASSUME NEW d \in Controllers, d # c \/ UNCHANGED <<version, last>> PROVE Clock(d)' /\ Remembers(d)'
    <2>1. version'[d] = version[d] /\ last'[d] = last[d] /\ now'[d] = now[d]
      BY <1>4, SMT DEF ControlTypeOK
    <2>2. version[d] \in Nat /\ row'.version # version[d]
      BY <1>2, SMT DEF ControlTypeOK
    <2>3. Remembers(d)'
      BY <2>1, <2>2, SMT DEF Remembers
    <2>4. Clock(d)'
      BY <2>1, <1>4, SMT DEF Turns, Clock
    <2> QED BY <2>3, <2>4
  <1>5. ASSUME version' = [version EXCEPT ![c] = row.version + 1], last' = [last EXCEPT ![c] = now[c]]
        PROVE  Clock(c)' /\ Remembers(c)'
    <2>1. last'[c] = now[c] /\ now[c] \in Windows /\ now[c] <= window
      BY <1>5, SMT DEF ControlTypeOK, Turns, Clock
    <2> QED BY <1>3, <2>1, WindowFacts, SMT DEF Clock, Remembers
  <1> QED BY <1>1, <1>2, <1>3, <1>4, <1>5, SMT DEF Turns

\* Every step of a controller keeps the turns.
LEMMA TurnsController ==
  ASSUME ControlTypeOK, Versions, Turns, NEW c \in Controllers,
         Tick(c) \/ TickFails(c) \/ WriteUnanswered(c) \/ Restart(c)
  PROVE  Turns'
  <1>1. /\ c \in Writers /\ row \in Rows /\ row.version \in Nat /\ row.mode \in Modes
        /\ seen[c] \in Rows /\ seen[c].mode \in Modes /\ target[c] \in Modes /\ drawdown \in Bands
        /\ version \in [Controllers -> Nat] /\ last \in [Controllers -> Windows \union {NoWindow}]
        /\ "drawdown" \in Reasons /\ "drawdown" \notin Operators /\ Controllers \subseteq Writers
    BY WriterFacts, RowFacts, ReasonFacts DEF ControlTypeOK
  <1>2. window \in Nat /\ now[c] \in Nat /\ last[c] \in Nat /\ NoWindow \in Nat /\ Clock(c)
    BY NumberFacts, WindowFacts DEF Turns
  <1>3. CASE Check(c)
    <2>1. At(c, "check", row, target[c]) /\ UNCHANGED <<row, moves, window, version, last, now>>
      BY <1>3 DEF Check, memory, world
    <2>2. step'[c] = "check" /\ \A q \in Writers \ {c} : step'[q] = step[q]
      BY <1>1, <2>1, AtFacts, SMT
    <2>3. Clock(c)'
      BY <1>2, <2>1, <2>2, SMT DEF Clock
    <2> QED BY <1>1, <2>1, <2>2, <2>3, TurnsMove, SMT
  <1>4. ASSUME GoesOn(c), UNCHANGED <<last, window>> PROVE Clock(c)'
    <2>1. step'[c] = "adaptive" /\ now'[c] = window
      BY <1>4, GoesOnFacts
    <2> QED BY <1>2, <1>4, <2>1, SMT DEF Clock
  <1>5. CASE Decide(c)
    <2>1. UNCHANGED <<row, moves, window, version, last>>
      BY <1>5 DEF Decide, world
    <2>2. CASE At(c, "safety", seen[c], EvaluateMode(seen[c].mode, drawdown)) /\ UNCHANGED now
      <3>1. EvaluateMode(seen[c].mode, drawdown) \in Modes
        BY <1>1, ModeFacts
      <3>2. step'[c] = "safety" /\ \A q \in Writers \ {c} : step'[q] = step[q]
        BY <1>1, <2>2, <3>1, AtFacts, SMT
      <3>3. Clock(c)'
        BY <1>2, <2>1, <3>2, SMT DEF Clock
      <3> QED BY <1>1, <2>1, <2>2, <3>2, <3>3, TurnsMove, SMT
    <2>3. CASE GoesOn(c)
      <3>1. Clock(c)' /\ (\A q \in Writers \ {c} : step'[q] = step[q]) /\ \A d \in Controllers \ {c} : now'[d] = now[d]
        BY <1>4, <2>1, <2>3, GoesOnFacts
      <3> QED BY <1>1, <2>1, <3>1, TurnsMove, SMT
    <2> QED BY <1>5, <2>2, <2>3, Zenon DEF Decide
  <1>6. CASE WriteSafety(c)
    <2>1. UNCHANGED <<moves, window, last>>
      BY <1>6 DEF WriteSafety, world
    <2>2. CASE /\ version[c] = row.version /\ Write(target[c], "drawdown") /\ GoesOn(c)
               /\ version' = [version EXCEPT ![c] = row.version + 1]
      <3>1. Clock(c)' /\ (\A q \in Writers \ {c} : step'[q] = step[q]) /\ \A d \in Controllers \ {c} : now'[d] = now[d]
        BY <1>4, <2>1, <2>2, GoesOnFacts
      <3>2. \A d \in Controllers \ {c} : Clock(d)' /\ version'[d] = version[d]
        <4>1. ASSUME NEW d \in Controllers \ {c} PROVE Clock(d)' /\ version'[d] = version[d]
          <5>1. step'[d] = step[d] /\ last'[d] = last[d] /\ now'[d] = now[d] /\ UNCHANGED window
            BY <1>1, <2>1, <3>1
          <5>2. version'[d] = version[d]
            BY <1>1, <2>2, SMT
          <5> QED BY <5>1, <5>2, SameClock
        <4> QED BY <4>1
      <3> QED BY <1>1, <2>1, <2>2, <3>1, <3>2, TurnsWrite, Zenon
    <2>3. CASE UNCHANGED <<row, late>> /\ Ends(c) /\ UNCHANGED <<version, now>>
      <3>1. step'[c] = "idle" /\ \A q \in Writers \ {c} : step'[q] = step[q]
        BY <1>1, <2>3, EndFacts
      <3>2. Clock(c)'
        BY <1>2, <2>1, <2>3, <3>1, SMT DEF Clock
      <3> QED BY <1>1, <2>1, <2>3, <3>1, <3>2, TurnsMove, SMT
    <2> QED BY <1>6, <2>2, <2>3, Zenon DEF WriteSafety, UpsertSystemState, Stale
  <1>7. CASE Appetite(c)
    <2>1. UNCHANGED <<row, moves, window, version, last, now>> /\ step[c] = "adaptive"
      BY <1>7 DEF Appetite, memory, world
    <2>2. CASE Ends(c)
      <3>1. step'[c] = "idle" /\ \A q \in Writers \ {c} : step'[q] = step[q]
        BY <1>1, <2>2, EndFacts
      <3>2. Clock(c)'
        BY <1>2, <2>1, <3>1, SMT DEF Clock
      <3> QED BY <1>1, <2>1, <3>1, <3>2, TurnsMove, SMT
    <2>3. CASE ~LeavesAlone(c) /\ \E mode \in Downgrade(row.mode) \union Upgrade(row.mode) : At(c, "appetite", row, mode)
      <3>1. PICK mode \in Modes : At(c, "appetite", row, mode)
        BY <1>1, <2>3, ModeFacts, Zenon
      <3>2. step'[c] = "appetite" /\ \A q \in Writers \ {c} : step'[q] = step[q]
        BY <1>1, <3>1, AtFacts, SMT
      <3>3. Clock(c)'
        BY <1>2, <2>1, <2>3, <3>2, SMT DEF Clock, LeavesAlone
      <3> QED BY <1>1, <2>1, <3>2, <3>3, TurnsMove, SMT
    <2> QED BY <1>7, <2>2, <2>3, Zenon DEF Appetite
  <1>8. CASE WriteAppetite(c)
    <2>1. /\ step[c] = "appetite" /\ step'[c] = "idle" /\ UNCHANGED <<window, now>>
          /\ \A q \in Writers \ {c} : step'[q] = step[q]
      BY <1>1, <1>8, EndFacts DEF WriteAppetite, world
    <2>2. CASE /\ version[c] = row.version /\ Write(target[c], "adaptive")
               /\ version' = [version EXCEPT ![c] = row.version + 1]
               /\ last' = [last EXCEPT ![c] = now[c]] /\ moves' = [moves EXCEPT ![now[c]] = @ + 1]
      <3>1. \A d \in Controllers \ {c} : step'[d] = step[d]
        BY <1>1, <2>1
      <3> QED BY <2>1, <2>2, <3>1, TurnsAdaptive, Zenon
    <2>3. CASE UNCHANGED <<row, late>> /\ UNCHANGED <<version, last, moves>>
      <3>1. Clock(c)'
        BY <1>2, <2>1, <2>3, SMT DEF Clock
      <3> QED BY <1>1, <2>1, <2>3, <3>1, TurnsMove, SMT
    <2> QED BY <1>8, <2>2, <2>3, Zenon DEF WriteAppetite, UpsertSystemState, Stale
  <1>9. CASE TickFails(c)
    <2>1. UNCHANGED <<row, moves, window, version, last, now>>
      BY <1>9 DEF TickFails, memory, world
    <2>2. step'[c] = "idle" /\ \A q \in Writers \ {c} : step'[q] = step[q]
      BY <1>1, <1>9, EndFacts DEF TickFails
    <2>3. Clock(c)'
      BY <1>2, <2>1, <2>2, SMT DEF Clock
    <2> QED BY <1>1, <2>1, <2>2, <2>3, TurnsMove, SMT
  <1>10. CASE WriteUnanswered(c)
    <2>1. /\ version[c] = row.version /\ step'[c] = "idle" /\ UNCHANGED <<window, now, version, last>>
          /\ \A q \in Writers \ {c} : step'[q] = step[q]
      BY <1>1, <1>10, EndFacts DEF WriteUnanswered, world, memory, UpsertSystemState
    <2>2. CASE Write(target[c], "drawdown") /\ UNCHANGED moves
      <3>1. \A d \in Controllers : Clock(d)' /\ version'[d] = version[d]
        <4>1. ASSUME NEW d \in Controllers PROVE Clock(d)' /\ version'[d] = version[d]
          <5>1. last'[d] = last[d] /\ now'[d] = now[d] /\ UNCHANGED window /\ version'[d] = version[d]
            BY <2>1
          <5>2. CASE d = c
            BY <1>2, <2>1, <5>2, SMT DEF Clock
          <5>3. CASE d # c
            BY <1>1, <2>1, <5>1, <5>3, SameClock
          <5> QED BY <5>1, <5>2, <5>3
        <4> QED BY <4>1
      <3> QED BY <1>1, <2>1, <2>2, <3>1, TurnsWrite, Zenon
    <2>3. CASE step[c] = "appetite" /\ Write(target[c], "adaptive") /\ moves' = [moves EXCEPT ![now[c]] = @ + 1]
      <3>1. \A d \in Controllers \ {c} : step'[d] = step[d]
        BY <1>1, <2>1
      <3> QED BY <2>1, <2>3, <3>1, TurnsAdaptive, Zenon
    <2> QED BY <1>10, <2>2, <2>3, Zenon DEF WriteUnanswered, UpsertSystemState
  <1>11. CASE Restart(c)
    <2>1. /\ UNCHANGED <<row, moves, window, now>> /\ step'[c] = "idle"
          /\ \A q \in Writers \ {c} : step'[q] = step[q]
      BY <1>1, <1>11, EndFacts DEF Restart, world
    <2>2. /\ version'[c] = 0 /\ last'[c] = NoWindow
          /\ \A d \in Controllers \ {c} : version'[d] = version[d] /\ last'[d] = last[d]
      BY <1>1, <1>11, SMT DEF Restart
    <2>3. row.version = 0 => row.reason \notin Operators /\ \A x \in Windows : moves[x] = 0
      BY InitialReason DEF Versions, Turns
    <2>4. Clock(c)' /\ Remembers(c)'
      BY <2>1, <2>2, <2>3, SMT DEF Clock, Remembers
    <2>5. \A d \in Controllers \ {c} : Clock(d)' /\ Remembers(d)'
      BY <1>1, <2>1, <2>2, SMT DEF Clock, Remembers, Turns
    <2>6. row.reason \in Operators => \A d \in Controllers : version'[d] # row.version
      BY <1>1, <2>2, <2>3, SMT DEF Turns
    <2> QED BY <2>1, <2>3, <2>4, <2>5, <2>6, SMT DEF Turns, OneMovePerWindow
  <1> QED BY <1>3, <1>5, <1>6, <1>7, <1>8, <1>9, <1>10, <1>11, Zenon DEF Tick

\* Every other step keeps the turns.
LEMMA TurnsOthers == ASSUME ControlTypeOK, Versions, Turns, Others PROVE Turns'
  <1>1. window \in Nat
    BY WindowFacts DEF ControlTypeOK
  <1>2. ASSUME NEW o \in Operators, Command(o) \/ ReadMode(o) \/ WriteMode(o)
        PROVE  UNCHANGED <<moves, window, last, now, version>> /\ \A c \in Controllers : step'[c] = step[c]
    <2>1. UNCHANGED <<moves, window, last, now, version>>
      BY <1>2, Zenon DEF Command, ReadMode, WriteMode, memory, world
    <2>2. \E s : step' = [step EXCEPT ![o] = s]
      BY <1>2, Zenon DEF Command, ReadMode, WriteMode, Ends, At
    <2>3. \A c \in Controllers : c # o /\ c \in Writers
      BY WriterFacts
    <2>4. \A c \in Controllers : step'[c] = step[c]
      BY <2>2, <2>3, SMT DEF ControlTypeOK
    <2> QED BY <2>1, <2>4
  <1>3. ASSUME NEW o \in Operators, Command(o) \/ ReadMode(o) PROVE Turns'
    BY <1>1, <1>2, <1>3, TurnsStill, SMT DEF Command, ReadMode, memory
  <1>4. ASSUME NEW o \in Operators, WriteMode(o) PROVE Turns'
    <2>1. target[o] \in Modes /\ o \in Reasons
      BY WriterFacts, ReasonFacts DEF ControlTypeOK
    <2>2. CASE Write(target[o], o)
      <3>1. \A c \in Controllers : Clock(c)' /\ version'[c] = version[c]
        BY <1>2, <1>4, SameClock, Zenon
      <3> QED BY <1>2, <1>4, <2>1, <2>2, <3>1, TurnsWrite, Zenon
    <2>3. CASE UNCHANGED <<row, late>>
      BY <1>1, <1>2, <1>4, <2>3, TurnsStill, SMT DEF memory
    <2> QED BY <1>4, <2>2, <2>3, Zenon DEF WriteMode, UpsertSystemState, Stale
  <1>5. ASSUME UNCHANGED <<row, moves, tick, memory>>, window' \in {window, window + 1} PROVE Turns'
    <2>1. window' \in Nat /\ window' >= window /\ UNCHANGED step
      BY <1>1, <1>5, SMT DEF tick
    <2> QED BY <1>5, <2>1, TurnsStill, SMT
  <1>6. Others => \/ \E o \in Operators : Command(o) \/ ReadMode(o) \/ WriteMode(o)
                  \/ UNCHANGED <<row, moves, tick, memory>> /\ window' \in {window, window + 1}
    BY SMT DEF Others, PassGate, PassGateUnread, Submit, Drift, NextWindow, controlVars, world
  <1> QED BY <1>3, <1>4, <1>5, <1>6, Zenon

-------------------------------------------------------------------------------
(* What slips through a halt. *)

\* The initial state.
LEMMA BudgetInit == ControlInit => \A w \in Executors : Budget(w)
  <1>1. ASSUME ControlInit, NEW w \in Executors PROVE late[w] = 0 /\ w \notin gate /\ controlFaults = 0
    BY <1>1, Zenon DEF ControlInit
  <1> QED BY <1>1, SMT DEF Budget

\* A write starts a new count.
LEMMA BudgetWrite ==
  ASSUME ControlTypeOK, NEW mode \in Modes, NEW reason \in Reasons, Write(mode, reason), controlFaults' \in Nat
  PROVE  \A w \in Executors : Budget(w)'
  <1> DEFINE Small(n) == 0 + 1 <= 1 + n /\ 0 + 0 <= 1 + n
  <1>1. \A n \in Nat : Small(n)
    BY SMT
  <1>2. ASSUME NEW w \in Executors PROVE Budget(w)'
    <2>1. late'[w] = 0
      BY WriteFacts
    <2>2. 0 + 1 <= 1 + controlFaults' /\ 0 + 0 <= 1 + controlFaults'
      BY <1>1, Zenon
    <2>3. late'[w] + (IF w \in gate' THEN 1 ELSE 0) <= 1 + controlFaults'
      BY <2>1, <2>2, Zenon
    <2> QED BY <2>1, <2>3, Zenon DEF Budget
  <1> QED BY <1>2

\* A step that lets nothing through and submits nothing.
LEMMA BudgetStill ==
  ASSUME ControlTypeOK, \A w \in Executors : Budget(w), UNCHANGED <<row, late, gate>>, controlFaults' \in {controlFaults, controlFaults + 1}
  PROVE  \A w \in Executors : Budget(w)'
  <1>1. ASSUME NEW w \in Executors PROVE Budget(w)'
    <2>1. late[w] \in Nat /\ controlFaults \in Nat /\ Budget(w)
      BY ControlAssumption, SMT DEF ControlTypeOK, ControlAssumption
    <2> QED BY <2>1, SMT DEF Budget
  <1> QED BY <1>1

\* Every step keeps the budgets.
LEMMA BudgetNext ==
  ASSUME ControlTypeOK, \A w \in Executors : Budget(w), [ControlNext]_controlVars
  PROVE  \A w \in Executors : Budget(w)'
  <1>1. controlFaults \in Nat /\ gate \subseteq Executors /\ late \in [Executors -> Nat]
    BY ControlAssumption, SMT DEF ControlTypeOK, ControlAssumption
  <1>2. ASSUME NEW w \in Executors, PassGate(w) \/ PassGateUnread(w) \/ Submit(w)
        PROVE  \A v \in Executors : Budget(v)'
    <2>1. UNCHANGED row
      BY <1>2 DEF PassGate, PassGateUnread, Submit
    <2>2. ASSUME NEW v \in Executors, v # w PROVE Budget(v)'
      <3>1. late'[v] = late[v] /\ (v \in gate' <=> v \in gate) /\ controlFaults' \in {controlFaults, controlFaults + 1}
        BY <1>1, <1>2, <2>2, SMT DEF PassGate, PassGateUnread, Submit, counters
      <3> QED BY <1>1, <2>1, <3>1, SMT DEF Budget
    <2>3. CASE PassGate(w)
      <3>1. late'[w] = late[w] /\ w \in gate' /\ controlFaults' = controlFaults /\ row.mode # "HALTED"
        BY <2>3, SMT DEF PassGate, counters
      <3> QED BY <1>1, <2>1, <2>2, <3>1, SMT DEF Budget
    <2>4. CASE PassGateUnread(w)
      <3>1. late'[w] = late[w] /\ w \in gate' /\ w \notin gate /\ controlFaults' = controlFaults + 1
        BY <2>4, SMT DEF PassGateUnread
      <3> QED BY <1>1, <2>1, <2>2, <3>1, SMT DEF Budget
    <2>5. CASE Submit(w)
      <3>1. /\ w \in gate /\ w \notin gate' /\ controlFaults' = controlFaults
            /\ late'[w] = IF row.mode = "HALTED" THEN late[w] + 1 ELSE late[w]
        BY <1>1, <2>5, SMT DEF Submit, counters
      <3> QED BY <1>1, <2>1, <2>2, <3>1, SMT DEF Budget
    <2> QED BY <1>2, <2>3, <2>4, <2>5
  <1>3. ASSUME NEW c \in Controllers, Tick(c) \/ TickFails(c) \/ WriteUnanswered(c) \/ Restart(c)
        PROVE  \A w \in Executors : Budget(w)'
    <2>1. target[c] \in Modes /\ "drawdown" \in Reasons /\ "adaptive" \in Reasons
      BY WriterFacts, ReasonFacts DEF ControlTypeOK
    <2>2. controlFaults' \in {controlFaults, controlFaults + 1} /\ UNCHANGED gate
      BY <1>3, SMT DEF Tick, Check, Decide, WriteSafety, Appetite, WriteAppetite, TickFails,
                       WriteUnanswered, Restart, counters
    <2>3. controlFaults' \in Nat
      BY <1>1, <2>2, SMT
    <2>4. (\E reason \in Reasons : Write(target[c], reason)) \/ UNCHANGED <<row, late>>
      BY <1>3, <2>1, Zenon DEF Tick, Check, Decide, WriteSafety, Appetite, WriteAppetite, TickFails,
                       WriteUnanswered, Restart, UpsertSystemState, Stale
    <2> QED BY <2>1, <2>2, <2>3, <2>4, BudgetWrite, BudgetStill
  <1>4. ASSUME NEW o \in Operators, Command(o) \/ ReadMode(o) \/ WriteMode(o)
        PROVE  \A w \in Executors : Budget(w)'
    <2>1. target[o] \in Modes /\ o \in Reasons
      BY WriterFacts, ReasonFacts DEF ControlTypeOK
    <2>2. UNCHANGED controlFaults /\ UNCHANGED gate
      BY <1>4 DEF Command, ReadMode, WriteMode, counters
    <2>3. Write(target[o], o) \/ UNCHANGED <<row, late>>
      BY <1>4, Zenon DEF Command, ReadMode, WriteMode, UpsertSystemState, Stale
    <2> QED BY <1>1, <2>1, <2>2, <2>3, BudgetWrite, BudgetStill
  <1>5. CASE Drift \/ NextWindow \/ UNCHANGED controlVars
    <2>1. UNCHANGED <<row, late, gate, controlFaults>>
      BY <1>5, Zenon DEF Drift, NextWindow, controlVars, counters
    <2> QED BY <2>1, BudgetStill
  <1> QED BY <1>2, <1>3, <1>4, <1>5, Zenon DEF ControlNext

-------------------------------------------------------------------------------
(* The theorems. *)

\* The inductive invariant holds in every reachable state.
LEMMA IInvInvariant == ControlSpec => []IInv
  <1>1. ControlInit => IInv
    BY TypeInit, VersionsInit, TurnsInit, BudgetInit, Zenon DEF IInv
  <1>2. IInv /\ [ControlNext]_controlVars => IInv'
    <2> SUFFICES ASSUME IInv, [ControlNext]_controlVars PROVE IInv'
      OBVIOUS
    <2>1. ControlTypeOK /\ Versions /\ Turns /\ \A w \in Executors : Budget(w)
      BY DEF IInv
    <2>2. ControlTypeOK'
      BY <2>1, Split, TypeController, TypeOthers, Zenon
    <2>3. Versions'
      BY <2>1, Split, VersionsController, VersionsOthers, Zenon
    <2>4. Turns'
      BY <2>1, Split, TurnsController, TurnsOthers, Zenon
    <2>5. \A w \in Executors : Budget(w)'
      BY <2>1, BudgetNext
    <2> QED BY <2>2, <2>3, <2>4, <2>5, Zenon DEF IInv
  <1> QED BY <1>1, <1>2, PTL DEF ControlSpec

\* Every variable keeps its type.
THEOREM ControlTypeCorrect == ControlSpec => []ControlTypeOK
  <1>1. IInv => ControlTypeOK
    BY DEF IInv
  <1> QED BY <1>1, IInvInvariant, PTL

\* However many controllers run, fail, lose answers and start again, at most
\* one adaptive transition is written for a window.
THEOREM OneMove == ControlSpec => []OneMovePerWindow
  <1>1. IInv => OneMovePerWindow
    BY DEF IInv, Turns
  <1> QED BY <1>1, IInvInvariant, PTL

\* What every executor submits while the mode is HALTED is what it had let
\* through before, and one more for each pre-check that could not read.
THEOREM HaltLeaksAreBounded == ControlSpec => []LateSubmissionsBounded
  <1>1. ASSUME IInv PROVE LateSubmissionsBounded
    <2>1. ASSUME NEW w \in Executors PROVE late[w] <= 1 + controlFaults
      <3>1. late[w] \in Nat /\ controlFaults \in Nat /\ Budget(w)
        BY <1>1, ControlAssumption, SMT DEF IInv, ControlTypeOK, ControlAssumption
      <3> QED BY <3>1, SMT DEF Budget
    <2> QED BY <2>1 DEF LateSubmissionsBounded
  <1> QED BY <1>1, IInvInvariant, PTL

\* Who writes the row, and with which reason.
LEMMA WritersOfRow ==
  ASSUME IInv, [ControlNext]_controlVars, row' # row
  PROVE  \E p \in Writers :
           /\ seen[p] = row /\ step'[p] # step[p] /\ step[p] \in {"safety", "appetite", "write"}
           /\ \/ p \in Controllers /\ step[p] = "safety" /\ row'.reason = "drawdown"
              \/ /\ p \in Controllers /\ step[p] = "appetite" /\ version[p] = row.version
                 /\ row'.reason = "adaptive"
              \/ p \in Operators /\ row'.reason = p
  <1>1. ControlTypeOK /\ Versions
    BY DEF IInv
  <1>2. ASSUME NEW c \in Controllers, step[c] \in {"safety", "appetite"}, version[c] = row.version
        PROVE  seen[c] = row
    <2>1. /\ version[c] <= seen[c].version /\ seen[c].version <= row.version
          /\ seen[c].version = row.version => seen[c] = row
      BY <1>1, <1>2, WriterFacts, SMT DEF Versions, Held, Reads
    <2>2. seen[c].version \in Nat /\ row.version \in Nat /\ version[c] \in Nat
      BY <1>1, WriterFacts, RowFacts DEF ControlTypeOK
    <2> QED BY <1>2, <2>1, <2>2, SMT
  <1>3. CASE \E c \in Controllers : WriteSafety(c) \/ WriteAppetite(c) \/ WriteUnanswered(c)
    <2>1. PICK c \in Controllers : WriteSafety(c) \/ WriteAppetite(c) \/ WriteUnanswered(c)
      BY <1>3
    <2>2. c \in Writers /\ target[c] \in Modes /\ "drawdown" \in Reasons /\ "adaptive" \in Reasons
      BY <1>1, WriterFacts, ReasonFacts DEF ControlTypeOK
    <2>3. /\ version[c] = row.version /\ (GoesOn(c) \/ Ends(c))
          /\ \/ step[c] = "safety" /\ Write(target[c], "drawdown")
             \/ step[c] = "appetite" /\ Write(target[c], "adaptive")
      BY <2>1, Zenon DEF WriteSafety, WriteAppetite, WriteUnanswered, UpsertSystemState, Stale
    <2>4. step'[c] \in {"idle", "adaptive"}
      BY <1>1, <2>2, <2>3, EndFacts, GoesOnFacts
    <2>5. step'[c] # step[c] /\ step[c] \in {"safety", "appetite", "write"} /\ seen[c] = row
      BY <1>2, <2>3, <2>4, SMT
    <2>6. \/ step[c] = "safety" /\ row'.reason = "drawdown"
          \/ step[c] = "appetite" /\ row'.reason = "adaptive"
      BY <1>1, <2>2, <2>3, WriteFacts, Zenon
    <2> QED BY <2>2, <2>3, <2>5, <2>6, Zenon
  <1>4. CASE \E o \in Operators : WriteMode(o)
    <2>1. PICK o \in Operators : WriteMode(o)
      BY <1>4
    <2>2. o \in Writers /\ target[o] \in Modes /\ o \in Reasons
      BY <1>1, WriterFacts, ReasonFacts DEF ControlTypeOK
    <2>3. step[o] = "write" /\ seen[o].version = row.version /\ Write(target[o], o) /\ Ends(o)
      BY <2>1, Zenon DEF WriteMode, UpsertSystemState, Stale
    <2>4. step'[o] = "idle" /\ row'.reason = o /\ seen[o] = row
      BY <1>1, <2>2, <2>3, EndFacts, WriteFacts, Zenon DEF Versions, Reads
    <2>5. step'[o] # step[o]
      BY <2>3, <2>4, SMT
    <2> QED BY <2>1, <2>2, <2>3, <2>4, <2>5, Zenon
  <1> QED BY <1>3, <1>4, Zenon
          DEF ControlNext, Tick, Check, Decide, Appetite, TickFails, Restart, Command, ReadMode,
              PassGate, PassGateUnread, Submit, Drift, NextWindow, controlVars

\* No lost update: whoever writes system_state has decided on the row it
\* replaces, although a controller compares a version it has not read there.
THEOREM NoLostUpdates == ControlSpec => WritersHaveRead
  <1>1. IInv /\ [ControlNext]_controlVars =>
          (row' # row =>
             \E p \in Writers : step[p] \in {"safety", "appetite", "write"} /\ step'[p] # step[p] /\ seen[p] = row)
    BY WritersOfRow, Zenon
  <1>2. IInv /\ [ControlNext]_controlVars =>
          [row' # row =>
             \E p \in Writers : step[p] \in {"safety", "appetite", "write"} /\ step'[p] # step[p] /\ seen[p] = row]_controlVars
    BY <1>1, Zenon
  <1> QED BY <1>2, IInvInvariant, PTL DEF ControlSpec, WritersHaveRead

\* The appetite pass lifts neither DEGRADED nor HALTED, also when the mode
\* changes between its read and its write.
THEOREM SafetyModesKept == ControlSpec => AppetiteKeepsSafetyModes
  <1>1. ASSUME IInv, [ControlNext]_controlVars, row.mode \in {"DEGRADED", "HALTED"}, row' # row
        PROVE  row'.reason # "adaptive"
    <2>1. \A c \in Controllers : step[c] = "appetite" => seen[c].mode \notin {"DEGRADED", "HALTED"}
      BY <1>1 DEF IInv, Versions, Aims
    <2>2. "adaptive" \notin Operators /\ "drawdown" # "adaptive"
      BY ReasonFacts
    <2> QED BY <1>1, <2>1, <2>2, WritersOfRow, Zenon
  <1>2. IInv /\ [ControlNext]_controlVars =>
          [row.mode \in {"DEGRADED", "HALTED"} /\ row' # row => row'.reason # "adaptive"]_controlVars
    BY <1>1, Zenon
  <1> QED BY <1>2, IInvInvariant, PTL DEF ControlSpec, AppetiteKeepsSafetyModes

\* The appetite pass never replaces an operator's choice in its window: a
\* controller that has not written since is out of step with it.
THEOREM OperatorWins == ControlSpec => OperatorOutlivesWindow
  <1>1. ASSUME IInv, [ControlNext]_controlVars, row.reason \in Operators, row' # row
        PROVE  row'.reason # "adaptive"
    <2>1. \A c \in Controllers : version[c] # row.version
      BY <1>1 DEF IInv, Turns
    <2>2. "adaptive" \notin Operators /\ "drawdown" # "adaptive"
      BY ReasonFacts
    <2> QED BY <1>1, <2>1, <2>2, WritersOfRow, Zenon
  <1>2. IInv /\ [ControlNext]_controlVars =>
          [row.reason \in Operators /\ row' # row /\ row'.reason = "adaptive" => row.window # window]_controlVars
    BY <1>1, Zenon
  <1> QED BY <1>2, IInvInvariant, PTL DEF ControlSpec, OperatorOutlivesWindow

-------------------------------------------------------------------------------
(***************************************************************************)
(* Theorems about Console: its types, that a confirmation token is good    *)
(* for one command, and that no Telegram update is passed over or taken    *)
(* twice, for any messages, commands, operators and faults.                *)
(*                                                                         *)
(* The second is about the offset.  What a poll has received and the loop  *)
(* has not dispatched are the last updates before the offset, one after    *)
(* the other; so everything before the first of them has been dispatched,  *)
(* and Telegram only forgets what is before the offset of a poll, which    *)
(* begins when nothing is left.                                            *)
(***************************************************************************)

(* The inductive invariant. *)

Ordered == desk \union emitting

\* Types, with what each counter is bounded by.
ConsoleTyped ==
  /\ ConsoleTypeOK
  /\ Len(challenges) <= MaxChallenges
  /\ Len(inbox) + asked <= MaxRequests
  /\ carried = NoRow \/ carried \in [row : desk, stage : {"execute", "release", "mark"}]
  /\ \A r \in Ordered : r.stamp <= asked

\* A command that needs a confirmation has used up the token issued for it.
TokenSpent(r) ==
  IF IsDestructive(r.command)
  THEN /\ r.token \in DOMAIN challenges
       /\ r.command = challenges[r.token]
       /\ \A p \in pending : p.token # r.token
  ELSE r.token = NoToken

TokensSpent ==
  /\ \A r \in Ordered : TokenSpent(r)
  /\ \A r, s \in Ordered : r.token = s.token /\ r.token # NoToken => r = s

\* The first update that this run has not dispatched, as far as it has received.
Cursor == offset - Len(batch)

UpdatesKept ==
  /\ forgotten <= Len(inbox)
  /\ offset <= Len(inbox) + 1
  /\ batch # <<>> => Cursor >= 1
  /\ \A i \in 1..Len(batch) : batch[i] = Cursor + i - 1
  /\ \A u \in 1..MaxRequests :
       /\ u < Cursor \/ u <= forgotten => u \in reached
       /\ dispatched[u] <= 1
       /\ dispatched[u] = 1 => u < Cursor

ConsoleInv == ConsoleTyped /\ TokensSpent /\ UpdatesKept

\* ConsoleTyped, by what each action can disturb.
BotOK == halted \in BOOLEAN /\ trigger \in BOOLEAN /\ listed \subseteq bought /\ bought \subseteq Holdings
TelegramOK ==
  /\ enabling \in BOOLEAN
  /\ inbox \in Seq(Messages) /\ Len(inbox) <= MaxRequests
  /\ forgotten \in 0..MaxRequests /\ offset \in 0..MaxRequests + 1
  /\ batch \in Seq(1..MaxRequests)
  /\ dispatched \in [1..MaxRequests -> Nat] /\ reached \subseteq DOMAIN inbox
DashboardOK ==
  /\ challenges \in Seq(Wishes) /\ Len(challenges) <= MaxChallenges
  /\ pending \subseteq [token : DOMAIN challenges, expired : BOOLEAN]
  /\ asked \in 0..MaxRequests /\ Len(inbox) + asked <= MaxRequests
  /\ emitting \subseteq Entries /\ \A r \in emitting : r.stamp <= asked
DeskOK ==
  /\ desk \subseteq Entries /\ \A r \in desk : r.stamp <= asked
  /\ held \subseteq 1..asked /\ settled \subseteq 1..asked
  /\ carried = NoRow \/ carried \in [row : desk, stage : {"execute", "release", "mark"}]
FaultsOK == consoleFaults \in 0..MaxConsoleFaults

LEMMA TypedParts == ConsoleTyped <=> BotOK /\ TelegramOK /\ DashboardOK /\ DeskOK /\ FaultsOK
BY DEF ConsoleTyped, ConsoleTypeOK, Ordered, BotOK, TelegramOK, DashboardOK, DeskOK, FaultsOK

LEMMA TypedPartsNext ==
  BotOK' /\ TelegramOK' /\ DashboardOK' /\ DeskOK' /\ FaultsOK' => ConsoleTyped'
BY DEF ConsoleTyped, ConsoleTypeOK, Ordered, BotOK, TelegramOK, DashboardOK, DeskOK, FaultsOK

LEMMA ConsoleTypedInit == ConsoleInit => ConsoleTyped
<1> SUFFICES ASSUME ConsoleInit PROVE ConsoleTyped
  OBVIOUS
<1>1. /\ <<>> \in Seq(Messages) /\ <<>> \in Seq(Wishes) /\ <<>> \in Seq(1..MaxRequests)
      /\ Len(<<>>) = 0
  BY EmptySeq
<1>2. TelegramOK
  <2>1. enabling \in BOOLEAN
    BY DEF ConsoleInit
  <2>2. inbox \in Seq(Messages) /\ Len(inbox) = 0 /\ batch \in Seq(1..MaxRequests)
    BY <1>1 DEF ConsoleInit
  <2>3. forgotten = 0 /\ offset = 0 /\ reached = {} /\ dispatched \in [1..MaxRequests -> Nat]
    BY DEF ConsoleInit
  <2> QED BY <2>1, <2>2, <2>3, ConsoleAssumption DEF TelegramOK
<1>3. DashboardOK
  BY <1>1, ConsoleAssumption DEF ConsoleInit, DashboardOK
<1>4. DeskOK
  BY DEF ConsoleInit, DeskOK
<1>5. BotOK
  BY DEF ConsoleInit, BotOK
<1>6. FaultsOK
  BY ConsoleAssumption DEF ConsoleInit, FaultsOK
<1> QED BY <1>2, <1>3, <1>4, <1>5, <1>6, TypedParts

-------------------------------------------------------------------------------
(* Types. *)

LEMMA FaultTyped == FaultsOK /\ (Fault \/ UNCHANGED consoleFaults) => FaultsOK'
BY ConsoleAssumption DEF FaultsOK, Fault

LEMMA CommandTyped ==
  ASSUME BotOK, NEW c, ExecuteCommand(c)
  PROVE  BotOK'
BY DEF BotOK, ExecuteCommand, SetSystemHalt, ForceCloses, botVars

\* Telegram answers with the updates after those it has forgotten.
LEMMA AnswerTyped ==
  ASSUME TelegramOK, Len(inbox) + asked <= MaxRequests, asked \in Nat,
         forgotten' \in Nat, inbox' = inbox
  PROVE  /\ Answer \in Seq(1..MaxRequests)
         /\ Len(Answer) = IF Len(inbox) >= forgotten' THEN Len(inbox) - forgotten' ELSE 0
         /\ \A i \in 1..Len(Answer) : Answer[i] = forgotten' + i
<1> DEFINE n == Len(inbox) - forgotten'
<1>0. Len(inbox) \in Nat /\ MaxRequests \in Nat
  BY ConsoleAssumption, LenProperties DEF TelegramOK
<1>1. CASE n \in Nat
  <2>1. Answer \in [1..n -> 1..MaxRequests]
    BY <1>0, <1>1 DEF Answer
  <2>2. Answer \in Seq(1..MaxRequests)
    BY <1>1, <2>1, SeqDef
  <2>3. 1..Len(Answer) = 1..n /\ Len(Answer) \in Nat
    BY <2>1, <2>2, LenProperties
  <2>4. Len(Answer) = n
    BY <1>1, <2>3
  <2> QED BY <1>0, <1>1, <2>2, <2>4 DEF Answer
<1>2. CASE n \notin Nat
  <2>1. 1..n = {}
    BY <1>0, <1>2
  <2>2. Answer = <<>>
    BY <2>1 DEF Answer
  <2> QED BY <1>0, <1>2, <2>2, EmptySeq
<1> QED BY <1>1, <1>2

LEMMA ForgetsTyped ==
  ASSUME TelegramOK, Forgets(offset)
  PROVE  forgotten' \in 0..MaxRequests
BY ConsoleAssumption DEF TelegramOK, Forgets

LEMMA DispatchedTyped ==
  ASSUME TelegramOK, UpdatesKept, Dispatched, enabling' \in BOOLEAN
  PROVE  TelegramOK'
<1>1. /\ batch # <<>> /\ batch' = Tail(batch)
      /\ dispatched' = [dispatched EXCEPT ![Head(batch)] = @ + 1]
      /\ reached' = reached \union {Head(batch)}
      /\ UNCHANGED <<inbox, forgotten, offset>>
  BY DEF Dispatched
<1>2. /\ Head(batch) \in 1..MaxRequests /\ Tail(batch) \in Seq(1..MaxRequests)
      /\ Len(batch) \in Nat \ {0} /\ Head(batch) = batch[1]
  <2>1. batch \in Seq(1..MaxRequests)
    BY DEF TelegramOK
  <2>2. Head(batch) \in 1..MaxRequests /\ Tail(batch) \in Seq(1..MaxRequests) /\ Len(batch) \in Nat \ {0}
    BY <1>1, <2>1, HeadTailProperties, EmptySeq
  <2> QED BY <2>1, <2>2
<1>3. Head(batch) = Cursor
  BY <1>2 DEF UpdatesKept, Cursor, TelegramOK
<1>4. Head(batch) \in DOMAIN inbox
  <2>1. DOMAIN inbox = 1..Len(inbox) /\ Len(inbox) \in Nat
    BY LenProperties DEF TelegramOK
  <2> QED BY <1>1, <1>2, <1>3, <2>1 DEF UpdatesKept, Cursor, TelegramOK
<1>5. dispatched' \in [1..MaxRequests -> Nat]
  BY <1>1, <1>2 DEF TelegramOK
<1> QED BY <1>1, <1>2, <1>4, <1>5 DEF TelegramOK

LEMMA SendTyped ==
  ASSUME ConsoleTyped, Send
  PROVE  ConsoleTyped'
<1>0. BotOK /\ TelegramOK /\ DashboardOK /\ DeskOK /\ FaultsOK
  BY TypedParts
<1>1. PICK m \in Messages : inbox' = Append(inbox, m)
  BY DEF Send
<1>2. /\ inbox \in Seq(Messages) /\ inbox' \in Seq(Messages) /\ Len(inbox') = Len(inbox) + 1
      /\ Len(inbox) \in Nat /\ DOMAIN inbox \subseteq DOMAIN inbox'
  BY <1>0, <1>1, LenProperties DEF TelegramOK
<1>3. TelegramOK' /\ DashboardOK'
  BY <1>0, <1>2, ConsoleAssumption DEF Send, Room, TelegramOK, DashboardOK, dashboardVars
<1> QED BY <1>0, <1>3, TypedPartsNext
        DEF Send, BotOK, DeskOK, FaultsOK, botVars, deskVars, dashboardVars

LEMMA PollTyped ==
  ASSUME ConsoleTyped, Poll \/ PollLost
  PROVE  ConsoleTyped'
<1>0. BotOK /\ TelegramOK /\ DashboardOK /\ DeskOK /\ FaultsOK
  BY TypedParts
<1>1. Forgets(offset) /\ UNCHANGED <<botVars, inbox, enabling, dispatched, reached, dashboardVars, deskVars>>
  BY DEF Poll, PollLost
<1>2. forgotten' \in 0..MaxRequests
  BY <1>0, <1>1, ForgetsTyped
<1>3. TelegramOK'
  <2>1. CASE Poll
    <3>1. Answer \in Seq(1..MaxRequests)
      BY <1>0, <1>1, <1>2, AnswerTyped DEF DashboardOK
    <3>2. batch' = Answer /\ offset' \in {offset, Len(inbox) + 1}
      BY <2>1 DEF Poll
    <3>3. Len(inbox) \in Nat
      BY <1>0, LenProperties DEF TelegramOK
    <3>4. offset' \in 0..MaxRequests + 1
      BY <1>0, <3>2, <3>3, ConsoleAssumption DEF TelegramOK
    <3> QED BY <1>0, <1>1, <1>2, <3>1, <3>2, <3>4 DEF TelegramOK
  <2>2. CASE PollLost
    BY <1>0, <1>1, <1>2, <2>2 DEF PollLost, TelegramOK
  <2> QED BY <2>1, <2>2
<1>4. FaultsOK'
  BY <1>0, FaultTyped DEF Poll, PollLost
<1> QED BY <1>0, <1>1, <1>3, <1>4, TypedPartsNext
        DEF BotOK, DashboardOK, DeskOK, botVars, dashboardVars, deskVars

LEMMA DispatchTyped ==
  ASSUME ConsoleTyped, UpdatesKept, Dispatch \/ DispatchFails
  PROVE  ConsoleTyped'
<1>0. BotOK /\ TelegramOK /\ DashboardOK /\ DeskOK /\ FaultsOK
  BY TypedParts
<1>1. Dispatched
  BY DEF Dispatch, DispatchFails
<1>2. BotOK' /\ enabling' \in BOOLEAN
  <2>1. CASE DispatchFails
    BY <1>0, <2>1 DEF DispatchFails, BotOK, TelegramOK, botVars
  <2>2. CASE Dispatch
    <3> DEFINE m == inbox[Head(batch)]
    <3>1. \/ UNCHANGED <<botVars, enabling>>
          \/ ExecuteCommand(m) /\ UNCHANGED enabling
          \/ RequestsRescan(m) /\ UNCHANGED enabling
          \/ BeginsEnabling(m) /\ UNCHANGED botVars
      BY <2>2 DEF Dispatch
    <3> QED BY <1>0, <3>1, CommandTyped
            DEF BotOK, TelegramOK, RequestsRescan, BeginsEnabling, botVars
  <2> QED BY <2>1, <2>2
<1>3. TelegramOK'
  BY <1>0, <1>1, <1>2, DispatchedTyped
<1>4. FaultsOK'
  BY <1>0, FaultTyped DEF Dispatch, DispatchFails
<1> QED BY <1>0, <1>1, <1>2, <1>3, <1>4, TypedPartsNext
        DEF Dispatched, DashboardOK, DeskOK, dashboardVars, deskVars

LEMMA AcceptedTyped ==
  ASSUME ConsoleTyped, NEW c \in Wishes, NEW t \in 0..MaxChallenges, Accepted(c, t),
         challenges' = challenges, pending' \subseteq pending
  PROVE  ConsoleTyped'
<1>0. BotOK /\ TelegramOK /\ DashboardOK /\ DeskOK /\ FaultsOK
  BY TypedParts
<1>1. Len(inbox) \in Nat
  BY <1>0, LenProperties DEF TelegramOK
<1>2. /\ UNCHANGED <<botVars, telegramVars, deskVars, consoleFaults>>
      /\ asked' = asked + 1 /\ Len(inbox) + asked < MaxRequests
      /\ emitting' = emitting \union {[stamp |-> asked + 1, command |-> c, token |-> t]}
  BY DEF Accepted, Room
<1>3. [stamp |-> asked + 1, command |-> c, token |-> t] \in Entries
  BY <1>0, <1>1, <1>2, ConsoleAssumption DEF Entries, DashboardOK
<1>4. \A r \in Entries : r.stamp \in Nat
  BY DEF Entries
<1>5. DashboardOK'
  BY <1>0, <1>1, <1>2, <1>3, <1>4, ConsoleAssumption DEF DashboardOK, telegramVars
<1>6. DeskOK'
  BY <1>0, <1>2, <1>4, ConsoleAssumption DEF DashboardOK, DeskOK, deskVars
<1> QED BY <1>0, <1>2, <1>5, <1>6, TypedPartsNext
        DEF BotOK, TelegramOK, FaultsOK, botVars, telegramVars

\* What the worker does leaves Telegram and the dashboard alone.
LEMMA WorkerTyped ==
  ASSUME ConsoleTyped, CommandWorker \/ TimeOut
  PROVE  ConsoleTyped'
<1>0. BotOK /\ TelegramOK /\ DashboardOK /\ DeskOK /\ FaultsOK
  BY TypedParts
<1>1. UNCHANGED <<telegramVars, dashboardVars, desk>>
  BY DEF CommandWorker, Claim, Execute, Release, Mark, TimeOut, Goes
<1>2. TelegramOK' /\ DashboardOK'
  BY <1>0, <1>1 DEF TelegramOK, DashboardOK, telegramVars, dashboardVars
<1>3. FaultsOK'
  BY <1>0, FaultTyped DEF CommandWorker, Claim, Execute, Release, Mark, TimeOut
<1>4. BotOK'
  BY <1>0, CommandTyped DEF CommandWorker, Claim, Execute, Release, Mark, TimeOut, BotOK, botVars
<1>5. asked' = asked /\ \A r \in desk : r.stamp \in 1..asked
  BY <1>0, <1>1 DEF dashboardVars, DeskOK, DashboardOK, Entries
<1>6. DeskOK'
  <2>1. CASE Claim
    <3>1. PICK r \in desk : carried' = [row |-> r, stage |-> "execute"] /\ held' = held \union {r.stamp}
      BY <2>1 DEF Claim
    <3> QED BY <1>0, <1>1, <1>5, <2>1, <3>1 DEF Claim, DeskOK
  <2>2. CASE Execute
    <3>1. PICK to \in {"mark", "release"} : Goes(to)
      BY <2>2 DEF Execute
    <3>2. carried \in [row : desk, stage : {"execute", "release", "mark"}]
      BY <1>0, <2>2 DEF Execute, DeskOK, NoRow
    <3> QED BY <1>0, <1>1, <1>5, <3>1, <3>2 DEF Goes, DeskOK
  <2>3. CASE Release
    BY <1>0, <1>1, <1>5, <2>3 DEF Release, DeskOK
  <2>4. CASE Mark
    <3>1. carried.row \in desk
      BY <1>0, <2>4 DEF Mark, DeskOK, NoRow
    <3> QED BY <1>0, <1>1, <1>5, <2>4, <3>1 DEF Mark, DeskOK
  <2>5. CASE TimeOut
    BY <1>0, <1>1, <1>5, <2>5 DEF TimeOut, DeskOK
  <2> QED BY <2>1, <2>2, <2>3, <2>4, <2>5 DEF CommandWorker
<1> QED BY <1>2, <1>3, <1>4, <1>6, TypedPartsNext

LEMMA ConsoleTypedNext == ConsoleInv /\ [ConsoleNext]_consoleVars => ConsoleTyped'
<1> SUFFICES ASSUME ConsoleTyped, UpdatesKept, [ConsoleNext]_consoleVars PROVE ConsoleTyped'
  BY DEF ConsoleInv
<1>0. BotOK /\ TelegramOK /\ DashboardOK /\ DeskOK /\ FaultsOK
  BY TypedParts
<1>1. ASSUME UNCHANGED <<telegramVars, dashboardVars, deskVars, consoleFaults>>, BotOK'
      PROVE  ConsoleTyped'
  BY <1>0, <1>1, TypedPartsNext
     DEF TelegramOK, DashboardOK, DeskOK, FaultsOK, telegramVars, dashboardVars, deskVars
<1>2. ASSUME NEW t \in Holdings, Buy(t) \/ Opens(t) PROVE ConsoleTyped'
  <2>1. BotOK' /\ UNCHANGED <<telegramVars, dashboardVars, deskVars, consoleFaults>>
    BY <1>0, <1>2 DEF Buy, Opens, BotOK
  <2> QED BY <1>1, <2>1
<1>3. CASE TriggeredRescan
  <2>1. BotOK' /\ UNCHANGED <<telegramVars, dashboardVars, deskVars, consoleFaults>>
    BY <1>0, <1>3 DEF TriggeredRescan, BotOK
  <2> QED BY <1>1, <2>1
<1>4. CASE Enable
  <2>1. BotOK'
    BY <1>0, <1>4 DEF Enable, SetSystemHalt, BotOK, botVars
  <2>2. TelegramOK'
    BY <1>0, <1>4 DEF Enable, TelegramOK
  <2>3. FaultsOK'
    BY <1>0, <1>4, FaultTyped DEF Enable
  <2> QED BY <1>0, <1>4, <2>1, <2>2, <2>3, TypedPartsNext
          DEF Enable, DashboardOK, DeskOK, dashboardVars, deskVars
<1>5. ASSUME NEW c \in Wishes, Challenge(c) PROVE ConsoleTyped'
  <2>1. /\ UNCHANGED <<botVars, telegramVars, emitting, asked, deskVars, consoleFaults>>
        /\ challenges' = Append(challenges, c) /\ Len(challenges) < MaxChallenges
        /\ pending' \subseteq pending \union {[token |-> Len(challenges) + 1, expired |-> FALSE]}
    BY <1>5 DEF Challenge, Purged
  <2>2. challenges \in Seq(Wishes)
    BY <1>0 DEF DashboardOK
  <2>3. /\ challenges' \in Seq(Wishes) /\ Len(challenges') = Len(challenges) + 1
        /\ Len(challenges) \in Nat
    BY <2>1, <2>2, LenProperties
  <2>4. DOMAIN challenges = 1..Len(challenges) /\ DOMAIN challenges' = 1..Len(challenges')
    BY <2>2, <2>3, LenProperties
  <2>5. pending' \subseteq [token : DOMAIN challenges', expired : BOOLEAN]
    <3> SUFFICES ASSUME NEW p \in pending' PROVE p \in [token : DOMAIN challenges', expired : BOOLEAN]
      OBVIOUS
    <3>1. DOMAIN challenges \subseteq DOMAIN challenges' /\ Len(challenges) + 1 \in DOMAIN challenges'
      BY <2>3, <2>4
    <3>2. CASE p \in pending
      <4>1. p \in [token : DOMAIN challenges, expired : BOOLEAN]
        BY <1>0, <3>2 DEF DashboardOK
      <4> QED BY <3>1, <4>1
    <3>3. CASE p = [token |-> Len(challenges) + 1, expired |-> FALSE]
      BY <3>1, <3>3
    <3> QED BY <2>1, <3>2, <3>3
  <2>6. DashboardOK'
    BY <1>0, <2>1, <2>3, <2>5, ConsoleAssumption DEF DashboardOK, telegramVars
  <2> QED BY <1>0, <2>1, <2>6, TypedPartsNext
          DEF BotOK, TelegramOK, DeskOK, FaultsOK, botVars, telegramVars, deskVars
<1>6. ASSUME NEW c \in Wishes, Order(c) PROVE ConsoleTyped'
  BY <1>6, AcceptedTyped, ConsoleAssumption DEF Order, NoToken
<1>7. \A t : Without(t) \subseteq pending
  BY DEF Without, Purged
<1>8. ASSUME NEW c \in Wishes, NEW t \in DOMAIN challenges, Confirm(t, c) PROVE ConsoleTyped'
  <2>1. t \in 0..MaxChallenges
    BY <1>0, LenProperties, ConsoleAssumption DEF DashboardOK
  <2> QED BY <1>7, <1>8, <2>1, AcceptedTyped DEF Confirm
<1>9. ASSUME UNCHANGED <<botVars, telegramVars, challenges, emitting, asked, deskVars, consoleFaults>>,
             pending' \subseteq [token : DOMAIN challenges, expired : BOOLEAN]
      PROVE  ConsoleTyped'
  BY <1>0, <1>9, TypedPartsNext
     DEF BotOK, TelegramOK, DashboardOK, DeskOK, FaultsOK, botVars, telegramVars, deskVars
<1>10. ASSUME NEW c \in Wishes, NEW t \in DOMAIN challenges, ConfirmMismatch(t, c) PROVE ConsoleTyped'
  BY <1>0, <1>7, <1>9, <1>10 DEF ConfirmMismatch, DashboardOK
<1>11. ASSUME NEW t \in DOMAIN challenges, Expire(t) PROVE ConsoleTyped'
  <2>1. pending' \subseteq pending \union {[token |-> t, expired |-> TRUE]}
    BY <1>7, <1>11 DEF Expire
  <2>2. pending' \subseteq [token : DOMAIN challenges, expired : BOOLEAN]
    <3>1. [token |-> t, expired |-> TRUE] \in [token : DOMAIN challenges, expired : BOOLEAN]
      OBVIOUS
    <3> QED BY <1>0, <2>1, <3>1 DEF DashboardOK
  <2> QED BY <1>9, <1>11, <2>2 DEF Expire
<1>12. ASSUME NEW r \in emitting, EmitOperatorCommand(r) \/ EmitFails(r) PROVE ConsoleTyped'
  <2>1. /\ UNCHANGED <<botVars, telegramVars, challenges, pending, asked>>
        /\ emitting' = emitting \ {r}
        /\ desk' \in {desk, desk \union {r}} /\ UNCHANGED <<held, settled, carried>>
    BY <1>12 DEF EmitOperatorCommand, EmitFails, deskVars
  <2>2. FaultsOK'
    BY <1>0, <1>12, FaultTyped DEF EmitOperatorCommand, EmitFails
  <2>3. DashboardOK'
    BY <1>0, <2>1 DEF DashboardOK, telegramVars
  <2>4. DeskOK'
    BY <1>0, <2>1 DEF DashboardOK, DeskOK
  <2> QED BY <1>0, <2>1, <2>2, <2>3, <2>4, TypedPartsNext
          DEF BotOK, TelegramOK, botVars, telegramVars
<1>13. CASE BotRestarts
  <2>1. TelegramOK'
    <3>1. offset' = 0 /\ enabling' = FALSE /\ batch' = <<>> /\ UNCHANGED <<inbox, forgotten, reached>>
          /\ dispatched' = [u \in 1..MaxRequests |-> 0]
      BY <1>13 DEF BotRestarts
    <3>2. batch' \in Seq(1..MaxRequests)
      BY <3>1, EmptySeq
    <3>3. dispatched' \in [1..MaxRequests -> Nat] /\ enabling' \in BOOLEAN
      BY <3>1
    <3> QED BY <1>0, <3>1, <3>2, <3>3, ConsoleAssumption DEF TelegramOK
  <2>2. FaultsOK'
    BY <1>0, <1>13, FaultTyped DEF BotRestarts
  <2>3. BotOK' /\ DeskOK'
    BY <1>0, <1>13 DEF BotRestarts, BotOK, DeskOK, dashboardVars
  <2> QED BY <1>0, <1>13, <2>1, <2>2, <2>3, TypedPartsNext DEF BotRestarts, DashboardOK, dashboardVars
<1>14. CASE DashboardRestarts
  <2>1. FaultsOK'
    BY <1>0, <1>14, FaultTyped DEF DashboardRestarts
  <2> QED BY <1>0, <1>14, <2>1, TypedPartsNext
          DEF DashboardRestarts, BotOK, TelegramOK, DashboardOK, DeskOK, botVars, telegramVars, deskVars
<1>15. CASE UNCHANGED consoleVars
  <2>1. UNCHANGED <<botVars, telegramVars, dashboardVars, deskVars, consoleFaults>>
    BY <1>15 DEF consoleVars
  <2> QED BY <1>0, <1>1, <2>1 DEF BotOK, botVars
<1> QED
  BY <1>2, <1>3, <1>4, <1>5, <1>6, <1>8, <1>10, <1>11, <1>12, <1>13, <1>14, <1>15,
     SendTyped, PollTyped, DispatchTyped, WorkerTyped DEF ConsoleNext

-------------------------------------------------------------------------------
(* Telegram: the updates. *)

updateVars == <<inbox, forgotten, offset, batch, dispatched, reached>>

LEMMA NoGap ==
  ASSUME NEW u \in Nat, NEW v \in Nat
  PROVE  (u < v + 1 => u <= v) /\ (u <= v => u < v + 1) /\ 1 <= v + 1
<1>1. ASSUME u < v + 1 PROVE u <= v
  BY <1>1
<1>2. ASSUME u <= v PROVE u < v + 1
  BY <1>2
<1>3. 1 <= v + 1
  OBVIOUS
<1> QED BY <1>1, <1>2, <1>3

LEMMA FreshCursor == offset = 0 /\ Len(batch) = 0 => Cursor = 0
BY DEF Cursor

LEMMA FreshCursorNext == offset' = 0 /\ Len(batch') = 0 => Cursor' = 0
BY DEF Cursor

LEMMA PollKeepsUpdates ==
  ASSUME ConsoleTyped, UpdatesKept, Poll \/ PollLost
  PROVE  UpdatesKept'
<1>0. TelegramOK /\ DashboardOK /\ UNCHANGED <<inbox, dispatched, reached, asked>>
  BY TypedParts DEF Poll, PollLost, dashboardVars
<1>1. batch = <<>> /\ Forgets(offset)
  BY DEF Poll, PollLost, BatchDone
<1>2. /\ Len(batch) = 0 /\ Cursor = offset /\ Len(inbox) \in Nat
      /\ forgotten \in Nat /\ offset \in Nat /\ MaxRequests \in Nat
  BY <1>0, <1>1, EmptySeq, LenProperties, ConsoleAssumption DEF TelegramOK, Cursor
<1>3. forgotten' \in Nat /\ forgotten' <= Len(inbox) /\ offset <= forgotten' + 1
  BY <1>1, <1>2 DEF Forgets, UpdatesKept
<1>4. \A u \in 1..MaxRequests :
        /\ u <= forgotten' => u \in reached
        /\ dispatched[u] <= 1
        /\ dispatched[u] = 1 => u <= forgotten'
  BY <1>1, <1>2, <1>3 DEF Forgets, UpdatesKept
<1>5. CASE Poll
  <2>1. Len(inbox) + asked <= MaxRequests /\ asked \in Nat
    BY <1>0 DEF DashboardOK
  <2>2. /\ Answer \in Seq(1..MaxRequests)
        /\ Len(Answer) = Len(inbox) - forgotten'
        /\ \A i \in 1..Len(Answer) : Answer[i] = forgotten' + i
    BY <1>0, <1>3, <2>1, AnswerTyped
  <2>3. batch' = Answer /\ offset' = IF Answer = <<>> THEN offset ELSE Len(inbox) + 1
    BY <1>5 DEF Poll
  <2>4. CASE Answer = <<>>
    <3>1. Len(batch') = 0 /\ Cursor' = offset
      BY <1>2, <2>3, <2>4, EmptySeq DEF Cursor
    <3> QED BY <1>0, <1>2, <1>3, <1>4, <2>3, <2>4, <3>1 DEF UpdatesKept
  <2>5. CASE Answer # <<>>
    <3>1. Cursor' = forgotten' + 1 /\ Len(batch') = Len(inbox) - forgotten'
      BY <1>2, <1>3, <2>2, <2>3, <2>5 DEF Cursor
    <3>2. \A i \in 1..Len(batch') : batch'[i] = Cursor' + i - 1
      BY <1>3, <2>2, <2>3, <3>1
    <3>3. offset' = Len(inbox) + 1 /\ forgotten' <= Len(inbox') /\ Cursor' >= 1
      <4>1. offset' = Len(inbox) + 1
        BY <2>3, <2>5
      <4>2. forgotten' <= Len(inbox') /\ forgotten' + 1 >= 1
        BY <1>0, <1>3, NoGap
      <4> QED BY <3>1, <4>1, <4>2
    <3>4. ASSUME NEW u \in 1..MaxRequests
          PROVE  /\ u < Cursor' \/ u <= forgotten' => u \in reached'
                 /\ dispatched'[u] <= 1
                 /\ dispatched'[u] = 1 => u < Cursor'
      <4>1. /\ u < forgotten' + 1 => u <= forgotten'
            /\ u <= forgotten' => u < forgotten' + 1
        <5>1. u \in Nat /\ forgotten' \in Nat
          BY <1>2, <1>3
        <5> QED BY <5>1, NoGap
      <4>2. /\ u <= forgotten' => u \in reached
            /\ dispatched[u] <= 1
            /\ dispatched[u] = 1 => u <= forgotten'
        BY <1>4
      <4>3. reached' = reached /\ dispatched' = dispatched
        BY <1>0
      <4> QED BY <3>1, <4>1, <4>2, <4>3
    <3> QED BY <1>0, <3>2, <3>3, <3>4 DEF UpdatesKept
  <2> QED BY <2>4, <2>5
<1>6. CASE PollLost
  <2>1. offset' = offset /\ batch' = batch /\ Cursor' = offset
    BY <1>2, <1>6 DEF PollLost, Cursor
  <2> QED BY <1>0, <1>1, <1>2, <1>3, <1>4, <2>1 DEF UpdatesKept
<1> QED BY <1>5, <1>6

LEMMA DispatchKeepsUpdates ==
  ASSUME ConsoleTyped, UpdatesKept, Dispatched
  PROVE  UpdatesKept'
<1>0. TelegramOK
  BY TypedParts
<1>1. /\ batch # <<>> /\ batch' = Tail(batch)
      /\ dispatched' = [dispatched EXCEPT ![Head(batch)] = @ + 1]
      /\ reached' = reached \union {Head(batch)}
      /\ UNCHANGED <<inbox, forgotten, offset>>
  BY DEF Dispatched
<1>2. /\ Head(batch) \in 1..MaxRequests /\ Tail(batch) \in Seq(1..MaxRequests)
      /\ Len(batch) \in Nat \ {0} /\ Len(Tail(batch)) = Len(batch) - 1
      /\ \A i \in 1..Len(Tail(batch)) : Tail(batch)[i] = batch[i + 1]
      /\ Head(batch) = batch[1]
  <2>1. batch \in Seq(1..MaxRequests)
    BY <1>0 DEF TelegramOK
  <2>2. /\ Head(batch) \in 1..MaxRequests /\ Tail(batch) \in Seq(1..MaxRequests)
        /\ Len(batch) \in Nat \ {0} /\ Len(Tail(batch)) = Len(batch) - 1
        /\ \A i \in 1..Len(Tail(batch)) : Tail(batch)[i] = batch[i + 1]
    BY <1>1, <2>1, HeadTailProperties, EmptySeq
  <2> QED BY <2>1, <2>2
<1>3. Head(batch) = Cursor /\ Cursor' = Cursor + 1 /\ Cursor \in Int /\ Cursor >= 1
  BY <1>0, <1>1, <1>2 DEF UpdatesKept, Cursor, TelegramOK
<1>4. \A i \in 1..Len(batch') : batch'[i] = Cursor' + i - 1
  BY <1>1, <1>2, <1>3 DEF UpdatesKept
<1>5. ASSUME NEW u \in 1..MaxRequests
      PROVE  /\ u < Cursor' \/ u <= forgotten' => u \in reached'
             /\ dispatched'[u] <= 1
             /\ dispatched'[u] = 1 => u < Cursor'
  <2>1. dispatched[u] \in Nat /\ u \in Int
    BY <1>0 DEF TelegramOK
  <2>2. CASE u = Cursor
    <3>1. dispatched[u] = 0 /\ dispatched'[u] = dispatched[u] + 1
      BY <1>0, <1>1, <1>3, <2>1, <2>2 DEF UpdatesKept, TelegramOK
    <3> QED BY <1>1, <1>3, <2>2, <3>1
  <2>3. CASE u # Cursor
    <3>1. dispatched'[u] = dispatched[u]
      BY <1>0, <1>1, <1>3, <2>3 DEF TelegramOK
    <3>2. u < Cursor' => u < Cursor
      BY <1>3, <2>1, <2>3
    <3>3. u < Cursor => u < Cursor'
      BY <1>3, <2>1
    <3> QED BY <1>1, <3>1, <3>2, <3>3 DEF UpdatesKept
  <2> QED BY <2>2, <2>3
<1> QED BY <1>1, <1>3, <1>4, <1>5 DEF UpdatesKept

LEMMA UpdatesKeptNext == ConsoleInv /\ [ConsoleNext]_consoleVars => UpdatesKept'
<1> SUFFICES ASSUME ConsoleTyped, UpdatesKept, [ConsoleNext]_consoleVars PROVE UpdatesKept'
  BY DEF ConsoleInv
<1>0. TelegramOK
  BY TypedParts
<1>1. ASSUME UNCHANGED updateVars PROVE UpdatesKept'
  BY <1>1 DEF updateVars, UpdatesKept, Cursor
<1>2. CASE Send
  <2>1. PICK m \in Messages : inbox' = Append(inbox, m)
    BY <1>2 DEF Send
  <2>2. Len(inbox) \in Nat /\ Len(inbox') = Len(inbox) + 1
    BY <1>0, <2>1, LenProperties DEF TelegramOK
  <2>3. UNCHANGED <<forgotten, offset, batch, dispatched, reached>> /\ Cursor' = Cursor
    BY <1>2 DEF Send, Cursor
  <2> QED BY <1>0, <2>2, <2>3 DEF UpdatesKept, TelegramOK
<1>3. CASE Poll \/ PollLost
  BY <1>3, PollKeepsUpdates
<1>4. CASE Dispatch \/ DispatchFails
  BY <1>4, DispatchKeepsUpdates DEF Dispatch, DispatchFails
<1>5. CASE BotRestarts
  <2>1. /\ offset' = 0 /\ batch' = <<>> /\ UNCHANGED <<inbox, forgotten, reached>>
        /\ dispatched' = [u \in 1..MaxRequests |-> 0]
    BY <1>5 DEF BotRestarts
  <2>2. Len(batch') = 0
    BY <2>1, EmptySeq
  <2>3. Cursor' = 0
    BY <2>1, <2>2, FreshCursorNext
  <2>4. Len(inbox) \in Nat
    BY <1>0, LenProperties DEF TelegramOK
  <2> QED BY <2>1, <2>2, <2>3, <2>4 DEF UpdatesKept
<1>6. ASSUME NEW t \in Holdings, Buy(t) \/ Opens(t) PROVE UNCHANGED updateVars
  BY <1>6 DEF Buy, Opens, telegramVars, updateVars
<1>7. CASE TriggeredRescan \/ Enable \/ DashboardRestarts
  <2>1. UNCHANGED updateVars
    BY <1>7 DEF TriggeredRescan, Enable, DashboardRestarts, telegramVars, updateVars
  <2> QED BY <1>1, <2>1
<1>8. ASSUME NEW c \in Wishes, Challenge(c) \/ Order(c) PROVE UNCHANGED updateVars
  BY <1>8 DEF Challenge, Order, Accepted, telegramVars, updateVars
<1>9. ASSUME NEW c \in Wishes, NEW t \in DOMAIN challenges, Confirm(t, c) \/ ConfirmMismatch(t, c)
      PROVE  UNCHANGED updateVars
  BY <1>9 DEF Confirm, ConfirmMismatch, Accepted, telegramVars, updateVars
<1>10. ASSUME NEW t \in DOMAIN challenges, Expire(t) PROVE UNCHANGED updateVars
  BY <1>10 DEF Expire, telegramVars, updateVars
<1>11. ASSUME NEW r \in emitting, EmitOperatorCommand(r) \/ EmitFails(r) PROVE UNCHANGED updateVars
  BY <1>11 DEF EmitOperatorCommand, EmitFails, telegramVars, updateVars
<1>12. CASE CommandWorker \/ TimeOut
  <2>1. UNCHANGED updateVars
    BY <1>12 DEF CommandWorker, Claim, Execute, Release, Mark, TimeOut, telegramVars, updateVars
  <2> QED BY <1>1, <2>1
<1>13. CASE UNCHANGED consoleVars
  BY <1>1, <1>13 DEF consoleVars, telegramVars, updateVars
<1> QED
  BY <1>1, <1>2, <1>3, <1>4, <1>5, <1>6, <1>7, <1>8, <1>9, <1>10, <1>11, <1>12, <1>13 DEF ConsoleNext

-------------------------------------------------------------------------------
(* The dashboard: the confirmation tokens. *)

\* The rows of the desk and those on their way are what tokens are spent on.
LEMMA TokensFramed ==
  ASSUME TokensSpent, UNCHANGED challenges, pending' \subseteq pending, Ordered' \subseteq Ordered
  PROVE  TokensSpent'
BY DEF TokensSpent, TokenSpent

LEMMA ConfirmSpends ==
  ASSUME ConsoleTyped, TokensSpent, NEW c \in Wishes, NEW t \in DOMAIN challenges, Confirm(t, c)
  PROVE  TokensSpent'
<1>0. PICK new : new = [stamp |-> asked + 1, command |-> c, token |-> t]
  OBVIOUS
<1>1. /\ Ordered' = Ordered \union {new} /\ challenges' = challenges
      /\ IsDestructive(c) /\ c = challenges[t]
  BY <1>0 DEF Confirm, Accepted, Ordered, deskVars
<1>2. pending' \subseteq pending /\ (\E p \in pending : p.token = t) /\ \A p \in pending' : p.token # t
  BY DEF Confirm, Alive, Without, Purged
<1>3. t # NoToken
  <2>1. challenges \in Seq(Wishes)
    BY DEF ConsoleTyped, ConsoleTypeOK
  <2> QED BY <2>1, LenProperties DEF NoToken
<1>4. \A r \in Ordered : r.token # t
  <2> SUFFICES ASSUME NEW r \in Ordered, r.token = t PROVE FALSE
    OBVIOUS
  <2>1. TokenSpent(r)
    BY DEF TokensSpent
  <2> QED BY <1>2, <1>3, <2>1 DEF TokenSpent
<1>5. new.token = t /\ new.command = c
  BY <1>0
<1>6. TokenSpent(new)'
  BY <1>1, <1>2, <1>5 DEF TokenSpent
<1>7. \A r \in Ordered : TokenSpent(r)'
  BY <1>1, <1>2 DEF TokensSpent, TokenSpent
<1>8. \A r, s \in Ordered' : r.token = s.token /\ r.token # NoToken => r = s
  BY <1>1, <1>4, <1>5 DEF TokensSpent
<1> QED BY <1>1, <1>6, <1>7, <1>8 DEF TokensSpent

LEMMA OrderSpends ==
  ASSUME ConsoleTyped, TokensSpent, NEW c \in Wishes, Order(c)
  PROVE  TokensSpent'
<1>0. PICK new : new = [stamp |-> asked + 1, command |-> c, token |-> NoToken]
  OBVIOUS
<1>1. Ordered' = Ordered \union {new} /\ UNCHANGED <<challenges, pending>> /\ ~IsDestructive(c)
  BY <1>0 DEF Order, Accepted, Ordered, deskVars
<1>2. new.token = NoToken /\ new.command = c
  BY <1>0
<1>3. TokenSpent(new)'
  BY <1>1, <1>2 DEF TokenSpent
<1>4. \A r \in Ordered : TokenSpent(r)'
  BY <1>1 DEF TokensSpent, TokenSpent
<1>5. \A r, s \in Ordered' : r.token = s.token /\ r.token # NoToken => r = s
  BY <1>1, <1>2 DEF TokensSpent
<1> QED BY <1>1, <1>3, <1>4, <1>5 DEF TokensSpent

LEMMA ChallengeSpends ==
  ASSUME ConsoleTyped, TokensSpent, NEW c \in Wishes, Challenge(c)
  PROVE  TokensSpent'
<1> DEFINE new == [token |-> Len(challenges) + 1, expired |-> FALSE]
<1>1. /\ challenges' = Append(challenges, c)
      /\ pending' \subseteq pending \union {new}
      /\ Ordered' = Ordered
  BY DEF Challenge, Purged, Ordered, deskVars
<1>2. challenges \in Seq(Wishes)
  BY DEF ConsoleTyped, ConsoleTypeOK
<1>3. Len(challenges) \in Nat /\ DOMAIN challenges = 1..Len(challenges)
  BY <1>2, LenProperties
<1>4. challenges' \in Seq(Wishes) /\ Len(challenges') = Len(challenges) + 1
  BY <1>1, <1>2
<1>5. DOMAIN challenges' = 1..Len(challenges) + 1
  BY <1>4, LenProperties
<1>6. \A i \in DOMAIN challenges :
        i \in DOMAIN challenges' /\ challenges'[i] = challenges[i] /\ i # Len(challenges) + 1
  BY <1>1, <1>2, <1>3, <1>5
<1>7. new.token = Len(challenges) + 1
  OBVIOUS
<1>8. ASSUME NEW r \in Ordered PROVE TokenSpent(r)'
  <2>1. TokenSpent(r)
    BY DEF TokensSpent
  <2> QED BY <1>1, <1>6, <1>7, <2>1 DEF TokenSpent
<1> QED BY <1>1, <1>8 DEF TokensSpent

LEMMA ExpireSpends ==
  ASSUME TokensSpent, NEW t \in DOMAIN challenges, Expire(t)
  PROVE  TokensSpent'
<1>1. /\ Ordered' = Ordered /\ challenges' = challenges
      /\ \A p \in pending' : \E q \in pending : q.token = p.token
  BY DEF Expire, Without, Purged, Ordered, deskVars
<1> QED BY <1>1 DEF TokensSpent, TokenSpent

LEMMA TokensSpentNext == ConsoleInv /\ [ConsoleNext]_consoleVars => TokensSpent'
<1> SUFFICES ASSUME ConsoleTyped, TokensSpent, [ConsoleNext]_consoleVars PROVE TokensSpent'
  BY DEF ConsoleInv
<1>1. ASSUME UNCHANGED <<challenges, pending, emitting, desk>> PROVE TokensSpent'
  BY <1>1, TokensFramed DEF Ordered
<1>2. ASSUME NEW t \in Holdings, Buy(t) \/ Opens(t)
      PROVE  UNCHANGED <<challenges, pending, emitting, desk>>
  BY <1>2 DEF Buy, Opens, dashboardVars, deskVars
<1>3. CASE TriggeredRescan \/ Send \/ Poll \/ PollLost \/ Dispatch \/ DispatchFails \/ Enable \/ BotRestarts
  <2>1. UNCHANGED <<challenges, pending, emitting, desk>>
    BY <1>3 DEF TriggeredRescan, Send, Poll, PollLost, Dispatch, DispatchFails, Dispatched, Enable,
       BotRestarts, dashboardVars, deskVars
  <2> QED BY <1>1, <2>1
<1>4. ASSUME NEW c \in Wishes, Challenge(c) \/ Order(c) PROVE TokensSpent'
  BY <1>4, ChallengeSpends, OrderSpends
<1>5. ASSUME NEW c \in Wishes, NEW t \in DOMAIN challenges, Confirm(t, c) PROVE TokensSpent'
  BY <1>5, ConfirmSpends
<1>6. ASSUME NEW c \in Wishes, NEW t \in DOMAIN challenges, ConfirmMismatch(t, c) PROVE TokensSpent'
  BY <1>6, TokensFramed DEF ConfirmMismatch, Without, Purged, Ordered, deskVars
<1>7. ASSUME NEW t \in DOMAIN challenges, Expire(t) PROVE TokensSpent'
  BY <1>7, ExpireSpends
<1>8. ASSUME NEW r \in emitting, EmitOperatorCommand(r) \/ EmitFails(r) PROVE TokensSpent'
  BY <1>8, TokensFramed DEF EmitOperatorCommand, EmitFails, Ordered, deskVars
<1>9. CASE CommandWorker \/ TimeOut
  <2>1. UNCHANGED <<challenges, pending, emitting, desk>>
    BY <1>9 DEF CommandWorker, Claim, Execute, Release, Mark, TimeOut, Goes, dashboardVars
  <2> QED BY <1>1, <2>1
<1>10. CASE DashboardRestarts
  BY <1>10, TokensFramed DEF DashboardRestarts, Ordered, deskVars
<1>11. CASE UNCHANGED consoleVars
  BY <1>1, <1>11 DEF consoleVars, dashboardVars, deskVars
<1> QED
  BY <1>1, <1>2, <1>3, <1>4, <1>5, <1>6, <1>7, <1>8, <1>9, <1>10, <1>11 DEF ConsoleNext

-------------------------------------------------------------------------------
(* The theorems. *)

LEMMA ConsoleInvInit == ConsoleInit => ConsoleInv
<1> SUFFICES ASSUME ConsoleInit PROVE ConsoleInv
  OBVIOUS
<1>1. TokensSpent
  BY DEF ConsoleInit, TokensSpent, Ordered
<1>2. Len(<<>>) = 0
  BY EmptySeq
<1>3. Len(inbox) = 0 /\ Len(batch) = 0
  BY <1>2 DEF ConsoleInit
<1>4. Cursor = 0
  BY <1>3, FreshCursor DEF ConsoleInit
<1>5. UpdatesKept
  BY <1>3, <1>4 DEF ConsoleInit, UpdatesKept
<1> QED BY <1>1, <1>5, ConsoleTypedInit DEF ConsoleInv

LEMMA ConsoleInvInvariant == ConsoleSpec => []ConsoleInv
<1>1. ConsoleInv /\ [ConsoleNext]_consoleVars => ConsoleInv'
  BY ConsoleTypedNext, TokensSpentNext, UpdatesKeptNext DEF ConsoleInv
<1> QED BY <1>1, ConsoleInvInit, PTL DEF ConsoleSpec

\* Every variable of the console keeps its type.
THEOREM ConsoleTypeCorrect == ConsoleSpec => []ConsoleTypeOK
<1>1. ConsoleInv => ConsoleTypeOK
  BY DEF ConsoleInv, ConsoleTyped
<1> QED BY <1>1, ConsoleInvInvariant, PTL

\* A confirmation token is good for one command, the one it was issued for.
THEOREM OneCommandPerToken == ConsoleSpec => []OncePerChallenge
<1>1. ConsoleInv => OncePerChallenge
  <2> SUFFICES ASSUME ConsoleTyped, TokensSpent, NEW r \in Ordered, NEW s \in Ordered, IsDestructive(r.command)
               PROVE  /\ r.token # NoToken /\ r.command = challenges[r.token]
                      /\ r.token = s.token => r = s
    BY DEF ConsoleInv, OncePerChallenge, Ordered
  <2>1. r.token \in DOMAIN challenges /\ r.command = challenges[r.token]
    BY DEF TokensSpent, TokenSpent
  <2>2. challenges \in Seq(Wishes)
    BY DEF ConsoleTyped, ConsoleTypeOK
  <2>3. r.token # NoToken
    BY <2>1, <2>2, LenProperties DEF NoToken
  <2> QED BY <2>1, <2>3 DEF TokensSpent
<1> QED BY <1>1, ConsoleInvInvariant, PTL

\* Telegram forgets no update before the bot has dispatched it, and a run of
\* the bot dispatches none twice.
THEOREM NoUpdateSkipped == ConsoleSpec => []EveryUpdateHandled
<1>1. ConsoleInv => EveryUpdateHandled
  BY DEF ConsoleInv, UpdatesKept, EveryUpdateHandled
<1> QED BY <1>1, ConsoleInvInvariant, PTL

-------------------------------------------------------------------------------
(* All of them, with the stages that decide (DecisionsProofs). *)

LEMMA BackboneParts ==
  BackboneSpec => Spec /\ ControlSpec /\ DecisionsSpec /\ ConsoleSpec
<1>1. BackboneInit => Init /\ ControlInit /\ DecisionsInit /\ ConsoleInit
  BY DEF BackboneInit, DecisionsStart
<1>2. [BackboneNext]_backboneVars
        => /\ [Next]_vars /\ [ControlNext]_controlVars
           /\ [DecisionsNext]_decisionsVars /\ [ConsoleNext]_consoleVars
  BY DEF BackboneNext, backboneVars
<1> QED BY <1>1, <1>2, PTL DEF BackboneSpec, Spec, ControlSpec, DecisionsSpec, ConsoleSpec

\* Whichever of the four runs, its variables keep their types.
THEOREM BackboneTypeCorrect == BackboneSpec => []BackboneTypeOK
<1>1. TypeOK /\ ControlTypeOK /\ DecisionsTypeOK /\ ConsoleTypeOK => BackboneTypeOK
  BY DEF BackboneTypeOK
<1> QED BY <1>1, BackboneParts, TypeCorrect, ControlTypeCorrect, DecisionsTypeCorrect,
           ConsoleTypeCorrect, PTL
===============================================================================
