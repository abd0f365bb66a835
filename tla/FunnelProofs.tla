---------------------------- MODULE FunnelProofs ----------------------------
(***************************************************************************)
(* Theorems about Funnel: its types, that one run at a time carries a      *)
(* token through the stages, and that the stages implement Screening, for  *)
(* any tokens, runs, models and processes.                                 *)
(***************************************************************************)
EXTENDS Funnel, TLAPS, FiniteSetTheorems

-------------------------------------------------------------------------------
(* The inductive invariants. *)

\* The events a worker of a stage may have in its hands.
Entries == [kind : Inputs, token : Tokens, run : Runs]

Pending(e) == e \in posted \ settled

\* Where the first delivery of an event stands.
At(e) == pc[<<e, 1>>]

\* What has a delivery is on the bus.
Typed ==
  /\ TypeOK
  /\ \A d \in Deliveries : pc[d] # "idle" => d[1] \in posted

\* An event is delivered once and until it is settled.
OneDelivery == \A d \in Deliveries : pc[d] # "idle" => d[2] = 1 /\ d[1] \notin settled

\* The output of an event is inserted when the event is settled.
OutputsFollow ==
  \A s \in Stages, t \in Tokens, r \in Runs :
    Event(Output[s], t, r) \in posted => Event(Input[s], t, r) \in settled

\* The states that data quality takes a token from and leads it to.
Screenable == {"DETECTED", "REJECTED", "DQ_SKIPPED"}
Screened   == {"DQ_PASSED", "REJECTED", "DQ_SKIPPED"}

\* What a stage has read and decided. A later stage has read the row as it is.
DecidedAt(e) ==
  /\ At(e) = "read" => e.kind = "market_data"
  /\ At(e) \in {"read", "cas"} /\ e.kind = "market_data" =>
       seen[<<e, 1>>].state \in Screenable /\ choice[<<e, 1>>] \in Screened
  /\ At(e) = "cas" /\ e.kind # "market_data" =>
       /\ seen[<<e, 1>>] = life[e.token]
       /\ choice[<<e, 1>>] \in {Pass[StageOf[e.kind]], "REJECTED"}
  /\ At(e) = "emit" => choice[<<e, 1>>] = Pass[StageOf[e.kind]]

Decided == \A e \in Entries : DecidedAt(e)

\* The event says that its run has the token: it is for a stage behind data
\* quality, or it has just passed data quality; and it has not passed validation.
InHand(e) ==
  /\ Pending(e)
  /\ e.kind = "market_data" => At(e) = "emit"
  /\ e.kind = "edge" => At(e) # "emit"

\* The state of a token in the hands of an event.
HandState(e) == IF At(e) = "emit" THEN Pass[StageOf[e.kind]] ELSE From[StageOf[e.kind]]

\* No event is stale: a token is where the event that has it says, one event has
\* it, and a token under way is had.
HandsAgree ==
  \A e \in Entries : InHand(e) => life[e.token].state = HandState(e)
OneHand ==
  \A e, f \in Entries : InHand(e) /\ InHand(f) /\ e.token = f.token => e = f
NoneStranded ==
  \A t \in Tokens : life[t].state \in UnderWay => \E e \in Entries : e.token = t /\ InHand(e)

\* What holds as long as nothing fails.
Quiet == OneDelivery /\ OutputsFollow /\ Decided /\ HandsAgree /\ OneHand /\ NoneStranded

FunnelInv == Typed /\ (faults = 0 => Quiet)

-------------------------------------------------------------------------------
(* The stages. *)

LEMMA StageFacts ==
  /\ Inputs = {"market_data", "data_quality", "feature", "edge"}
  /\ StageOf["market_data"] = "dq"
  /\ StageOf["data_quality"] = "features"
  /\ StageOf["feature"] = "edge"
  /\ StageOf["edge"] = "validation"
<1>1. Inputs = {"market_data", "data_quality", "feature", "edge"}
  BY DEF Inputs, Input, Stages
<1>2. \A k \in Inputs : StageOf[k] \in Stages /\ Input[StageOf[k]] = k
  BY DEF StageOf, Inputs
<1> QED BY <1>1, <1>2 DEF Input, Stages

LEMMA DeliveryParts ==
  ASSUME NEW d \in Deliveries
  PROVE  /\ d[1] \in Entries
         /\ Token(d) \in Tokens
         /\ Run(d) \in Runs
         /\ Stage(d) = StageOf[d[1].kind]
         /\ d = <<d[1], d[2]>>
BY DEF Deliveries, Entries, Token, Run, Stage

LEMMA FirstDelivery ==
  ASSUME NEW e \in Entries
  PROVE  <<e, 1>> \in Deliveries
BY FunnelAssumption DEF Entries, Deliveries

-------------------------------------------------------------------------------
(* Types. *)

LEMMA TypedInit == Init => Typed
<1> SUFFICES ASSUME Init PROVE Typed
  OBVIOUS
<1>1. DetectedRow \in LifecycleRows
  BY DEF DetectedRow, LifecycleRows, LifecycleStates
<1>2. NothingJoined \in [Models -> Runs \union {NoRun}]
  BY DEF NothingJoined
<1>3. posted \subseteq Events
  BY StageFacts DEF Init, Event, Events, Runs
<1>4. estimates \in [Models \X Tokens \X Runs -> Seq(Runs)]
  BY DEF Init
<1>5. TypeOK
  BY <1>1, <1>2, <1>3, <1>4, FunnelAssumption DEF Init, TypeOK, Choices, PCs
<1> QED BY <1>5 DEF Init, Typed

\* What the memory of the workers and the tables of the bus keep, whoever forgets.
LEMMA ForgetTyped ==
  ASSUME TypeOK, NEW D, Forget(D)
  PROVE  /\ pc' \in [Deliveries -> PCs]
         /\ seen' \in [Deliveries -> LifecycleRows]
         /\ choice' \in [Deliveries -> Choices]
         /\ joined' \in [Deliveries -> [Models -> Runs \union {NoRun}]]
         /\ \A d \in Deliveries : pc'[d] # "idle" => d \notin D /\ pc'[d] = pc[d]
<1>1. DetectedRow \in LifecycleRows
  BY DEF DetectedRow, LifecycleRows, LifecycleStates
<1>2. NothingJoined \in [Models -> Runs \union {NoRun}]
  BY DEF NothingJoined
<1> QED BY <1>1, <1>2 DEF TypeOK, Forget, PCs, Choices

\* A row that TransitionState lets through.
LEMMA AdvancedTyped ==
  ASSUME NEW row \in LifecycleRows, NEW to \in LifecycleStates
  PROVE  Advanced(row, to) \in LifecycleRows /\ Advanced(row, to).state = to
BY DEF Advanced, LifecycleRows

LEMMA ChoicesAreStates == Choices \ {"none"} \subseteq LifecycleStates
BY DEF Choices, Stages, Pass, LifecycleStates

\* TypeOK, by what each action can disturb.
TablesOK ==
  /\ life \in [Tokens -> LifecycleRows]
  /\ rescannable \subseteq Tokens
  /\ estimates \in [Models \X Tokens \X Runs -> Seq(Runs)]
BusOK ==
  /\ posted \subseteq Events
  /\ settled \subseteq posted
  /\ dead \subseteq settled
MemoryOK ==
  /\ pc \in [Deliveries -> PCs]
  /\ seen \in [Deliveries -> LifecycleRows]
  /\ choice \in [Deliveries -> Choices]
  /\ joined \in [Deliveries -> [Models -> Runs \union {NoRun}]]
HeldPosted == \A d \in Deliveries : pc[d] # "idle" => d[1] \in posted
FaultsOK == faults \in 0..MaxFaults

LEMMA TypedParts == Typed <=> TablesOK /\ BusOK /\ MemoryOK /\ HeldPosted /\ FaultsOK
BY DEF Typed, TypeOK, TablesOK, BusOK, MemoryOK, HeldPosted, FaultsOK

LEMMA TypedPartsNext == TablesOK' /\ BusOK' /\ MemoryOK' /\ HeldPosted' /\ FaultsOK' => Typed'
BY DEF Typed, TypeOK, TablesOK, BusOK, MemoryOK, HeldPosted, FaultsOK

LEMMA ForgetKeeps ==
  ASSUME Typed, NEW D, Forget(D), posted \subseteq posted'
  PROVE  MemoryOK' /\ HeldPosted'
BY ForgetTyped DEF Typed, MemoryOK, HeldPosted

LEMMA SettleKeeps ==
  ASSUME Typed, NEW d \in Deliveries, pc[d] # "idle", Settle(d),
         posted \subseteq posted', posted' \subseteq Events
  PROVE  MemoryOK' /\ HeldPosted' /\ BusOK' /\ FaultsOK'
<1>1. MemoryOK' /\ HeldPosted'
  BY ForgetKeeps DEF Settle
<1>2. d[1] \in posted
  BY DEF Typed
<1>3. BusOK'
  BY <1>2 DEF Settle, Typed, TypeOK, BusOK
<1>4. FaultsOK'
  BY FunnelAssumption DEF Settle, Typed, TypeOK, FaultsOK
<1> QED BY <1>1, <1>3, <1>4

LEMMA FailKeeps ==
  ASSUME Typed, NEW d \in Deliveries, pc[d] # "idle", Fail(d)
  PROVE  MemoryOK' /\ HeldPosted' /\ BusOK'
<1>1. posted' = posted
  BY DEF Fail, bus
<1>2. MemoryOK' /\ HeldPosted'
  BY <1>1, ForgetKeeps DEF Fail
<1>3. d[1] \in posted
  BY DEF Typed
<1>4. BusOK'
  BY <1>1, <1>3 DEF Fail, bus, Typed, TypeOK, BusOK
<1> QED BY <1>2, <1>4

LEMMA ProceedKeeps ==
  ASSUME Typed, NEW d \in Deliveries, pc[d] # "idle",
         NEW next \in PCs, NEW row \in LifecycleRows, NEW to \in Choices,
         Proceed(d, next, row, to), posted \subseteq posted', posted' \subseteq Events
  PROVE  MemoryOK' /\ HeldPosted' /\ BusOK' /\ FaultsOK'
<1>1. MemoryOK'
  BY DEF Proceed, Goto, Typed, TypeOK, MemoryOK
<1>2. HeldPosted'
  BY DEF Proceed, Goto, Typed, TypeOK, HeldPosted
<1>3. BusOK' /\ FaultsOK'
  BY DEF Proceed, Typed, TypeOK, BusOK, FaultsOK
<1> QED BY <1>1, <1>2, <1>3

LEMMA ReadKeeps ==
  ASSUME Typed, NEW d \in Deliveries, pc[d] # "idle", NEW from, NEW to \in Choices,
         ReadLifecycle(d, from, to), posted \subseteq posted', posted' \subseteq Events
  PROVE  MemoryOK' /\ HeldPosted' /\ BusOK' /\ FaultsOK'
<1>1. life[Token(d)] \in LifecycleRows
  BY DeliveryParts DEF Typed, TypeOK
<1>2. CASE Proceed(d, "cas", life[Token(d)], to)
  BY <1>1, <1>2, ProceedKeeps DEF PCs
<1>3. CASE Settle(d)
  BY <1>3, SettleKeeps
<1> QED BY <1>2, <1>3 DEF ReadLifecycle

LEMMA EventTyped ==
  ASSUME NEW k \in Inputs \union {"validated_edge"} \union Models, NEW t \in Tokens, NEW r \in Runs
  PROVE  Event(k, t, r) \in Events
BY DEF Event, Events

LEMMA StageOfDelivery ==
  ASSUME NEW d \in Deliveries
  PROVE  /\ Stage(d) \in Stages
         /\ Pass[Stage(d)] \in Choices
         /\ Output[Stage(d)] \in Inputs \union {"validated_edge"}
         /\ d[1] = Event(Input[Stage(d)], Token(d), Run(d))
<1>1. d[1].kind \in Inputs
  BY DEF Deliveries
<1>2. Stage(d) \in Stages /\ Input[Stage(d)] = d[1].kind
  BY <1>1, StageFacts DEF Stage, Stages, Input
<1>3. d[1] = Event(Input[Stage(d)], Token(d), Run(d))
  BY <1>2 DEF Deliveries, Event, Token, Run
<1> QED BY <1>2, <1>3, StageFacts DEF Stages, Choices, Output

LEMMA TraceTyped == \A r \in Runs : Trace(r) \in Runs
BY DEF Trace, Runs

LEMMA LatestTyped ==
  ASSUME TypeOK, NEW m \in Models, NEW t \in Tokens, NEW r \in Runs
  PROVE  Latest(m, t, r) \in Runs \union {NoRun}
<1>1. estimates[<<m, t, r>>] \in Seq(Runs)
  BY DEF TypeOK
<1> DEFINE found == estimates[<<m, t, r>>]
<1>2. found # <<>> => found[Len(found)] \in Runs
  <2> HIDE DEF found
  <2>1. found \in Seq(Runs)
    BY <1>1 DEF found
  <2> QED BY <2>1
<1> QED BY <1>2 DEF Latest

LEMMA TypedNext == Typed /\ [Next]_vars => Typed'
<1> SUFFICES ASSUME Typed, [Next]_vars PROVE Typed'
  OBVIOUS
<1>0. TablesOK /\ BusOK /\ MemoryOK /\ HeldPosted /\ FaultsOK /\ TypeOK
  BY TypedParts DEF Typed
<1> USE DEF tables, bus, memory
<1>1. ASSUME NEW d \in Deliveries, Deliver(d) PROVE Typed'
  <2>1. MemoryOK' /\ HeldPosted'
    BY <1>0, <1>1 DEF Deliver, Goto, MemoryOK, HeldPosted, PCs
  <2>2. FaultsOK'
    BY <1>0, <1>1, FunnelAssumption DEF Deliver, FaultsOK
  <2> QED BY <1>0, <1>1, <2>1, <2>2, TypedPartsNext DEF Deliver, TablesOK, BusOK
<1>2. ASSUME NEW d \in Deliveries, Assess(d) PROVE Typed'
  <2>0. pc[d] # "idle" /\ posted' = posted /\ posted \subseteq Events /\ life[Token(d)] \in LifecycleRows
    BY <1>0, <1>2, DeliveryParts DEF Assess, BusOK, TablesOK
  <2>1. PICK to \in {"DQ_PASSED", "REJECTED", "DQ_SKIPPED"} :
          \/ Proceed(d, "read", life[Token(d)], to)
          \/ Settle(d)
    BY <1>2 DEF Assess
  <2>2. to \in Choices
    BY DEF Choices, Stages, Pass
  <2>3. MemoryOK' /\ HeldPosted' /\ BusOK' /\ FaultsOK'
    BY <2>0, <2>1, <2>2, SettleKeeps, ProceedKeeps DEF PCs
  <2>4. TablesOK'
    BY <1>0, <1>2, DeliveryParts DEF Assess, TablesOK
  <2> QED BY <2>3, <2>4, TypedPartsNext
<1>3. ASSUME NEW d \in Deliveries, ReadAgain(d) PROVE Typed'
  <2>0. pc[d] = "read" /\ posted' = posted /\ posted \subseteq Events /\ choice[d] \in Choices
    BY <1>0, <1>3 DEF ReadAgain, BusOK, MemoryOK
  <2>1. MemoryOK' /\ HeldPosted' /\ BusOK' /\ FaultsOK'
    BY <1>3, <2>0, ReadKeeps DEF ReadAgain
  <2> QED BY <1>0, <1>3, <2>1, TypedPartsNext DEF ReadAgain, TablesOK
<1>4. ASSUME NEW d \in Deliveries, Extract(d) PROVE Typed'
  <2>0. pc[d] = "start" /\ posted \subseteq posted' /\ posted' \subseteq Events
    BY <1>0, <1>4, DeliveryParts, EventTyped DEF Extract, BusOK
  <2>1. "FEATURE_READY" \in Choices
    BY DEF Choices, Stages, Pass
  <2>2. MemoryOK' /\ HeldPosted' /\ BusOK' /\ FaultsOK'
    BY <1>4, <2>0, <2>1, ReadKeeps DEF Extract
  <2> QED BY <1>0, <1>4, <2>2, TypedPartsNext DEF Extract, TablesOK
<1>5. ASSUME NEW d \in Deliveries, DetectEdge(d) PROVE Typed'
  <2>0. pc[d] = "start" /\ posted' = posted /\ posted \subseteq Events
    BY <1>0, <1>5 DEF DetectEdge, BusOK
  <2>1. {"EDGE_DETECTED", "REJECTED"} \subseteq Choices
    BY DEF Choices, Stages, Pass
  <2>2. MemoryOK' /\ HeldPosted' /\ BusOK' /\ FaultsOK'
    BY <1>5, <2>0, <2>1, ReadKeeps DEF DetectEdge
  <2> QED BY <1>0, <1>5, <2>2, TypedPartsNext DEF DetectEdge, TablesOK
<1>6. ASSUME NEW d \in Deliveries, Poll(d) PROVE Typed'
  <2>1. \A m \in Models : Latest(m, Token(d), Trace(Run(d))) \in Runs \union {NoRun}
    BY <1>0, DeliveryParts, TraceTyped, LatestTyped
  <2>2. joined' \in [Deliveries -> [Models -> Runs \union {NoRun}]]
    BY <1>0, <1>6, <2>1 DEF Poll, MemoryOK
  <2> QED BY <1>0, <1>6, <2>2, TypedPartsNext
          DEF Poll, TablesOK, BusOK, MemoryOK, HeldPosted, FaultsOK
<1>7. ASSUME NEW d \in Deliveries, Validate(d) PROVE Typed'
  <2>0. pc[d] = "start" /\ posted' = posted /\ posted \subseteq Events
    BY <1>0, <1>7 DEF Validate, BusOK
  <2>1. {"VALIDATED", "REJECTED"} \subseteq Choices
    BY DEF Choices, Stages, Pass
  <2>2. MemoryOK' /\ HeldPosted' /\ BusOK' /\ FaultsOK'
    BY <1>7, <2>0, <2>1, ReadKeeps DEF Validate
  <2> QED BY <1>0, <1>7, <2>2, TypedPartsNext DEF Validate, TablesOK
<1>8. ASSUME NEW d \in Deliveries, TransitionState(d) PROVE Typed'
  <2>0. pc[d] = "cas" /\ posted \subseteq Events /\ Token(d) \in Tokens
        /\ life[Token(d)] \in LifecycleRows /\ choice[d] \in Choices
    BY <1>0, <1>8, DeliveryParts DEF TransitionState, BusOK, TablesOK, MemoryOK
  <2>1. CASE ~Transits(life[Token(d)], seen[d], choice[d])
    <3>1. Fail(d) /\ UNCHANGED <<life, faults, rescannable, estimates>>
      BY <1>8, <2>1 DEF TransitionState
    <3> QED BY <1>0, <2>0, <3>1, FailKeeps, TypedPartsNext DEF TablesOK, FaultsOK
  <2>2. CASE Transits(life[Token(d)], seen[d], choice[d])
    <3>1. /\ life' = [life EXCEPT ![Token(d)] = Advanced(@, choice[d])]
          /\ UNCHANGED <<rescannable, estimates, posted>>
          /\ \/ Goto(d, "emit") /\ UNCHANGED <<seen, choice, joined, settled, dead, faults>>
             \/ Settle(d)
      BY <1>8, <2>2 DEF TransitionState
    <3>2. choice[d] \in LifecycleStates
      BY <2>0, <2>2, ChoicesAreStates DEF Transits, ValidTransitions, LifecycleStates
    <3>3. TablesOK'
      BY <1>0, <2>0, <3>1, <3>2, AdvancedTyped DEF TablesOK
    <3>4. MemoryOK' /\ HeldPosted' /\ BusOK' /\ FaultsOK'
      BY <1>0, <2>0, <3>1, SettleKeeps
         DEF Goto, PCs, MemoryOK, HeldPosted, BusOK, FaultsOK
    <3> QED BY <3>3, <3>4, TypedPartsNext
  <2> QED BY <2>1, <2>2
<1>9. ASSUME NEW d \in Deliveries, InsertOutput(d) PROVE Typed'
  <2>1. pc[d] = "emit" /\ posted \subseteq posted' /\ posted' \subseteq Events
    BY <1>0, <1>9, DeliveryParts, StageOfDelivery, EventTyped DEF InsertOutput, BusOK
  <2> QED BY <1>0, <1>9, <2>1, SettleKeeps, TypedPartsNext DEF InsertOutput, TablesOK
<1>10. ASSUME NEW d \in Deliveries, StatementFails(d) PROVE Typed'
  <2>1. FaultsOK'
    BY <1>0, <1>10, FunnelAssumption DEF StatementFails, FaultsOK
  <2>2. TablesOK'
    BY <1>0, <1>10 DEF StatementFails, TablesOK
  <2>3. CASE pc[d] \in {"start", "read", "cas"} /\ Fail(d)
    BY <2>1, <2>2, <2>3, FailKeeps, TypedPartsNext
  <2>4. CASE /\ Forget({d}) /\ UNCHANGED <<settled, dead>>
             /\ \E m \in Models : posted' = posted \union {Event(m, Token(d), Run(d))}
    <3>1. posted \subseteq posted' /\ posted' \subseteq Events
      BY <1>0, <2>4, DeliveryParts, EventTyped DEF BusOK
    <3>2. BusOK'
      BY <1>0, <2>4, <3>1 DEF BusOK
    <3> QED BY <2>1, <2>2, <2>4, <3>1, <3>2, ForgetKeeps, TypedPartsNext
  <2>5. CASE Forget({d}) /\ UNCHANGED bus
    BY <1>0, <2>1, <2>2, <2>5, ForgetKeeps, TypedPartsNext DEF BusOK
  <2> QED BY <1>10, <2>3, <2>4, <2>5 DEF StatementFails
<1>11. ASSUME NEW D \in SUBSET Active, Crash(D) PROVE Typed'
  <2>1. FaultsOK'
    BY <1>0, <1>11, FunnelAssumption DEF Crash, FaultsOK
  <2> QED BY <1>0, <1>11, <2>1, ForgetKeeps, TypedPartsNext DEF Crash, BusOK, TablesOK
<1>12. ASSUME NEW m \in Models, NEW t \in Tokens, NEW r \in Runs, Estimate(m, t, r) PROVE Typed'
  <2>1. FaultsOK'
    BY <1>0, <1>12, FunnelAssumption DEF Estimate, FaultsOK
  <2>2. BusOK'
    BY <1>0, <1>12 DEF Estimate, BusOK
  <2>3. estimates' \in [Models \X Tokens \X Runs -> Seq(Runs)]
    <3> DEFINE x == <<m, t, Trace(r)>>
    <3>1. x \in Models \X Tokens \X Runs
      BY TraceTyped
    <3>2. Append(estimates[x], r) \in Seq(Runs)
      BY <1>0, <3>1 DEF TablesOK
    <3>3. estimates' = estimates \/ estimates' = [estimates EXCEPT ![x] = Append(@, r)]
      BY <1>12 DEF Estimate, InsertEstimate
    <3> HIDE DEF x
    <3> QED BY <1>0, <3>1, <3>2, <3>3 DEF TablesOK
  <2> QED BY <1>0, <1>12, <2>1, <2>2, <2>3, TypedPartsNext
          DEF Estimate, TablesOK, MemoryOK, HeldPosted
<1>13. ASSUME NEW t \in Tokens, Selection(t) PROVE Typed'
  <2>1. life' \in [Tokens -> LifecycleRows]
    BY <1>0, <1>13, AdvancedTyped DEF Selection, TablesOK, LifecycleStates
  <2> QED BY <1>0, <1>13, <2>1, TypedPartsNext
          DEF Selection, TablesOK, BusOK, MemoryOK, HeldPosted, FaultsOK
<1>14. ASSUME NEW t \in Tokens, NEW r \in Runs, Reenter(t, r) PROVE Typed'
  <2>1. posted \subseteq posted' /\ posted' \subseteq Events
    BY <1>0, <1>14, StageFacts, EventTyped DEF Reenter, BusOK
  <2> QED BY <1>0, <1>14, <2>1, TypedPartsNext
          DEF Reenter, TablesOK, BusOK, MemoryOK, HeldPosted, FaultsOK
<1>15. CASE UNCHANGED vars
  BY <1>0, <1>15, TypedPartsNext DEF vars, TablesOK, BusOK, MemoryOK, HeldPosted, FaultsOK
<1> QED
  BY <1>1, <1>2, <1>3, <1>4, <1>5, <1>6, <1>7, <1>8, <1>9, <1>10, <1>11, <1>12,
     <1>13, <1>14, <1>15 DEF Next, Work

\* Every variable of the funnel keeps its type.
THEOREM FunnelTypeCorrect == Spec => []TypeOK
<1>1. Typed => TypeOK
  BY DEF Typed
<1> QED BY <1>1, TypedInit, TypedNext, PTL DEF Spec

-------------------------------------------------------------------------------
(* As long as nothing fails: what a step leaves alone. *)

\* A step leaves the first delivery of an event alone.
AsBefore(f) ==
  /\ pc'[<<f, 1>>] = pc[<<f, 1>>]
  /\ seen'[<<f, 1>>] = seen[<<f, 1>>]
  /\ choice'[<<f, 1>>] = choice[<<f, 1>>]

\* A step leaves the hand of an event alone.
HandAsBefore(f) == (InHand(f)' <=> InHand(f)) /\ HandState(f)' = HandState(f)

\* No token moves, and a run keeps the tokens it has.
RunsKept ==
  /\ life' = life
  /\ \A e \in Entries : InHand(e) =>
       \E f \in Entries : InHand(f)' /\ f.token = e.token /\ f.run = e.run

LEMMA QuietInit == Init => Quiet
<1> SUFFICES ASSUME Init PROVE Quiet
  OBVIOUS
<1>1. \A e \in Entries : At(e) = "idle"
  BY FirstDelivery DEF Init, At
<1>2. \A x \in posted : x.kind = "market_data"
  BY DEF Init, Event
<1>3. OneDelivery
  BY DEF Init, OneDelivery
<1>4. OutputsFollow
  BY <1>2 DEF OutputsFollow, Stages, Output, Event
<1>5. Decided
  BY <1>1 DEF Decided, DecidedAt
<1>6. \A e \in Entries : ~InHand(e)
  BY <1>1, <1>2 DEF InHand, Pending
<1>7. \A t \in Tokens : life[t].state \notin UnderWay
  BY DEF Init, DetectedRow, UnderWay
<1> QED BY <1>3, <1>4, <1>5, <1>6, <1>7 DEF Quiet, HandsAgree, OneHand, NoneStranded

\* A delivery under way is the first one of a pending event.
LEMMA DeliveredOnce ==
  ASSUME Typed, OneDelivery, NEW d \in Deliveries, pc[d] # "idle"
  PROVE  /\ d = <<d[1], 1>>
         /\ d[1] \in Entries
         /\ At(d[1]) = pc[d]
         /\ Pending(d[1])
BY DeliveryParts DEF Typed, OneDelivery, At, Pending

\* The state an event says its token is in.
LEMMA HandStates ==
  ASSUME NEW e \in Entries
  PROVE  /\ e.kind = "market_data" /\ At(e) = "emit" => HandState(e) = "DQ_PASSED"
         /\ e.kind = "data_quality" =>
              HandState(e) = IF At(e) = "emit" THEN "FEATURE_READY" ELSE "DQ_PASSED"
         /\ e.kind = "feature" =>
              HandState(e) = IF At(e) = "emit" THEN "EDGE_DETECTED" ELSE "FEATURE_READY"
         /\ e.kind = "edge" /\ At(e) # "emit" => HandState(e) = "EDGE_DETECTED"
         /\ e.kind \in {"market_data", "data_quality", "feature", "edge"}
BY StageFacts DEF Entries, HandState, From, Pass, Stages

LEMMA HandStatesNext ==
  ASSUME NEW e \in Entries
  PROVE  /\ e.kind = "market_data" /\ At(e)' = "emit" => HandState(e)' = "DQ_PASSED"
         /\ e.kind = "data_quality" =>
              HandState(e)' = IF At(e)' = "emit" THEN "FEATURE_READY" ELSE "DQ_PASSED"
         /\ e.kind = "feature" =>
              HandState(e)' = IF At(e)' = "emit" THEN "EDGE_DETECTED" ELSE "FEATURE_READY"
         /\ e.kind = "edge" /\ At(e)' # "emit" => HandState(e)' = "EDGE_DETECTED"
BY StageFacts DEF Entries, HandState, From, Pass, Stages

\* A token that is had is under way.
LEMMA HandUnderWay ==
  ASSUME NEW e \in Entries, InHand(e), HandsAgree
  PROVE  life[e.token].state = HandState(e) /\ HandState(e) \in UnderWay
BY HandStates DEF InHand, HandsAgree, UnderWay

\* Behind data quality, an event that a worker has not yet announced has its token.
LEMMA HeldInHand ==
  ASSUME NEW e \in Entries, Pending(e), e.kind # "market_data", At(e) # "emit", HandsAgree
  PROVE  InHand(e) /\ life[e.token].state = From[StageOf[e.kind]]
BY DEF InHand, HandsAgree, HandState

LEMMA OutputsKept ==
  ASSUME OutputsFollow, settled \subseteq settled',
         \A x \in posted' \ posted : x.kind \notin {"data_quality", "feature", "edge", "validated_edge"}
  PROVE  OutputsFollow'
<1> SUFFICES ASSUME NEW s \in Stages, NEW t \in Tokens, NEW r \in Runs,
                    Event(Output[s], t, r) \in posted'
             PROVE  Event(Input[s], t, r) \in settled'
  BY DEF OutputsFollow
<1>1. Event(Output[s], t, r).kind \in {"data_quality", "feature", "edge", "validated_edge"}
  BY DEF Event, Output, Stages
<1> QED BY <1>1 DEF OutputsFollow

LEMMA OneDeliveryKept ==
  ASSUME OneDelivery, NEW d \in Deliveries, d = <<d[1], 1>>,
         settled' \subseteq settled \union {d[1]},
         d[1] \in settled' => pc'[d] = "idle",
         \A c \in Deliveries : c # d /\ pc'[c] # "idle" => pc[c] # "idle"
  PROVE  OneDelivery'
<1> SUFFICES ASSUME NEW c \in Deliveries, pc'[c] # "idle"
             PROVE  c[2] = 1 /\ c[1] \notin settled'
  BY DEF OneDelivery
<1>1. CASE c = d
  BY <1>1
<1>2. CASE c # d
  <2>1. c[2] = 1 /\ c[1] \notin settled
    BY <1>2 DEF OneDelivery
  <2>2. c[1] # d[1]
    BY <1>2, <2>1 DEF Deliveries
  <2> QED BY <2>1, <2>2
<1> QED BY <1>1, <1>2

LEMMA DecidedKept ==
  ASSUME NEW f \in Entries, DecidedAt(f), AsBefore(f),
         At(f) = "cas" /\ f.kind # "market_data" => life'[f.token] = life[f.token]
  PROVE  DecidedAt(f)'
BY DEF DecidedAt, AsBefore, At

\* No token moves and no event changes hands.
LEMMA HandsKept ==
  ASSUME Quiet, life' = life, \A f \in Entries : HandAsBefore(f)
  PROVE  (HandsAgree /\ OneHand /\ NoneStranded)' /\ RunsKept
BY DEF Quiet, HandsAgree, OneHand, NoneStranded, HandAsBefore, RunsKept

LEMMA HandUntouched ==
  ASSUME NEW f \in Entries, AsBefore(f), Pending(f)' <=> Pending(f)
  PROVE  HandAsBefore(f)
BY DEF AsBefore, HandAsBefore, InHand, HandState, At

\* A token moves, and nothing but what a run does with it changes hands.
LEMMA HandsMoved ==
  ASSUME Quiet, NEW t \in Tokens, NEW e \in Entries,
         \A u \in Tokens : u # t => life'[u] = life[u],
         \A f \in Entries : f.token # t => HandAsBefore(f),
         \A f \in Entries : f.token = t /\ InHand(f)' => f = e,
         e.token = t /\ InHand(e)' => life'[t].state = HandState(e)',
         life'[t].state \in UnderWay => e.token = t /\ InHand(e)'
  PROVE  (HandsAgree /\ OneHand /\ NoneStranded)'
<1>0. \A f \in Entries : f.token \in Tokens
  BY DEF Entries
<1>1. HandsAgree'
  BY <1>0 DEF Quiet, HandsAgree, HandAsBefore
<1>2. OneHand'
  BY <1>0 DEF Quiet, OneHand, HandAsBefore
<1>3. NoneStranded'
  BY <1>0 DEF Quiet, NoneStranded, HandAsBefore
<1> QED BY <1>1, <1>2, <1>3

-------------------------------------------------------------------------------
(* As long as nothing fails: the kinds of steps. *)

LEMMA OtherDeliveries ==
  ASSUME NEW d \in Deliveries, d = <<d[1], 1>>, NEW f \in Entries, f # d[1]
  PROVE  <<f, 1>> \in Deliveries /\ <<f, 1>> # d
BY FirstDelivery

\* Data quality lets go of an event without a transition: its token has moved on.
LEMMA LetGoQuiet ==
  ASSUME Typed, Quiet, NEW d \in Deliveries, pc[d] \in {"start", "read", "cas"},
         d[1].kind = "market_data", Forget({d}),
         settled' \in {settled, settled \union {d[1]}}, UNCHANGED <<posted, life>>
  PROVE  Quiet' /\ RunsKept
<1> DEFINE e == d[1]
<1>1. d = <<e, 1>> /\ e \in Entries /\ At(e) = pc[d] /\ Pending(e)
  BY DeliveredOnce DEF Quiet
<1>2. pc'[d] = "idle"
  BY DEF Forget
<1>3. \A c \in Deliveries : c # d => pc'[c] = pc[c] /\ seen'[c] = seen[c] /\ choice'[c] = choice[c]
  BY DEF Forget
<1>4. \A f \in Entries : f # e => AsBefore(f) /\ (Pending(f)' <=> Pending(f))
  BY <1>1, <1>3, OtherDeliveries DEF AsBefore, Pending
<1>5. ~InHand(e) /\ ~InHand(e)' /\ At(e)' = "idle"
  BY <1>1, <1>2 DEF InHand, At
<1>6. OneDelivery'
  BY <1>1, <1>2, <1>3, OneDeliveryKept DEF Quiet
<1>7. OutputsFollow'
  BY OutputsKept DEF Quiet
<1>8. Decided'
  BY <1>4, <1>5, DecidedKept DEF Quiet, Decided, DecidedAt
<1>9. HandState(e)' = HandState(e)
  BY <1>1, <1>5 DEF HandState
<1>10. \A f \in Entries : HandAsBefore(f)
  BY <1>4, <1>5, <1>9, HandUntouched DEF HandAsBefore
<1> QED BY <1>6, <1>7, <1>8, <1>10, HandsKept DEF Quiet

\* A stage goes on to its transition.
LEMMA ProceedQuiet ==
  ASSUME Typed, Quiet, NEW d \in Deliveries, pc[d] \in {"start", "read"},
         NEW next \in {"read", "cas"}, NEW row, NEW to, Proceed(d, next, row, to),
         IF d[1].kind = "market_data"
           THEN row.state \in Screenable /\ to \in Screened
           ELSE next = "cas" /\ row = life[Token(d)] /\ to \in {Pass[Stage(d)], "REJECTED"},
         life' = life, posted \subseteq posted',
         \A x \in posted' \ posted : x.kind \in Models
  PROVE  Quiet' /\ RunsKept
<1> DEFINE e == d[1]
<1>1. d = <<e, 1>> /\ e \in Entries /\ At(e) = pc[d] /\ Pending(e)
  BY DeliveredOnce DEF Quiet
<1>2. /\ pc \in [Deliveries -> PCs] /\ seen \in [Deliveries -> LifecycleRows]
      /\ choice \in [Deliveries -> Choices]
  BY DEF Typed, TypeOK
<1>3. pc'[d] = next /\ seen'[d] = row /\ choice'[d] = to
  BY <1>2 DEF Proceed, Goto
<1>4. \A c \in Deliveries : c # d => pc'[c] = pc[c] /\ seen'[c] = seen[c] /\ choice'[c] = choice[c]
  BY <1>2 DEF Proceed, Goto
<1>5. \A f \in Entries : Pending(f)' <=> Pending(f)
  BY FunnelAssumption, StageFacts DEF Pending, Entries, Proceed
<1>6. \A f \in Entries : f # e => AsBefore(f)
  BY <1>1, <1>4, OtherDeliveries DEF AsBefore
<1>7. HandAsBefore(e)
  BY <1>1, <1>3, <1>5 DEF HandAsBefore, InHand, HandState, At
<1>8. OneDelivery'
  BY <1>1, <1>4, OneDeliveryKept DEF Quiet, Proceed, Pending
<1>9. OutputsFollow'
  BY FunnelAssumption, OutputsKept DEF Quiet, Proceed
<1>10. DecidedAt(e)'
  BY <1>1, <1>3 DEF DecidedAt, At, Token, Stage
<1>11. Decided'
  BY <1>6, <1>10, DecidedKept DEF Quiet, Decided
<1>12. \A f \in Entries : HandAsBefore(f)
  BY <1>5, <1>6, <1>7, HandUntouched
<1> QED BY <1>8, <1>9, <1>11, <1>12, HandsKept DEF Quiet

\* Behind data quality no event is drained: its token is where the stage takes it.
LEMMA ReadProceeds ==
  ASSUME Typed, Quiet, NEW d \in Deliveries, pc[d] = "start", d[1].kind # "market_data",
         NEW to, ReadLifecycle(d, From[Stage(d)], to)
  PROVE  Proceed(d, "cas", life[Token(d)], to)
<1>1. d[1] \in Entries /\ At(d[1]) = "start" /\ Pending(d[1])
  BY DeliveredOnce DEF Quiet
<1>2. life[d[1].token].state = From[StageOf[d[1].kind]]
  BY <1>1, HeldInHand DEF Quiet
<1> QED BY <1>2 DEF ReadLifecycle, Token, Stage
\* A stage behind data quality runs its transition with the token in its hands,
\* and it succeeds; data quality runs it with nothing in its hands.
LEMMA TransitionDecided ==
  ASSUME Typed, Quiet, NEW d \in Deliveries, pc[d] = "cas"
  PROVE  /\ d = <<d[1], 1>> /\ d[1] \in Entries /\ At(d[1]) = "cas" /\ Pending(d[1])
         /\ Token(d) \in Tokens /\ d[1].token = Token(d) /\ StageOf[d[1].kind] = Stage(d)
         /\ d[1].kind \in {"market_data", "data_quality", "feature", "edge"}
         /\ d[1].kind # "market_data" =>
              /\ InHand(d[1]) /\ choice[d] \in {Pass[Stage(d)], "REJECTED"}
              /\ life[Token(d)].state = From[Stage(d)]
              /\ Transits(life[Token(d)], seen[d], choice[d])
         /\ d[1].kind = "market_data" =>
              ~InHand(d[1]) /\ seen[d].state \in Screenable /\ choice[d] \in Screened
<1> DEFINE e == d[1]
           t == Token(d)
<1>1. /\ d = <<e, 1>> /\ e \in Entries /\ At(e) = "cas" /\ Pending(e)
      /\ t \in Tokens /\ e.token = t /\ StageOf[e.kind] = Stage(d)
  BY DeliveredOnce, DeliveryParts DEF Quiet, Token
<1>2. DecidedAt(e)
  BY <1>1 DEF Quiet, Decided
<1>3. e.kind # "market_data" =>
        /\ InHand(e) /\ seen[d] = life[t] /\ choice[d] \in {Pass[StageOf[e.kind]], "REJECTED"}
        /\ life[t].state = From[StageOf[e.kind]]
  BY <1>1, <1>2, HeldInHand DEF DecidedAt, Quiet
<1>4. e.kind = "market_data" =>
        ~InHand(e) /\ seen[d].state \in Screenable /\ choice[d] \in Screened
  BY <1>1, <1>2 DEF DecidedAt, InHand
<1>5. e.kind \in {"market_data", "data_quality", "feature", "edge"}
  BY <1>1, HandStates
<1>6. e.kind # "market_data" => Transits(life[t], seen[d], choice[d])
  BY <1>3, <1>5, StageFacts DEF Transits, ValidTransitions, From, Pass, Stages
<1> QED BY <1>1, <1>3, <1>4, <1>5, <1>6

\* What a successful transition does, and leaves alone.
LEMMA TransitionMoves ==
  ASSUME Typed, Quiet, NEW d \in Deliveries, TransitionState(d), faults' = 0, faults = 0,
         Transits(life[Token(d)], seen[d], choice[d])
  PROVE  /\ life' = [life EXCEPT ![Token(d)] = Advanced(@, choice[d])]
         /\ life'[Token(d)].state = choice[d]
         /\ \A u \in Tokens : u # Token(d) => life'[u] = life[u]
         /\ posted' = posted
         /\ choice[d] = Pass[Stage(d)] =>
              pc'[d] = "emit" /\ choice'[d] = choice[d] /\ settled' = settled
         /\ choice[d] # Pass[Stage(d)] => pc'[d] = "idle" /\ settled' = settled \union {d[1]}
         /\ \A c \in Deliveries : c # d => pc'[c] = pc[c]
         /\ \A f \in Entries : f # d[1] => AsBefore(f) /\ HandAsBefore(f)
         /\ \A f \in Entries : f.token = Token(d) /\ InHand(f) => f = d[1]
<1> DEFINE e == d[1]
           t == Token(d)
           to == choice[d]
<1>0. pc[d] = "cas"
  BY DEF TransitionState
<1>1. d = <<e, 1>> /\ t \in Tokens /\ e \in Entries /\ e.token = t
  BY <1>0, TransitionDecided
<1>2. /\ pc \in [Deliveries -> PCs] /\ seen \in [Deliveries -> LifecycleRows]
      /\ choice \in [Deliveries -> Choices] /\ life \in [Tokens -> LifecycleRows]
  BY DEF Typed, TypeOK
<1>3. /\ life' = [life EXCEPT ![t] = Advanced(@, to)]
      /\ posted' = posted
      /\ IF to = Pass[Stage(d)]
         THEN Goto(d, "emit") /\ UNCHANGED <<seen, choice, settled>>
         ELSE Settle(d)
  BY DEF TransitionState
<1>4. Settle(d) => Forget({d}) /\ settled' = settled \union {e}
  BY DEF Settle
<1>5. life'[t].state = to /\ \A u \in Tokens : u # t => life'[u] = life[u]
  BY <1>1, <1>2, <1>3 DEF Advanced
<1>6. \A c \in Deliveries : c # d => pc'[c] = pc[c] /\ seen'[c] = seen[c] /\ choice'[c] = choice[c]
  BY <1>2, <1>3, <1>4 DEF Goto, Forget
<1>7. /\ to = Pass[Stage(d)] => pc'[d] = "emit" /\ choice'[d] = to /\ settled' = settled
      /\ to # Pass[Stage(d)] => pc'[d] = "idle" /\ settled' = settled \union {e}
  BY <1>2, <1>3, <1>4 DEF Goto, Forget
<1>8. \A f \in Entries : f # e => AsBefore(f) /\ HandAsBefore(f)
  BY <1>1, <1>3, <1>6, <1>7, OtherDeliveries, HandUntouched DEF AsBefore, Pending
<1>9. \A f \in Entries : f.token = t /\ InHand(f) => f = e
  <2>1. CASE e.kind = "market_data"
    <3>1. life[t].state \in Screenable
      BY <1>0, <2>1, TransitionDecided DEF Transits
    <3> QED BY <3>1, HandUnderWay DEF Quiet, Screenable, UnderWay
  <2>2. CASE e.kind # "market_data"
    BY <1>0, <1>1, <2>2, TransitionDecided DEF Quiet, OneHand
  <2> QED BY <2>1, <2>2
<1> QED BY <1>3, <1>5, <1>6, <1>7, <1>8, <1>9

LEMMA TransitionQuiet ==
  ASSUME Typed, Quiet, NEW d \in Deliveries, TransitionState(d), faults' = 0, faults = 0,
         Transits(life[Token(d)], seen[d], choice[d])
  PROVE  Quiet'
<1> DEFINE e == d[1]
           t == Token(d)
           to == choice[d]
<1>0. pc[d] = "cas"
  BY DEF TransitionState
<1>1. /\ d = <<e, 1>> /\ e \in Entries /\ At(e) = "cas" /\ Pending(e)
      /\ t \in Tokens /\ e.token = t /\ StageOf[e.kind] = Stage(d)
  BY <1>0, TransitionDecided
<1>2. /\ life'[t].state = to
      /\ \A u \in Tokens : u # t => life'[u] = life[u]
      /\ posted' = posted
      /\ to = Pass[Stage(d)] => pc'[d] = "emit" /\ choice'[d] = to /\ settled' = settled
      /\ to # Pass[Stage(d)] => pc'[d] = "idle" /\ settled' = settled \union {e}
      /\ \A c \in Deliveries : c # d => pc'[c] = pc[c]
      /\ \A f \in Entries : f # e => AsBefore(f) /\ HandAsBefore(f)
      /\ \A f \in Entries : f.token = t /\ InHand(f) => f = e
  BY TransitionMoves
<1>3. OneDelivery'
  BY <1>1, <1>2, OneDeliveryKept DEF Quiet, Pending
<1>4. OutputsFollow'
  BY <1>2, OutputsKept DEF Quiet
<1>5. Decided'
  <2>1. DecidedAt(e)'
    BY <1>1, <1>2 DEF DecidedAt, At
  <2>2. ASSUME NEW f \in Entries, f # e PROVE DecidedAt(f)'
    <3>1. DecidedAt(f) /\ AsBefore(f) /\ f.token \in Tokens
      BY <1>2, <2>2 DEF Quiet, Decided, Entries
    <3>2. At(f) = "cas" /\ f.kind # "market_data" => f.token # t
      <4> SUFFICES ASSUME At(f) = "cas", f.kind # "market_data", f.token = t PROVE FALSE
        OBVIOUS
      <4>1. Pending(f)
        BY FirstDelivery, DeliveredOnce DEF Quiet, At
      <4>2. InHand(f)
        BY <4>1, HeldInHand DEF Quiet
      <4> QED BY <1>2, <2>2, <4>2
    <3> QED BY <1>2, <3>1, <3>2, DecidedKept
  <2> QED BY <2>1, <2>2 DEF Decided
<1>6. InHand(e)' => life'[t].state = HandState(e)'
  BY <1>0, <1>1, <1>2, TransitionDecided DEF InHand, HandState, At, Pending
<1>7. life'[t].state \in UnderWay => InHand(e)'
  <2> SUFFICES ASSUME to \in UnderWay PROVE InHand(e)'
    BY <1>2
  <2>1. to = Pass[Stage(d)] /\ e.kind # "edge"
    BY <1>0, <1>1, TransitionDecided, StageFacts DEF UnderWay, Screened, Pass, Stages
  <2> QED BY <1>1, <1>2, <2>1 DEF InHand, At, Pending
<1>8. (HandsAgree /\ OneHand /\ NoneStranded)'
  <2>1. \A f \in Entries : f.token # t => HandAsBefore(f)
    BY <1>1, <1>2
  <2>2. \A f \in Entries : f.token = t /\ InHand(f)' => f = e
    BY <1>2 DEF HandAsBefore
  <2> QED BY <1>1, <1>2, <1>6, <1>7, <2>1, <2>2, HandsMoved
<1> QED BY <1>3, <1>4, <1>5, <1>8 DEF Quiet

\* Data quality lost the token to another event.
LEMMA LostQuiet ==
  ASSUME Typed, Quiet, NEW d \in Deliveries, TransitionState(d),
         ~Transits(life[Token(d)], seen[d], choice[d])
  PROVE  Quiet' /\ RunsKept
<1>1. pc[d] = "cas" /\ d[1].kind = "market_data"
  BY TransitionDecided DEF TransitionState
<1>2. /\ Forget({d}) /\ settled' \in {settled, settled \union {d[1]}}
      /\ UNCHANGED <<posted, life>>
  BY DEF TransitionState, Fail, bus
<1> QED BY <1>1, <1>2, LetGoQuiet

\* The output takes the token over from the event it is made of.
LEMMA OutputQuiet ==
  ASSUME Typed, Quiet, NEW d \in Deliveries, InsertOutput(d), faults' = 0, faults = 0
  PROVE  Quiet' /\ RunsKept
<1> DEFINE e == d[1]
           t == Token(d)
           o == Event(Output[Stage(d)], t, Run(d))
<1>1. /\ d = <<e, 1>> /\ e \in Entries /\ At(e) = "emit" /\ Pending(e)
      /\ pc[d] = "emit" /\ t \in Tokens /\ Run(d) \in Runs /\ e.token = t /\ e.run = Run(d)
      /\ StageOf[e.kind] = Stage(d)
      /\ Stage(d) \in Stages /\ e = Event(Input[Stage(d)], t, Run(d))
  BY DeliveredOnce, DeliveryParts, StageOfDelivery DEF Quiet, InsertOutput, Token, Run
<1>2. Forget({d}) /\ settled' = settled \union {e} /\ posted' = posted \union {o} /\ life' = life
  BY DEF InsertOutput, Settle, tables
<1>3. pc'[d] = "idle"
  BY <1>2 DEF Forget
<1>4. \A c \in Deliveries : c # d => pc'[c] = pc[c] /\ seen'[c] = seen[c] /\ choice'[c] = choice[c]
  BY <1>2 DEF Forget
<1>5. o \notin posted /\ o # e
  <2>1. o \in posted => e \in settled
    BY <1>1 DEF Quiet, OutputsFollow
  <2>2. o.kind # e.kind
    BY <1>1, StageFacts DEF Event, Output, Input, Stages
  <2> QED BY <1>1, <2>1, <2>2 DEF Pending
<1>6. o \notin settled
  BY <1>5 DEF Typed, TypeOK
<1>7. \A f \in Entries : f # e => AsBefore(f)
  BY <1>1, <1>4, OtherDeliveries DEF AsBefore
<1>8. \A f \in Entries : f # e /\ f # o => (Pending(f)' <=> Pending(f)) /\ HandAsBefore(f)
  BY <1>2, <1>7, HandUntouched DEF Pending
<1>9. ~InHand(e)' /\ At(e)' = "idle"
  BY <1>1, <1>2, <1>3 DEF InHand, Pending, At
<1>10. OneDelivery'
  BY <1>1, <1>2, <1>3, <1>4, OneDeliveryKept DEF Quiet
<1>11. OutputsFollow'
  <2> SUFFICES ASSUME NEW s \in Stages, NEW u \in Tokens, NEW r \in Runs,
                      Event(Output[s], u, r) \in posted'
               PROVE  Event(Input[s], u, r) \in settled'
    BY DEF OutputsFollow
  <2>1. CASE Event(Output[s], u, r) \in posted
    BY <1>2, <2>1 DEF Quiet, OutputsFollow
  <2>2. CASE Event(Output[s], u, r) = o
    <3>1. Output[s] = Output[Stage(d)] /\ u = t /\ r = Run(d)
      BY <2>2 DEF Event
    <3>2. s = Stage(d)
      BY <1>1, <3>1 DEF Output, Stages
    <3> QED BY <1>1, <1>2, <3>1, <3>2
  <2> QED BY <1>2, <2>1, <2>2
<1>12. Decided'
  BY <1>2, <1>7, <1>9, DecidedKept DEF Quiet, Decided, DecidedAt
<1>13. CASE e.kind = "edge"
  <2>1. o \notin Entries
    BY <1>1, <1>13, StageFacts DEF Event, Output, Stages, Entries
  <2>2. HandState(e)' = Pass["validation"] \/ HandState(e)' = From["validation"]
    BY <1>13, StageFacts DEF HandState
  <2>3. \A f \in Entries : f # e => HandAsBefore(f)
    BY <1>8, <2>1
  <2>4. ~InHand(e)
    BY <1>1, <1>13 DEF InHand
  <2>5. HandsAgree' /\ OneHand' /\ NoneStranded'
    BY <1>2, <1>9, <2>3, <2>4 DEF Quiet, HandsAgree, OneHand, NoneStranded, HandAsBefore
  <2>6. RunsKept
    BY <1>2, <2>3, <2>4 DEF RunsKept, HandAsBefore
  <2> QED BY <1>10, <1>11, <1>12, <2>5, <2>6 DEF Quiet
<1>14. CASE e.kind # "edge"
  <2>1. InHand(e) /\ life[t].state = Pass[Stage(d)]
    BY <1>1, <1>14 DEF Quiet, HandsAgree, InHand, HandState
  <2>2. /\ o \in Entries /\ o.token = t /\ o.kind # "market_data"
        /\ From[StageOf[o.kind]] = Pass[Stage(d)]
    BY <1>1, <1>14, HandStates, StageFacts DEF Event, Output, Stages, Entries, From, Pass, Input
  <2>3. At(o) = "idle" /\ At(o)' = "idle"
    <3>1. <<o, 1>> \in Deliveries
      BY <2>2, FirstDelivery
    <3>2. pc[<<o, 1>>] = "idle"
      BY <1>5, <3>1 DEF Typed
    <3> QED BY <1>5, <1>7, <2>2, <3>2 DEF At, AsBefore
  <2>4. InHand(o)' /\ HandState(o)' = Pass[Stage(d)]
    BY <1>2, <1>5, <1>6, <2>2, <2>3 DEF InHand, Pending, HandState
  <2>5. \A f \in Entries : f.token # t => HandAsBefore(f)
    BY <1>1, <1>8, <2>2
  <2>6. \A f \in Entries : f.token = t /\ InHand(f)' => f = o
    BY <1>1, <1>8, <1>9, <2>1 DEF Quiet, OneHand, HandAsBefore
  <2>7. (HandsAgree /\ OneHand /\ NoneStranded)'
    BY <1>1, <1>2, <2>1, <2>2, <2>4, <2>5, <2>6, HandsMoved
  <2>8. RunsKept
    <3> SUFFICES ASSUME NEW f \in Entries, InHand(f)
                 PROVE  \E g \in Entries : InHand(g)' /\ g.token = f.token /\ g.run = f.run
      BY <1>2 DEF RunsKept
    <3>1. f # o
      BY <1>5 DEF InHand, Pending
    <3>2. CASE f = e
      BY <1>1, <2>2, <2>4, <3>2 DEF Event
    <3>3. CASE f # e
      BY <1>8, <3>1, <3>3 DEF HandAsBefore
    <3> QED BY <3>2, <3>3
  <2> QED BY <1>10, <1>11, <1>12, <2>7, <2>8 DEF Quiet
<1> QED BY <1>13, <1>14

\* A worker claims an event that nobody works on.
LEMMA DeliverQuiet ==
  ASSUME Typed, Quiet, NEW d \in Deliveries, Deliver(d), faults' = 0, faults = 0
  PROVE  Quiet' /\ RunsKept
<1> DEFINE e == d[1]
<1>1. /\ pc[d] = "idle" /\ Pending(e) /\ e \in Entries
      /\ {h \in Active : h[1] = e} = {} /\ d[2] = Cardinality({h \in Active : h[1] = e}) + 1
      /\ UNCHANGED <<life, posted, settled, seen, choice>> /\ Goto(d, "start")
  BY FunnelAssumption, DeliveryParts DEF Deliver, Pending, tables, bus, Typed, TypeOK
<1>2. d[2] = 1
  BY <1>1, FS_EmptySet
<1>3. d = <<e, 1>>
  BY <1>2, DeliveryParts
<1>4. /\ pc'[d] = "start" /\ \A c \in Deliveries : c # d => pc'[c] = pc[c]
      /\ seen' = seen /\ choice' = choice
  BY <1>1 DEF Goto, Typed, TypeOK
<1>5. \A f \in Entries : f # e => AsBefore(f)
  BY <1>3, <1>4, OtherDeliveries DEF AsBefore
<1>6. \A f \in Entries : Pending(f)' <=> Pending(f)
  BY <1>1 DEF Pending
<1>7. At(e) = "idle" /\ At(e)' = "start"
  BY <1>1, <1>3, <1>4 DEF At
<1>8. HandAsBefore(e)
  BY <1>1, <1>6, <1>7 DEF HandAsBefore, InHand, HandState
<1>9. \A f \in Entries : HandAsBefore(f)
  BY <1>5, <1>6, <1>8, HandUntouched
<1>10. OneDelivery'
  BY <1>1, <1>3, <1>4, OneDeliveryKept DEF Quiet, Pending
<1>11. OutputsFollow'
  BY <1>1, OutputsKept DEF Quiet
<1>12. Decided'
  BY <1>1, <1>5, <1>7, DecidedKept DEF Quiet, Decided, DecidedAt
<1> QED BY <1>1, <1>9, <1>10, <1>11, <1>12, HandsKept DEF Quiet

\* Neither a delivery nor a token moves, and no event of a stage behind data
\* quality comes or goes.
LEMMA AsideQuiet ==
  ASSUME Typed, Quiet, UNCHANGED <<life, pc, seen, choice>>,
         posted \subseteq posted', settled \subseteq settled',
         \A x \in posted' \ posted : x.kind \in Models \union {"market_data"},
         \A x \in settled' \ settled : x.kind \in Models
  PROVE  Quiet' /\ RunsKept
<1>1. \A f \in Entries : AsBefore(f)
  BY DEF AsBefore
<1>2. Models \intersect Inputs = {}
  BY FunnelAssumption, StageFacts
<1>3. \A f \in Entries : f.kind # "market_data" => (Pending(f)' <=> Pending(f))
  BY <1>2 DEF Pending, Entries
<1>4. \A f \in Entries : f.kind = "market_data" /\ At(f) = "emit" => (Pending(f)' <=> Pending(f))
  <2> SUFFICES ASSUME NEW f \in Entries, At(f) = "emit" PROVE Pending(f) /\ Pending(f)'
    OBVIOUS
  <2>1. Pending(f)
    BY FirstDelivery, DeliveredOnce DEF Quiet, At
  <2> QED BY <1>2, <2>1 DEF Pending, Entries
<1>5. \A f \in Entries : HandAsBefore(f)
  BY <1>1, <1>3, <1>4 DEF HandAsBefore, InHand, HandState, At, AsBefore
<1>6. OneDelivery'
  BY <1>2 DEF Quiet, OneDelivery, Deliveries
<1>7. OutputsFollow'
  BY FunnelAssumption, OutputsKept DEF Quiet
<1>8. Decided'
  BY <1>1, DecidedKept DEF Quiet, Decided
<1> QED BY <1>5, <1>6, <1>7, <1>8, HandsKept DEF Quiet

\* Nobody has a validated token.
LEMMA SelectionQuiet ==
  ASSUME Typed, Quiet, NEW t \in Tokens, Selection(t)
  PROVE  Quiet'
<1>1. PICK to \in {"SELECTED", "REJECTED"} :
        /\ life[t].state = "VALIDATED" /\ life' = [life EXCEPT ![t] = Advanced(@, to)]
        /\ UNCHANGED <<posted, settled, dead, pc, seen, choice>>
  BY DEF Selection, bus, memory
<1>2. /\ life'[t].state = to /\ to \notin UnderWay
      /\ \A u \in Tokens : u # t => life'[u] = life[u]
  BY <1>1 DEF Typed, TypeOK, Advanced, UnderWay
<1>3. \A f \in Entries : f.token = t => ~InHand(f)
  BY <1>1, HandUnderWay DEF Quiet, UnderWay
<1>4. \A f \in Entries : AsBefore(f) /\ (Pending(f)' <=> Pending(f)) /\ HandAsBefore(f)
  BY <1>1, HandUntouched DEF AsBefore, Pending
<1>5. OneDelivery' /\ OutputsFollow'
  BY <1>1, OutputsKept DEF Quiet, OneDelivery
<1>6. Decided'
  <2> SUFFICES ASSUME NEW f \in Entries PROVE DecidedAt(f)'
    BY DEF Decided
  <2>1. DecidedAt(f) /\ AsBefore(f) /\ f.token \in Tokens
    BY <1>4 DEF Quiet, Decided, Entries
  <2>2. At(f) = "cas" /\ f.kind # "market_data" => f.token # t
    <3> SUFFICES ASSUME At(f) = "cas", f.kind # "market_data", f.token = t PROVE FALSE
      OBVIOUS
    <3>1. Pending(f)
      BY FirstDelivery, DeliveredOnce DEF Quiet, At
    <3> QED BY <1>3, <3>1, HeldInHand DEF Quiet
  <2> QED BY <1>2, <2>1, <2>2, DecidedKept
<1>7. (HandsAgree /\ OneHand /\ NoneStranded)'
  <2>1. \A f \in Entries : f.token = t => ~InHand(f)'
    BY <1>3, <1>4 DEF HandAsBefore
  <2>2. \A f \in Entries : f.token \in Tokens
    BY DEF Entries
  <2> QED BY <1>2, <1>4, <2>1, <2>2 DEF Quiet, HandsAgree, OneHand, NoneStranded, HandAsBefore
<1> QED BY <1>5, <1>6, <1>7 DEF Quiet

-------------------------------------------------------------------------------
(* As long as nothing fails: every step. *)

\* A token moves in the hands of a worker.
Moves(d) == TransitionState(d) /\ Transits(life[Token(d)], seen[d], choice[d])

LEMMA SettleQuietly ==
  ASSUME NEW d \in Deliveries, Settle(d), faults = 0, faults' = 0
  PROVE  Forget({d}) /\ settled' = settled \union {d[1]}
BY DEF Settle

LEMMA QuietNext ==
  ASSUME Typed, Quiet, [Next]_vars, faults = 0, faults' = 0
  PROVE  /\ Quiet'
         /\ \/ RunsKept
            \/ \E d \in Deliveries : Moves(d)
            \/ \E t \in Tokens : Selection(t)
<1>1. ASSUME NEW d \in Deliveries, Deliver(d) PROVE Quiet' /\ RunsKept
  BY <1>1, DeliverQuiet
<1>2. ASSUME NEW d \in Deliveries, Assess(d) PROVE Quiet' /\ RunsKept
  <2>1. pc[d] = "start" /\ d[1].kind = "market_data" /\ UNCHANGED <<life, posted>>
    <3>1. d[1] \in Entries /\ StageOf[d[1].kind] = "dq"
      BY <1>2, DeliveryParts DEF Assess
    <3> QED BY <1>2, <3>1, HandStates, StageFacts DEF Assess
  <2>2. PICK to \in Screened :
          \/ Proceed(d, "read", life[Token(d)], to) /\ life[Token(d)].state \in Screenable
          \/ Settle(d)
    BY <1>2 DEF Assess, Screened, Screenable
  <2>3. CASE Proceed(d, "read", life[Token(d)], to) /\ life[Token(d)].state \in Screenable
    BY <2>1, <2>3, ProceedQuiet
  <2>4. CASE Settle(d)
    BY <2>1, <2>4, SettleQuietly, LetGoQuiet
  <2> QED BY <2>2, <2>3, <2>4
<1>3. ASSUME NEW d \in Deliveries, ReadAgain(d) PROVE Quiet' /\ RunsKept
  <2>1. /\ pc[d] = "read" /\ UNCHANGED <<life, posted>>
        /\ d[1].kind = "market_data"
        /\ seen[d].state \in Screenable /\ choice[d] \in Screened
    <3>1. pc[d] = "read" /\ UNCHANGED <<life, posted>>
      BY <1>3 DEF ReadAgain, tables
    <3>2. d = <<d[1], 1>> /\ d[1] \in Entries /\ At(d[1]) = "read"
      BY <3>1, DeliveredOnce DEF Quiet
    <3> QED BY <3>1, <3>2 DEF Quiet, Decided, DecidedAt
  <2>2. \/ Proceed(d, "cas", life[Token(d)], choice[d]) /\ life[Token(d)].state = seen[d].state
        \/ Settle(d)
    BY <1>3 DEF ReadAgain, ReadLifecycle
  <2>3. CASE Proceed(d, "cas", life[Token(d)], choice[d]) /\ life[Token(d)].state = seen[d].state
    BY <2>1, <2>3, ProceedQuiet
  <2>4. CASE Settle(d)
    BY <2>1, <2>4, SettleQuietly, LetGoQuiet
  <2> QED BY <2>2, <2>3, <2>4
\* The first statement of a stage behind data quality.
<1>4. ASSUME NEW d \in Deliveries, pc[d] = "start", Stage(d) \in {"features", "edge", "validation"},
             NEW to \in {Pass[Stage(d)], "REJECTED"}, ReadLifecycle(d, From[Stage(d)], to),
             life' = life, posted \subseteq posted', \A x \in posted' \ posted : x.kind \in Models
      PROVE  Quiet' /\ RunsKept
  <2>1. d[1].kind # "market_data"
    BY <1>4, StageFacts DEF Stage
  <2>2. Proceed(d, "cas", life[Token(d)], to)
    BY <1>4, <2>1, ReadProceeds
  <2> QED BY <1>4, <2>1, <2>2, ProceedQuiet
<1>5. ASSUME NEW d \in Deliveries, Extract(d) PROVE Quiet' /\ RunsKept
  <2>1. /\ pc[d] = "start" /\ Stage(d) = "features" /\ life' = life
        /\ posted \subseteq posted' /\ \A x \in posted' \ posted : x.kind \in Models
        /\ ReadLifecycle(d, From["features"], Pass["features"])
    BY <1>5 DEF Extract, tables, Event, From, Pass, Stages
  <2> QED BY <1>4, <2>1
<1>6. ASSUME NEW d \in Deliveries, DetectEdge(d) PROVE Quiet' /\ RunsKept
  <2>1. /\ pc[d] = "start" /\ Stage(d) = "edge" /\ UNCHANGED <<life, posted>>
        /\ \E to \in {Pass["edge"], "REJECTED"} : ReadLifecycle(d, From["edge"], to)
    BY <1>6 DEF DetectEdge, tables, From, Pass, Stages
  <2> QED BY <1>4, <2>1
<1>7. ASSUME NEW d \in Deliveries, Validate(d) PROVE Quiet' /\ RunsKept
  <2>1. /\ pc[d] = "start" /\ Stage(d) = "validation" /\ UNCHANGED <<life, posted>>
        /\ \E to \in {Pass["validation"], "REJECTED"} : ReadLifecycle(d, From["validation"], to)
    BY <1>7 DEF Validate, tables, From, Pass, Stages
  <2> QED BY <1>4, <2>1
<1>8. ASSUME NEW d \in Deliveries, Poll(d) PROVE Quiet' /\ RunsKept
  BY <1>8, AsideQuiet DEF Poll, tables, bus
<1>9. ASSUME NEW d \in Deliveries, TransitionState(d) PROVE Quiet' /\ (RunsKept \/ Moves(d))
  BY <1>9, TransitionQuiet, LostQuiet DEF Moves
<1>10. ASSUME NEW d \in Deliveries, InsertOutput(d) PROVE Quiet' /\ RunsKept
  BY <1>10, OutputQuiet
<1>11. ASSUME NEW d \in Deliveries, StatementFails(d) PROVE FALSE
  BY <1>11 DEF StatementFails
<1>12. ASSUME NEW D \in SUBSET Active, Crash(D) PROVE FALSE
  BY <1>12 DEF Crash
<1>13. ASSUME NEW m \in Models, NEW t \in Tokens, NEW r \in Runs, Estimate(m, t, r)
       PROVE  Quiet' /\ RunsKept
  <2>1. /\ UNCHANGED <<life, posted, pc, seen, choice>>
        /\ settled \subseteq settled' /\ \A x \in settled' \ settled : x.kind \in Models
    BY <1>13 DEF Estimate, memory, Event
  <2> QED BY <2>1, AsideQuiet
<1>14. ASSUME NEW t \in Tokens, Selection(t) PROVE Quiet'
  BY <1>14, SelectionQuiet
<1>15. ASSUME NEW t \in Tokens, NEW r \in Runs, Reenter(t, r) PROVE Quiet' /\ RunsKept
  <2>1. /\ UNCHANGED <<life, settled, pc, seen, choice>>
        /\ posted \subseteq posted' /\ \A x \in posted' \ posted : x.kind = "market_data"
    BY <1>15 DEF Reenter, tables, memory, Event
  <2> QED BY <2>1, AsideQuiet
<1>16. CASE UNCHANGED vars
  BY <1>16, AsideQuiet DEF vars, tables, bus, memory
<1> QED
  BY <1>1, <1>2, <1>3, <1>5, <1>6, <1>7, <1>8, <1>9, <1>10, <1>11, <1>12, <1>13, <1>14,
     <1>15, <1>16 DEF Next, Work

\* Faults are counted, never forgotten.
LEMMA FaultsGrow == Typed /\ Typed' /\ [Next]_vars /\ faults' = 0 => faults = 0
<1> SUFFICES ASSUME Typed, Typed', [Next]_vars PROVE faults' = faults \/ faults' = faults + 1
  BY FunnelAssumption DEF Typed, TypeOK
<1>1. ASSUME NEW d \in Deliveries, Work(d) PROVE faults' = faults \/ faults' = faults + 1
  BY <1>1 DEF Work, Deliver, Assess, ReadAgain, Extract, DetectEdge, Poll, Validate,
     TransitionState, InsertOutput, ReadLifecycle, Proceed, Settle
<1> QED BY <1>1 DEF Next, StatementFails, Crash, Estimate, Selection, Reenter, vars

LEMMA FunnelInvNext == FunnelInv /\ [Next]_vars => FunnelInv'
BY TypedNext, FaultsGrow, QuietNext DEF FunnelInv

LEMMA FunnelInvInvariant == Spec => []FunnelInv
<1>1. Init => FunnelInv
  BY TypedInit, QuietInit DEF FunnelInv
<1> QED BY <1>1, FunnelInvNext, PTL DEF Spec

-------------------------------------------------------------------------------
(* One run has a token. *)

\* The run of the event that has a token is the one that carries it.
LEMMA HandCarries ==
  Typed /\ Quiet =>
    \A e \in Entries : InHand(e) => \A q \in Runs : Carries(e.token, q) <=> q = e.run
<1> SUFFICES ASSUME Typed, Quiet, NEW e \in Entries, InHand(e), NEW q \in Runs
             PROVE  Carries(e.token, q) <=> q = e.run
  OBVIOUS
<1> DEFINE t == e.token
<1>1. life[t].state = HandState(e) /\ life[t].state \in UnderWay /\ t \in Tokens /\ e.run \in Runs
  BY HandUnderWay DEF Quiet, Entries
<1>2. ASSUME NEW d \in Deliveries, pc[d] = "emit", Token(d) = t, Run(d) = q,
             Pass[Stage(d)] = life[t].state
      PROVE  q = e.run
  <2>1. /\ d[1] \in Entries /\ At(d[1]) = "emit" /\ Pending(d[1])
        /\ Stage(d) = StageOf[d[1].kind] /\ d[1].token = t /\ d[1].run = q
    BY <1>2, DeliveredOnce, DeliveryParts DEF Quiet, Token, Run
  <2>2. d[1].kind # "edge"
    BY <1>1, <1>2, <2>1, StageFacts DEF UnderWay, Pass, Stages
  <2> QED BY <2>1, <2>2 DEF Quiet, OneHand, InHand
<1>3. ASSUME NEW s \in Stages \ {"dq"}, Event(Input[s], t, q) \in posted \ settled,
             \A d \in Deliveries : d[1] = Event(Input[s], t, q) => pc[d] # "emit"
      PROVE  q = e.run
  <2> DEFINE f == Event(Input[s], t, q)
  <2>1. f \in Entries /\ f.kind # "market_data" /\ f.token = t /\ f.run = q /\ Pending(f)
    BY <1>1, <1>3, StageFacts DEF Event, Entries, Input, Stages, Pending
  <2>2. At(f) # "emit"
    BY <1>3, <2>1, FirstDelivery DEF At
  <2> QED BY <2>1, <2>2 DEF Quiet, OneHand, InHand
<1>4. ASSUME q = e.run PROVE Carries(t, q)
  <2>1. CASE At(e) = "emit"
    <3>1. <<e, 1>> \in Deliveries /\ pc[<<e, 1>>] = "emit"
      BY <2>1, FirstDelivery DEF At
    <3>2. Pass[Stage(<<e, 1>>)] = life[t].state
      BY <1>1, <2>1 DEF HandState, Stage
    <3> QED BY <1>4, <3>1, <3>2 DEF Carries, Token, Run
  <2>2. CASE At(e) # "emit"
    <3> DEFINE s == StageOf[e.kind]
    <3>1. s \in Stages \ {"dq"} /\ Input[s] = e.kind
      BY <2>2, HandStates, StageFacts DEF InHand, Stages, Input
    <3>2. From[s] = life[t].state
      BY <1>1, <2>2 DEF HandState
    <3>3. Event(Input[s], t, q) = e
      BY <1>4, <3>1 DEF Event, Entries
    <3>4. \A d \in Deliveries : d[1] = e => pc[d] # "emit"
      BY <2>2, DeliveredOnce DEF Quiet
    <3> QED BY <3>1, <3>2, <3>3, <3>4 DEF Carries, InHand, Pending
  <2> QED BY <2>1, <2>2
<1> QED BY <1>2, <1>3, <1>4 DEF Carries

LEMMA QuietOneRun == FunnelInv => OneRunCarries
<1> SUFFICES ASSUME Typed, Quiet, NEW t \in Tokens, life[t].state \in UnderWay
             PROVE  \E r \in Runs : \A q \in Runs : Carries(t, q) <=> q = r
  BY DEF FunnelInv, OneRunCarries
<1>1. PICK e \in Entries : e.token = t /\ InHand(e)
  BY DEF Quiet, NoneStranded
<1>2. e.run \in Runs
  BY DEF Entries
<1> QED BY <1>1, <1>2, HandCarries

\* Without a fault exactly one run has a token between data quality and
\* validation: no event of another run finds it or takes it over.
THEOREM OneRunCarriesAToken == Spec => []OneRunCarries
BY FunnelInvInvariant, QuietOneRun, PTL

-------------------------------------------------------------------------------
(* Refinement. *)

\* The holder of Screening is the run of the event that has the token.
HolderOfHand == \A e \in Entries : InHand(e) => Holder(e.token) = e.run

LEMMA HandHolds == Typed /\ Quiet => HolderOfHand
<1> SUFFICES ASSUME Typed, Quiet, NEW e \in Entries, InHand(e) PROVE Holder(e.token) = e.run
  BY DEF HolderOfHand
<1>1. life[e.token].state \in UnderWay
  BY HandUnderWay DEF Quiet
<1>2. e.run \in Runs /\ \A q \in Runs : Carries(e.token, q) <=> q = e.run
  BY HandCarries DEF Entries
<1>3. (CHOOSE r \in Runs : Carries(e.token, r)) = e.run
  BY <1>2
<1> QED BY <1>1, <1>3 DEF Holder

LEMMA HandHoldsNext == Typed' /\ Quiet' => HolderOfHand'
BY HandHolds, PTL

LEMMA HolderIsRun ==
  ASSUME NEW e \in Entries
  PROVE  e.token \in Tokens /\ e.run \in Runs /\ e.run # NoRun
BY FunnelAssumption DEF Entries

\* A token that does not move keeps its holder, if the run that has it does.
LEMMA HolderKept ==
  ASSUME Quiet, HolderOfHand, HolderOfHand', NEW u \in Tokens, life'[u] = life[u],
         \A e \in Entries : e.token = u /\ InHand(e) =>
           \E f \in Entries : InHand(f)' /\ f.token = u /\ f.run = e.run
  PROVE  Holder(u)' = Holder(u)
<1>1. CASE life[u].state \notin UnderWay
  BY <1>1 DEF Holder
<1>2. CASE life[u].state \in UnderWay
  <2>1. PICK e \in Entries : e.token = u /\ InHand(e)
    BY <1>2 DEF Quiet, NoneStranded
  <2>2. PICK f \in Entries : InHand(f)' /\ f.token = u /\ f.run = e.run
    BY <2>1
  <2> QED BY <2>1, <2>2 DEF HolderOfHand
<1> QED BY <1>1, <1>2

Holders == [t \in Tokens |-> Holder(t)]

\* A transition is a step of the run that has the token, or of nobody.
LEMMA MoveScreens ==
  ASSUME Typed, Quiet, HolderOfHand, HolderOfHand', NEW d \in Deliveries, Moves(d),
         faults = 0, faults' = 0
  PROVE  Abstract!Next
<1> DEFINE e == d[1]
           t == Token(d)
           to == choice[d]
<1>0. pc[d] = "cas" /\ Transits(life[t], seen[d], to)
  BY DEF Moves, TransitionState
<1>1. /\ d = <<e, 1>> /\ e \in Entries /\ At(e) = "cas" /\ Pending(e)
      /\ t \in Tokens /\ e.token = t /\ StageOf[e.kind] = Stage(d)
  BY <1>0, TransitionDecided
<1>2. /\ life' = [life EXCEPT ![t] = Advanced(@, to)]
      /\ life'[t].state = to
      /\ \A u \in Tokens : u # t => life'[u] = life[u]
      /\ posted' = posted
      /\ to = Pass[Stage(d)] => pc'[d] = "emit" /\ settled' = settled
      /\ \A f \in Entries : f # e => HandAsBefore(f)
  BY <1>0, TransitionMoves DEF Moves
<1>3. <<life[t].state, to>> \in ValidTransitions
  BY <1>0 DEF Transits
<1>4. \A u \in Tokens : u # t => Holder(u)' = Holder(u)
  <2> SUFFICES ASSUME NEW u \in Tokens, u # t PROVE Holder(u)' = Holder(u)
    OBVIOUS
  <2>1. \A f \in Entries : f.token = u /\ InHand(f) => InHand(f)'
    BY <1>1, <1>2 DEF HandAsBefore
  <2> QED BY <1>2, <2>1, HolderKept
<1>5. to = Pass[Stage(d)] /\ e.kind # "edge" => Holder(t)' = e.run
  BY <1>1, <1>2 DEF HolderOfHand, InHand, At, Pending
<1>6. to \notin UnderWay => Holder(t)' = NoRun
  BY <1>2 DEF Holder
<1>7. e.run \in Runs /\ e.run # NoRun
  BY <1>1, HolderIsRun
<1>8. Abstract!Moves(t, to)
  BY <1>2, <1>3
     DEF Abstract!Moves, Abstract!ValidTransitions, ValidTransitions, Abstract!Advanced, Advanced
<1>9. /\ Holders[t] = Holder(t)
      /\ \A r : Holder(t)' = r => Holders' = [Holders EXCEPT ![t] = r]
      /\ Holder(t)' = Holder(t) => Holders' = Holders
  BY <1>1, <1>4 DEF Holders
<1>10. CASE e.kind = "market_data"
  <2>1. Holder(t) = NoRun
    BY <1>0, <1>10, TransitionDecided DEF Transits, Screenable, UnderWay, Holder
  <2>2. to \in Screened
    BY <1>0, <1>10, TransitionDecided
  <2>3. CASE to = "DQ_PASSED"
    <3>1. Pass[Stage(d)] = "DQ_PASSED"
      BY <1>1, <1>10, StageFacts DEF Pass, Stages
    <3>2. Abstract!Begin(t, e.run)
      BY <1>5, <1>8, <1>9, <1>10, <2>1, <2>3, <3>1 DEF Abstract!Begin, Holders
    <3> QED BY <1>1, <1>7, <3>2 DEF Abstract!Next
  <2>4. CASE to # "DQ_PASSED"
    <3>1. to \in {"REJECTED", "DQ_SKIPPED"}
      BY <2>2, <2>4 DEF Screened
    <3>2. to \in LifecycleStates \ UnderWay
      BY <3>1 DEF LifecycleStates, UnderWay
    <3>3. Abstract!Outside(t)
      BY <1>6, <1>8, <1>9, <2>1, <3>2
         DEF Abstract!Outside, Abstract!UnderWay, UnderWay,
             Abstract!LifecycleStates, LifecycleStates, Holders
    <3> QED BY <1>1, <3>3 DEF Abstract!Next
  <2> QED BY <2>3, <2>4
<1>11. CASE e.kind # "market_data"
  <2>1. Holder(t) = e.run /\ to \in {Pass[Stage(d)], "REJECTED"}
    BY <1>0, <1>1, <1>11, TransitionDecided DEF HolderOfHand
  <2>2. CASE to \in UnderWay
    <3>1. to = Pass[Stage(d)] /\ e.kind # "edge"
      BY <1>1, <2>1, <2>2, StageFacts DEF UnderWay, Pass, Stages
    <3>2. Abstract!Pass(t)
      BY <1>5, <1>7, <1>8, <1>9, <2>1, <2>2, <3>1
         DEF Abstract!Pass, Abstract!UnderWay, UnderWay, Holders
    <3> QED BY <1>1, <3>2 DEF Abstract!Next
  <2>3. CASE to \notin UnderWay
    <3>1. to \in {"REJECTED", "VALIDATED"}
      BY <1>0, <1>1, <1>11, <2>1, <2>3, TransitionDecided, StageFacts DEF UnderWay, Pass, Stages
    <3>2. Abstract!Conclude(t)
      BY <1>6, <1>7, <1>8, <1>9, <2>1, <2>3, <3>1 DEF Abstract!Conclude, Holders
    <3> QED BY <1>1, <3>2 DEF Abstract!Next
  <2> QED BY <2>2, <2>3
<1> QED BY <1>10, <1>11

LEMMA SelectionScreens ==
  ASSUME Typed, Quiet, HolderOfHand, HolderOfHand', NEW t \in Tokens, Selection(t)
  PROVE  Abstract!Next
<1>1. PICK to \in {"SELECTED", "REJECTED"} :
        /\ life[t].state = "VALIDATED" /\ life' = [life EXCEPT ![t] = Advanced(@, to)]
        /\ UNCHANGED <<posted, settled, pc, seen, choice>>
  BY DEF Selection, bus, memory
<1>2. /\ life'[t].state = to /\ to \in LifecycleStates \ UnderWay
      /\ \A u \in Tokens : u # t => life'[u] = life[u]
      /\ <<life[t].state, to>> \in ValidTransitions
  BY <1>1 DEF Typed, TypeOK, Advanced, UnderWay, LifecycleStates, ValidTransitions
<1>3. \A f \in Entries : InHand(f)' <=> InHand(f)
  BY <1>1 DEF InHand, Pending, At
<1>4. \A u \in Tokens : u # t => Holder(u)' = Holder(u)
  BY <1>2, <1>3, HolderKept
<1>5. Holder(t) = NoRun /\ Holder(t)' = NoRun
  BY <1>1, <1>2 DEF Holder, UnderWay
<1>6. Holders[t] = NoRun /\ Holders' = Holders
  BY <1>4, <1>5 DEF Holders
<1>7. Abstract!Moves(t, life'[t].state)
  BY <1>1, <1>2
     DEF Abstract!Moves, Abstract!ValidTransitions, ValidTransitions, Abstract!Advanced, Advanced
<1>8. Abstract!Outside(t)
  BY <1>2, <1>6, <1>7
     DEF Abstract!Outside, Abstract!UnderWay, UnderWay,
         Abstract!LifecycleStates, LifecycleStates, Holders
<1> QED BY <1>8 DEF Abstract!Next

LEMMA StepScreens ==
  FunnelInv /\ FunnelInv' /\ [Next]_vars => [faults' = 0 => Abstract!Next]_<<life, Holders>>
<1> SUFFICES ASSUME FunnelInv, FunnelInv', [Next]_vars, faults' = 0
             PROVE  Abstract!Next \/ UNCHANGED <<life, Holders>>
  OBVIOUS
<1>1. Typed /\ Quiet /\ Typed' /\ Quiet' /\ faults = 0
  BY FaultsGrow DEF FunnelInv
<1>2. HolderOfHand /\ HolderOfHand'
  BY <1>1, HandHolds, HandHoldsNext
<1>3. CASE RunsKept
  <2>1. \A u \in Tokens : Holder(u)' = Holder(u)
    <3> SUFFICES ASSUME NEW u \in Tokens PROVE Holder(u)' = Holder(u)
      OBVIOUS
    <3>1. life'[u] = life[u]
      BY <1>3 DEF RunsKept
    <3>2. \A e \in Entries : e.token = u /\ InHand(e) =>
            \E f \in Entries : InHand(f)' /\ f.token = u /\ f.run = e.run
      BY <1>3 DEF RunsKept
    <3> QED BY <1>1, <1>2, <3>1, <3>2, HolderKept
  <2> QED BY <1>3, <2>1 DEF RunsKept, Holders
<1>4. CASE \E d \in Deliveries : Moves(d)
  BY <1>1, <1>2, <1>4, MoveScreens
<1>5. CASE \E t \in Tokens : Selection(t)
  BY <1>1, <1>2, <1>5, SelectionScreens
<1> QED BY <1>1, <1>3, <1>4, <1>5, QuietNext

\* The stages implement Screening as long as nothing fails: a run begins with a
\* token nobody has, takes it through the stages alone and ends with a verdict.
THEOREM FunnelImplementsScreening == Spec => ImplementsScreening
<1>1. Init => Abstract!Init
  <2> SUFFICES ASSUME Init PROVE Abstract!Init
    OBVIOUS
  <2>1. \A t \in Tokens : Holder(t) = NoRun
    BY DEF Init, DetectedRow, Holder, UnderWay
  <2> QED BY <2>1 DEF Init, DetectedRow, Abstract!Init
<1>2. FunnelInv /\ FunnelInv' /\ [Next]_vars =>
        [faults' = 0 => Abstract!Next]_<<life, [t \in Tokens |-> Holder(t)]>>
  BY StepScreens DEF Holders
<1> QED BY <1>1, <1>2, FunnelInvInvariant, PTL DEF Spec, ImplementsScreening
===============================================================================
