----------------------------- MODULE TradeProofs -----------------------------
(***************************************************************************)
(* Safety of the trade path, for any number of trades, workers, pollers,   *)
(* exit reasons and faults.                                                *)
(*                                                                         *)
(* The argument has three layers.  Shape says what a process holds at each *)
(* statement.  Gate says that the worker which won ClaimExecution is alone *)
(* with its trade until it posts the result, and is what makes submission  *)
(* and result unique.  Book relates the positions table to the bus and to  *)
(* the lifecycle.  Each layer is preserved by a step given the ones below. *)
(***************************************************************************)
EXTENDS Trade, TLAPS

-------------------------------------------------------------------------------
(* Shape: what a process holds at each statement. *)

\* The parts of TypeOK: the tables, the bus, the processes.
TableTypes ==
  /\ life \in [Trades -> LifecycleRows]
  /\ exec \in [Trades -> {"none", "reserved"} \union Outcomes]
  /\ sent \in [Trades -> Nat]
  /\ rows \in [Trades -> SUBSET ({"open", "failed"} \union ExitTags)]

BusTypes ==
  /\ posted \subseteq Events
  /\ settled \subseteq posted
  /\ dead \subseteq settled

ProcTypes ==
  /\ pc \in [Procs -> PCs]
  /\ job \in [Procs -> Events \union {NoEvent}]
  /\ out \in [Procs -> Events \union {NoEvent}]
  /\ seen \in [Procs -> LifecycleRows]
  /\ list \in [Procs -> SUBSET Trades]

\* The output in memory is the one the stage of the held event derives.
Carries(w) ==
  /\ out[w] \in Events
  /\ out[w].trade = job[w].trade
  /\ \/ job[w].kind = "alloc" /\ out[w].kind = "result"
     \/ /\ job[w].kind = "result"
        /\ out[w].kind = "opened"
        /\ out[w].tag = OpenStatus(job[w].tag)

WorkerShape(w) ==
  /\ pc[w] # "poll"
  /\ pc[w] # "idle" => job[w] \in posted
  /\ pc[w] \in {"claim", "lookup", "gate", "execute", "record"} => job[w].kind = "alloc"
  /\ pc[w] = "upsert" => job[w].kind = "result"
  /\ pc[w] \in {"record", "read", "cas"} => Carries(w)
  /\ pc[w] = "emit" => Carries(w) \/ (job[w].kind = "alloc" /\ out[w] = job[w])
  /\ list[w] = {}

PollShape(p) ==
  /\ pc[p] \in {"idle", "poll", "read", "cas", "emit"}
  /\ pc[p] \in {"read", "cas", "emit"} => out[p] \in Events /\ out[p].kind = "exit"

Shape ==
  /\ TypeOK
  /\ \A w \in Workers : WorkerShape(w)
  /\ \A p \in Pollers : PollShape(p)

-------------------------------------------------------------------------------
(* Gate: the worker that won the claim. *)

TradeStates == {"SELECTED", "EXECUTED", "POSITION_OPEN", "POSITION_CLOSED", "FAILED"}

\* Worker w has claimed trade t and has not posted its result yet.
HoldsRun(w, t) ==
  /\ job[w] = Alloc(t)
  /\ \/ pc[w] \in {"gate", "execute", "record", "read", "cas"}
     \/ pc[w] = "emit" /\ out[w].kind = "result"

\* The lifecycle of t went the way of a result with outcome r.
Went(t, r) ==
  /\ life[t].state # "SELECTED"
  /\ r # "halted"
  /\ r = "failed" => life[t].state = "FAILED"
  /\ r = "filled" => life[t].state \in {"EXECUTED", "POSITION_OPEN", "POSITION_CLOSED"}

Unclaimed(t) ==
  exec[t] = "none" => sent[t] = 0 /\ \A r \in Outcomes : Result(t, r) \notin posted

Claimed(w, t) ==
  HoldsRun(w, t) =>
    /\ exec[t] # "none"
    /\ \A r \in Outcomes : Result(t, r) \notin posted
    /\ pc[w] \in {"gate", "execute"} => exec[t] = "reserved" /\ sent[t] = 0
    /\ pc[w] = "record" => exec[t] = "reserved"
    /\ pc[w] \in {"read", "cas", "emit"} => exec[t] \in {out[w].tag, "reserved"}
    /\ pc[w] = "emit" => Went(t, out[w].tag)

Posted(t, r) ==
  Result(t, r) \in posted =>
    /\ exec[t] \in {r, "reserved"}
    /\ Went(t, r)
    /\ \A q \in Outcomes \ {r} : Result(t, q) \notin posted

Gate ==
  /\ \A t \in Trades : life[t].state \in TradeStates
  /\ \A t \in Trades : sent[t] <= 1
  /\ \A t \in Trades : Unclaimed(t)
  /\ \A t \in Trades, w \in Workers : Claimed(w, t)
  /\ \A t \in Trades, v, w \in Workers : HoldsRun(v, t) /\ HoldsRun(w, t) => v = w
  /\ \A t \in Trades, r \in Outcomes : Posted(t, r)

-------------------------------------------------------------------------------
(* Book: the positions table against the bus and the lifecycle. *)

Booked(t) == rows[t] \ {"failed"} # {}

Book ==
  /\ \A t \in Trades : Booked(t) => "failed" \notin rows[t] /\ Result(t, "filled") \in posted
  /\ \A p \in Pollers : \A t \in list[p] : Booked(t)
  /\ \A p \in Pollers :
       pc[p] \in {"read", "cas", "emit"} => out[p].tag \in rows[out[p].trade]
  /\ \A t \in Trades, r \in Reasons : Exit(t, r) \in posted => r \in rows[t]
  /\ \A t \in Trades :
       life[t].state = "POSITION_CLOSED" => rows[t] \intersect Reasons # {}

IInv == Shape /\ Gate /\ Book

-------------------------------------------------------------------------------
(* Events and topology. *)

\* What the constructors of events build (the event ids of the stages).
LEMMA Names ==
  /\ \A t \in Trades :
       /\ Alloc(t) \in Events
       /\ Alloc(t).kind = "alloc" /\ Alloc(t).trade = t
  /\ \A t \in Trades, r \in Outcomes :
       /\ Result(t, r) \in Events
       /\ Result(t, r).kind = "result" /\ Result(t, r).trade = t /\ Result(t, r).tag = r
  /\ \A t \in Trades, s \in {"open", "failed"} :
       /\ Opened(t, s) \in Events
       /\ Opened(t, s).kind = "opened" /\ Opened(t, s).trade = t /\ Opened(t, s).tag = s
  /\ \A t \in Trades, r \in Reasons :
       /\ Exit(t, r) \in Events
       /\ Exit(t, r).kind = "exit" /\ Exit(t, r).trade = t /\ Exit(t, r).tag = r
<1>1. \A t \in Trades : Alloc(t) \in Events /\ Alloc(t).kind = "alloc" /\ Alloc(t).trade = t
  BY DEF Events, Alloc
<1>2. \A t \in Trades, r \in Outcomes :
        /\ Result(t, r) \in Events
        /\ Result(t, r).kind = "result" /\ Result(t, r).trade = t /\ Result(t, r).tag = r
  BY DEF Events, Result
<1>3. \A t \in Trades, s \in {"open", "failed"} :
        /\ Opened(t, s) \in Events
        /\ Opened(t, s).kind = "opened" /\ Opened(t, s).trade = t /\ Opened(t, s).tag = s
  BY DEF Events, Opened
<1>4. \A t \in Trades, r \in Reasons :
        /\ Exit(t, r) \in Events
        /\ Exit(t, r).kind = "exit" /\ Exit(t, r).trade = t /\ Exit(t, r).tag = r
  BY DEF Events, Exit
<1> QED BY <1>1, <1>2, <1>3, <1>4

\* Every event is built by the constructor of its kind.
LEMMA EventForm ==
  \A e \in Events :
    /\ e.trade \in Trades
    /\ e.kind \in {"alloc", "result", "opened", "exit"}
    /\ e.kind = "alloc" => e = Alloc(e.trade)
    /\ e.kind = "result" => e.tag \in Outcomes /\ e = Result(e.trade, e.tag)
    /\ e.kind = "opened" => e.tag \in {"open", "failed"} /\ e = Opened(e.trade, e.tag)
    /\ e.kind = "exit" => e.tag \in Reasons /\ e = Exit(e.trade, e.tag)
BY DEF Events, Alloc, Result, Opened, Exit

\* The transitions the topology allows from a state a trade can be in.
LEMMA Topology ==
  ASSUME NEW s \in TradeStates, NEW to, <<s, to>> \in ValidTransitions
  PROVE  \/ s = "SELECTED" /\ to \in {"EXECUTED", "FAILED"}
         \/ s = "EXECUTED" /\ to \in {"POSITION_OPEN", "FAILED"}
         \/ s = "POSITION_OPEN" /\ to = "POSITION_CLOSED"
BY DEF TradeStates, ValidTransitions

\* What selection leaves is a lifecycle row.
LEMMA SelectedIsRow == SelectedRow \in LifecycleRows
BY DEF SelectedRow, LifecycleRows, LifecycleStates

\* A transition leaves a lifecycle row.
LEMMA AdvancedRow ==
  ASSUME NEW row \in LifecycleRows, NEW seenRow, NEW to, Transits(row, seenRow, to)
  PROVE  /\ Advanced(row, to) \in LifecycleRows
         /\ Advanced(row, to).state = to
         /\ <<row.state, to>> \in ValidTransitions
BY DEF LifecycleRows, Transits, Advanced, ValidTransitions, LifecycleStates

-------------------------------------------------------------------------------
(* Shape is inductive. *)

\* A busy worker holds an event of the bus.
LEMMA HeldEvent ==
  ASSUME Shape, NEW w \in Workers, pc[w] # "idle"
  PROVE  job[w] \in posted /\ job[w] \in Events /\ job[w].trade \in Trades
BY EventForm DEF Shape, TypeOK, WorkerShape

\* Initially every process is idle.
LEMMA ShapeInit == Init => Shape
BY TradeAssumption, Names
   DEF Init, Shape, TypeOK, WorkerShape, PollShape, Procs, PCs, SelectedRow,
       LifecycleRows, LifecycleStates, Outcomes

\* Dropping what a process holds, failing and going on keep the types.
LEMMA ControlTypes ==
  ASSUME TypeOK, NEW p \in Procs
  PROVE  /\ Drop(p) => ProcTypes'
         /\ Fail(p) /\ job[p] \in posted => ProcTypes' /\ BusTypes'
         /\ \A rest \in SUBSET Trades : Continue(p, rest) => ProcTypes'
<1>1. Drop(p) => ProcTypes'
  BY SelectedIsRow DEF Drop, Goto, TypeOK, ProcTypes, PCs
<1>2. Fail(p) /\ job[p] \in posted => BusTypes'
  BY DEF Fail, TypeOK, BusTypes, busVars
<1>3. \A rest \in SUBSET Trades : Continue(p, rest) => ProcTypes'
  <2> SUFFICES ASSUME NEW rest \in SUBSET Trades, Continue(p, rest), rest # {}
               PROVE  ProcTypes'
    BY <1>1 DEF Continue
  <2> QED BY SelectedIsRow DEF Continue, Goto, TypeOK, ProcTypes, PCs
<1> QED BY <1>1, <1>2, <1>3 DEF Fail

\* Shape is preserved by every step.
LEMMA ShapeNext == Shape /\ [Next]_vars => Shape'
<1> SUFFICES ASSUME Shape, [Next]_vars PROVE Shape'
  OBVIOUS
<1> USE TradeAssumption, NoEventAssumption, Names, EventForm, SelectedIsRow
<1> USE DEF Shape, TypeOK, WorkerShape, PollShape, Carries, Procs, PCs, Goto, ExitTags,
            busVars, procVars
<1>1. ASSUME NEW w \in Workers, Deliver(w) PROVE Shape'
  <2>1. TypeOK'
    BY <1>1 DEF Deliver, FirstStatements
  <2>2. \A v \in Workers : WorkerShape(v)'
    BY <1>1 DEF Deliver, FirstStatements
  <2>3. \A p \in Pollers : PollShape(p)'
    BY <1>1 DEF Deliver, FirstStatements
  <2> QED BY <2>1, <2>2, <2>3
<1>2. ASSUME NEW w \in Workers, ClaimExecution(w) PROVE Shape'
  <2>1. TypeOK'
    <3>1. ProcTypes'
      <4>1. \E n \in PCs : pc' = [pc EXCEPT ![w] = n]
        BY <1>2 DEF ClaimExecution
      <4>2. UNCHANGED <<job, out, seen, list>>
        BY <1>2 DEF ClaimExecution
      <4> QED BY <4>1, <4>2 DEF ProcTypes
    <3>2. TableTypes'
      <4>1. CASE exec[job[w].trade] = "none"
        <5>1. /\ exec' = [exec EXCEPT ![job[w].trade] = "reserved"]
              /\ UNCHANGED <<life, sent, rows>>
          BY <1>2, <4>1 DEF ClaimExecution
        <5> QED BY <5>1 DEF TableTypes
      <4>2. CASE exec[job[w].trade] # "none"
        BY <1>2, <4>2 DEF ClaimExecution, TableTypes
      <4> QED BY <4>1, <4>2
    <3>3. BusTypes' /\ (faults \in 0..MaxFaults)'
      BY <1>2, ControlTypes DEF ClaimExecution, BusTypes
    <3> QED BY <3>1, <3>2, <3>3 DEF TableTypes, BusTypes, ProcTypes
  <2>2. \A v \in Workers : WorkerShape(v)'
    BY <1>2 DEF ClaimExecution
  <2>3. \A p \in Pollers : PollShape(p)'
    BY <1>2 DEF ClaimExecution
  <2> QED BY <2>1, <2>2, <2>3
<1>3. ASSUME NEW w \in Workers, Reemit(w) PROVE Shape'
  <2>a. job[w].trade \in Trades
    BY <1>3, HeldEvent DEF Reemit
  <2>b. Alloc(job[w].trade) \in Events
    BY ONLY <2>a, Names
  <2>1. TypeOK'
    <3>1. ProcTypes'
      <4>1. CASE exec[job[w].trade] = "reserved"
        BY <1>3, <4>1, ControlTypes DEF Reemit
      <4>2. CASE exec[job[w].trade] # "reserved"
        <5>1. /\ out' = [out EXCEPT ![w] = Alloc(job[w].trade)]
              /\ pc' = [pc EXCEPT ![w] = "emit"]
              /\ UNCHANGED <<job, seen, list>>
          BY <1>3, <4>2 DEF Reemit
        <5> QED BY <2>b, <5>1 DEF ProcTypes
      <4> QED BY <4>1, <4>2
    <3>2. TableTypes'
      BY <1>3 DEF Reemit, TableTypes
    <3>3. BusTypes' /\ (faults \in 0..MaxFaults)'
      BY <1>3, ControlTypes DEF Reemit, BusTypes
    <3> QED BY <3>1, <3>2, <3>3 DEF TableTypes, BusTypes, ProcTypes
  <2>2. \A v \in Workers : WorkerShape(v)'
    BY <1>3 DEF Reemit, Fail, Drop
  <2>3. \A p \in Pollers : PollShape(p)'
    BY <1>3 DEF Reemit, Fail, Drop
  <2> QED BY <2>1, <2>2, <2>3
<1>4. ASSUME NEW w \in Workers, HaltGate(w) PROVE Shape'
  <2>1. TypeOK'
    <3>1. ProcTypes'
      <4>1. Result(job[w].trade, "halted") \in Events
        BY <1>4 DEF HaltGate, Outcomes
      <4> QED BY <1>4, <4>1 DEF HaltGate, ProcTypes
    <3>2. TableTypes'
      BY <1>4 DEF HaltGate, TableTypes
    <3>3. BusTypes' /\ (faults \in 0..MaxFaults)'
      BY <1>4, ControlTypes DEF HaltGate, BusTypes
    <3> QED BY <3>1, <3>2, <3>3 DEF TableTypes, BusTypes, ProcTypes
  <2>2. \A v \in Workers : WorkerShape(v)'
    BY <1>4 DEF HaltGate, Outcomes
  <2>3. \A p \in Pollers : PollShape(p)'
    BY <1>4 DEF HaltGate, Outcomes
  <2> QED BY <2>1, <2>2, <2>3
<1>5. ASSUME NEW w \in Workers, Execute(w) PROVE Shape'
  <2>1. TypeOK'
    <3>1. ProcTypes'
      <4>1. PICK r \in Outcomes : out' = [out EXCEPT ![w] = Result(job[w].trade, r)]
        BY <1>5 DEF Execute, Outcomes
      <4>2. Result(job[w].trade, r) \in Events
        BY <1>5 DEF Execute
      <4> QED BY <1>5, <4>1, <4>2 DEF Execute, ProcTypes
    <3>2. TableTypes'
      <4>1. job[w].trade \in Trades
        BY <1>5, HeldEvent DEF Execute
      <4>2. sent' = sent \/ sent' = [sent EXCEPT ![job[w].trade] = @ + 1]
        BY <1>5 DEF Execute
      <4>3. UNCHANGED <<life, exec, rows>>
        BY <1>5 DEF Execute
      <4> QED BY <4>1, <4>2, <4>3 DEF TableTypes
    <3>3. BusTypes' /\ (faults \in 0..MaxFaults)'
      BY <1>5, ControlTypes DEF Execute, BusTypes
    <3> QED BY <3>1, <3>2, <3>3 DEF TableTypes, BusTypes, ProcTypes
  <2>2. \A v \in Workers : WorkerShape(v)'
    BY <1>5 DEF Execute, Outcomes
  <2>3. \A p \in Pollers : PollShape(p)'
    BY <1>5 DEF Execute, Outcomes
  <2> QED BY <2>1, <2>2, <2>3
<1>6. ASSUME NEW w \in Workers, InsertExecutionResult(w) PROVE Shape'
  <2>1. TypeOK'
    BY <1>6 DEF InsertExecutionResult
  <2>2. \A v \in Workers : WorkerShape(v)'
    BY <1>6 DEF InsertExecutionResult
  <2>3. \A p \in Pollers : PollShape(p)'
    BY <1>6 DEF InsertExecutionResult
  <2> QED BY <2>1, <2>2, <2>3
<1>7. ASSUME NEW w \in Workers, UpsertPosition(w) PROVE Shape'
  <2>1. TypeOK'
    <3>1. ProcTypes'
      <4>1. OpenStatus(job[w].tag) \in {"open", "failed"}
        BY DEF OpenStatus
      <4>2. Opened(job[w].trade, OpenStatus(job[w].tag)) \in Events
        BY <1>7, <4>1 DEF UpsertPosition
      <4>3. out' \in [Procs -> Events \union {NoEvent}]
        BY <1>7, <4>2 DEF UpsertPosition, ProcTypes
      <4>4. pc' \in [Procs -> PCs]
        BY <1>7 DEF UpsertPosition, ProcTypes
      <4> QED BY <1>7, <4>3, <4>4 DEF UpsertPosition, ProcTypes
    <3>2. TableTypes'
      <4>1. \E s \in {"open", "failed"} :
              rows' = rows \/ rows' = [rows EXCEPT ![job[w].trade] = {s}]
        BY <1>7 DEF UpsertPosition, OpenStatus
      <4>2. UNCHANGED <<life, exec, sent>>
        BY <1>7 DEF UpsertPosition
      <4> QED BY <4>1, <4>2 DEF TableTypes
    <3>3. BusTypes' /\ (faults \in 0..MaxFaults)'
      BY <1>7, ControlTypes DEF UpsertPosition, BusTypes
    <3> QED BY <3>1, <3>2, <3>3 DEF TableTypes, BusTypes, ProcTypes
  <2>2. \A v \in Workers : WorkerShape(v)'
    BY <1>7 DEF UpsertPosition, OpenStatus, Outcomes
  <2>3. \A p \in Pollers : PollShape(p)'
    BY <1>7 DEF UpsertPosition, OpenStatus, Outcomes
  <2> QED BY <2>1, <2>2, <2>3
<1>8. ASSUME NEW w \in Workers, ReadLifecycle(w) PROVE Shape'
  <2>1. TypeOK'
    <3>1. ProcTypes'
      <4>1. life[job[w].trade] \in LifecycleRows
        BY <1>8, HeldEvent DEF ReadLifecycle
      <4>2. seen' = seen \/ seen' = [seen EXCEPT ![w] = life[job[w].trade]]
        BY <1>8 DEF ReadLifecycle
      <4>3. \E n \in PCs : pc' = [pc EXCEPT ![w] = n]
        BY <1>8 DEF ReadLifecycle
      <4>4. UNCHANGED <<job, out, list>>
        BY <1>8 DEF ReadLifecycle
      <4> QED BY <4>1, <4>2, <4>3, <4>4 DEF ProcTypes
    <3>2. TableTypes'
      BY <1>8 DEF ReadLifecycle, TableTypes
    <3>3. BusTypes' /\ (faults \in 0..MaxFaults)'
      BY <1>8, ControlTypes DEF ReadLifecycle, BusTypes
    <3> QED BY <3>1, <3>2, <3>3 DEF TableTypes, BusTypes, ProcTypes
  <2>2. \A v \in Workers : WorkerShape(v)'
    BY <1>8 DEF ReadLifecycle
  <2>3. \A p \in Pollers : PollShape(p)'
    BY <1>8 DEF ReadLifecycle
  <2> QED BY <2>1, <2>2, <2>3
<1>9. ASSUME NEW w \in Workers, TransitionState(w) PROVE Shape'
  <2>1. TypeOK'
    <3>1. ProcTypes'
      <4>1. CASE UNCHANGED <<job, out, seen, list>> /\ pc' = [pc EXCEPT ![w] = "emit"]
        BY <4>1 DEF ProcTypes
      <4>2. CASE Fail(w)
        BY <1>9, <4>2, ControlTypes DEF TransitionState
      <4> QED BY <1>9, <4>1, <4>2 DEF TransitionState
    <3>2. TableTypes'
      <4>1. /\ job[w].trade \in Trades
            /\ UNCHANGED <<exec, sent, rows>>
        BY <1>9 DEF TransitionState
      <4>2. CASE Transits(life[job[w].trade], seen[w], To(out[w]))
        <5>1. Advanced(life[job[w].trade], To(out[w])) \in LifecycleRows
          <6>1. life[job[w].trade] \in LifecycleRows
            BY <4>1
          <6> QED BY ONLY <4>2, <6>1, AdvancedRow
        <5>2. life' = [life EXCEPT ![job[w].trade] = Advanced(@, To(out[w]))]
          BY <1>9, <4>2 DEF TransitionState
        <5> QED BY <4>1, <5>1, <5>2 DEF TableTypes
      <4>3. CASE ~Transits(life[job[w].trade], seen[w], To(out[w]))
        BY <1>9, <4>1, <4>3 DEF TransitionState, TableTypes
      <4> QED BY <4>2, <4>3
    <3>3. BusTypes' /\ (faults \in 0..MaxFaults)'
      BY <1>9, ControlTypes DEF TransitionState, BusTypes
    <3> QED BY <3>1, <3>2, <3>3 DEF TableTypes, BusTypes, ProcTypes
  <2>2. \A v \in Workers : WorkerShape(v)'
    BY <1>9 DEF TransitionState, Fail, Drop
  <2>3. \A p \in Pollers : PollShape(p)'
    BY <1>9 DEF TransitionState, Fail, Drop
  <2> QED BY <2>1, <2>2, <2>3
<1>10. ASSUME NEW w \in Workers, InsertOutput(w) PROVE Shape'
  <2>1. TypeOK'
    BY <1>10 DEF InsertOutput
  <2>2. \A v \in Workers : WorkerShape(v)'
    BY <1>10 DEF InsertOutput
  <2>3. \A p \in Pollers : PollShape(p)'
    BY <1>10 DEF InsertOutput
  <2> QED BY <2>1, <2>2, <2>3
<1>11. ASSUME NEW w \in Workers, MarkEventProcessed(w) PROVE Shape'
  <2>1. TypeOK'
    BY <1>11 DEF MarkEventProcessed, Drop
  <2>2. \A v \in Workers : WorkerShape(v)'
    BY <1>11 DEF MarkEventProcessed, Drop
  <2>3. \A p \in Pollers : PollShape(p)'
    BY <1>11 DEF MarkEventProcessed, Drop
  <2> QED BY <2>1, <2>2, <2>3
<1>12. ASSUME NEW w \in Workers, Evaluate(w) PROVE Shape'
  <2>1. TypeOK'
    <3>1. ProcTypes'
      <4>1. CASE job[w].kind = "opened"
        BY <1>12, <4>1 DEF Evaluate, ProcTypes
      <4>2. CASE job[w].kind = "exit"
        BY <1>12, <4>2, ControlTypes DEF Evaluate
      <4> QED BY <1>12, <4>1, <4>2 DEF Evaluate
    <3>2. TableTypes'
      BY <1>12 DEF Evaluate, TableTypes
    <3>3. BusTypes' /\ (faults \in 0..MaxFaults)'
      BY <1>12, ControlTypes DEF Evaluate, BusTypes
    <3> QED BY <3>1, <3>2, <3>3 DEF TableTypes, BusTypes, ProcTypes
  <2>2. \A v \in Workers : WorkerShape(v)'
    BY <1>12 DEF Evaluate, Fail, Drop
  <2>3. \A p \in Pollers : PollShape(p)'
    BY <1>12 DEF Evaluate, Fail, Drop
  <2> QED BY <2>1, <2>2, <2>3
<1>13. ASSUME NEW w \in Workers, WorkerStatementFails(w) PROVE Shape'
  <2>1. TypeOK'
    <3>1. ProcTypes'
      BY <1>13, ControlTypes DEF WorkerStatementFails, ProcTypes
    <3>2. TableTypes'
      BY <1>13 DEF WorkerStatementFails, TableTypes
    <3>3. BusTypes' /\ (faults \in 0..MaxFaults)'
      BY <1>13, ControlTypes DEF WorkerStatementFails, BusTypes
    <3> QED BY <3>1, <3>2, <3>3 DEF TableTypes, BusTypes, ProcTypes
  <2>2. \A v \in Workers : WorkerShape(v)'
    BY <1>13 DEF WorkerStatementFails, Fail, Drop
  <2>3. \A p \in Pollers : PollShape(p)'
    BY <1>13 DEF WorkerStatementFails, Fail, Drop
  <2> QED BY <2>1, <2>2, <2>3
<1>14. ASSUME NEW p \in Pollers, GetOpenPositions(p) PROVE Shape'
  <2>1. TypeOK'
    BY <1>14 DEF GetOpenPositions, OpenPositions
  <2>2. \A w \in Workers : WorkerShape(w)'
    BY <1>14 DEF GetOpenPositions, OpenPositions
  <2>3. \A q \in Pollers : PollShape(q)'
    BY <1>14 DEF GetOpenPositions, OpenPositions
  <2> QED BY <2>1, <2>2, <2>3
<1>15. ASSUME NEW p \in Pollers, PollHolds(p) PROVE Shape'
  <2>1. TypeOK'
    <3>1. ProcTypes'
      BY <1>15, ControlTypes DEF PollHolds
    <3>2. TableTypes'
      BY <1>15 DEF PollHolds, TableTypes
    <3>3. BusTypes' /\ (faults \in 0..MaxFaults)'
      BY <1>15, ControlTypes DEF PollHolds, BusTypes
    <3> QED BY <3>1, <3>2, <3>3 DEF TableTypes, BusTypes, ProcTypes
  <2>2. \A w \in Workers : WorkerShape(w)'
    BY <1>15 DEF PollHolds, Continue, Drop
  <2>3. \A q \in Pollers : PollShape(q)'
    BY <1>15 DEF PollHolds, Continue, Drop
  <2> QED BY <2>1, <2>2, <2>3
<1>16. ASSUME NEW p \in Pollers, PollExits(p) PROVE Shape'
  <2>1. TypeOK'
    BY <1>16 DEF PollExits
  <2>2. \A w \in Workers : WorkerShape(w)'
    BY <1>16 DEF PollExits
  <2>3. \A q \in Pollers : PollShape(q)'
    BY <1>16 DEF PollExits
  <2> QED BY <2>1, <2>2, <2>3
<1>17. ASSUME NEW p \in Pollers, PollReadsLifecycle(p) PROVE Shape'
  <2>1. TypeOK'
    BY <1>17 DEF PollReadsLifecycle
  <2>2. \A w \in Workers : WorkerShape(w)'
    BY <1>17 DEF PollReadsLifecycle
  <2>3. \A q \in Pollers : PollShape(q)'
    BY <1>17 DEF PollReadsLifecycle
  <2> QED BY <2>1, <2>2, <2>3
<1>18. ASSUME NEW p \in Pollers, PollTransitions(p) PROVE Shape'
  <2>1. TypeOK'
    <3>1. ProcTypes'
      BY <1>18, ControlTypes DEF PollTransitions, ProcTypes
    <3>2. TableTypes'
      <4>1. /\ out[p].trade \in Trades
            /\ UNCHANGED <<exec, sent, rows>>
        BY <1>18 DEF PollTransitions
      <4>2. CASE Transits(life[out[p].trade], seen[p], To(out[p]))
        <5>1. Advanced(life[out[p].trade], To(out[p])) \in LifecycleRows
          <6>1. life[out[p].trade] \in LifecycleRows
            BY <4>1
          <6> QED BY ONLY <4>2, <6>1, AdvancedRow
        <5>2. life' = [life EXCEPT ![out[p].trade] = Advanced(@, To(out[p]))]
          BY <1>18, <4>2 DEF PollTransitions
        <5> QED BY <4>1, <5>1, <5>2 DEF TableTypes
      <4>3. CASE ~Transits(life[out[p].trade], seen[p], To(out[p]))
        BY <1>18, <4>1, <4>3 DEF PollTransitions, TableTypes
      <4> QED BY <4>2, <4>3
    <3>3. BusTypes' /\ (faults \in 0..MaxFaults)'
      BY <1>18, ControlTypes DEF PollTransitions, BusTypes
    <3> QED BY <3>1, <3>2, <3>3 DEF TableTypes, BusTypes, ProcTypes
  <2>2. \A w \in Workers : WorkerShape(w)'
    BY <1>18 DEF PollTransitions, Continue, Drop
  <2>3. \A q \in Pollers : PollShape(q)'
    BY <1>18 DEF PollTransitions, Continue, Drop
  <2> QED BY <2>1, <2>2, <2>3
<1>19. ASSUME NEW p \in Pollers, PollEmits(p) PROVE Shape'
  <2>1. TypeOK'
    <3>1. ProcTypes'
      BY <1>19, ControlTypes DEF PollEmits
    <3>2. TableTypes'
      BY <1>19 DEF PollEmits, TableTypes
    <3>3. BusTypes' /\ (faults \in 0..MaxFaults)'
      BY <1>19, ControlTypes DEF PollEmits, BusTypes
    <3> QED BY <3>1, <3>2, <3>3 DEF TableTypes, BusTypes, ProcTypes
  <2>2. \A w \in Workers : WorkerShape(w)'
    BY <1>19 DEF PollEmits, Continue, Drop
  <2>3. \A q \in Pollers : PollShape(q)'
    BY <1>19 DEF PollEmits, Continue, Drop
  <2> QED BY <2>1, <2>2, <2>3
<1>20. ASSUME NEW p \in Pollers, PollStatementFails(p) PROVE Shape'
  <2>1. TypeOK'
    <3>1. ProcTypes'
      BY <1>20, ControlTypes DEF PollStatementFails
    <3>2. TableTypes'
      BY <1>20 DEF PollStatementFails, TableTypes
    <3>3. BusTypes' /\ (faults \in 0..MaxFaults)'
      BY <1>20, ControlTypes DEF PollStatementFails, BusTypes
    <3> QED BY <3>1, <3>2, <3>3 DEF TableTypes, BusTypes, ProcTypes
  <2>2. \A w \in Workers : WorkerShape(w)'
    BY <1>20 DEF PollStatementFails, Continue, Drop
  <2>3. \A q \in Pollers : PollShape(q)'
    BY <1>20 DEF PollStatementFails, Continue, Drop
  <2> QED BY <2>1, <2>2, <2>3
<1>21. ASSUME NEW p \in Procs, Crash(p) PROVE Shape'
  BY <1>21 DEF Crash, Drop
<1>22. ASSUME NEW t \in Trades, ClosePositionForced(t) PROVE Shape'
  BY <1>22 DEF ClosePositionForced
<1>23. ASSUME NEW t \in Trades, ForceClosePositions(t) PROVE Shape'
  BY <1>23 DEF ForceClosePositions
<1>24. ASSUME NEW e \in dead, RequeueFromDLQ(e) PROVE Shape'
  BY <1>24 DEF RequeueFromDLQ
<1>25. CASE UNCHANGED vars
  BY <1>25 DEF vars
<1> QED
  BY <1>1, <1>2, <1>3, <1>4, <1>5, <1>6, <1>7, <1>8, <1>9, <1>10, <1>11, <1>12, <1>13, <1>14, <1>15, <1>16, <1>17, <1>18, <1>19, <1>20, <1>21, <1>22, <1>23, <1>24, <1>25
     DEF Next, WorkerStep, PollStep

\* Shape is an invariant; it holds the types.
LEMMA ShapeInvariant == Spec => []Shape
BY ShapeInit, ShapeNext, PTL DEF Spec

-------------------------------------------------------------------------------
(* Gate is inductive. *)

\* Initially nothing is claimed, submitted or posted.
LEMMA GateInit == Init => Gate
<1> SUFFICES ASSUME Init PROVE Gate
  OBVIOUS
<1>1. \A t \in Trades, r \in Outcomes : Result(t, r) \notin posted
  BY Names DEF Init
<1>2. \A w \in Workers, t \in Trades : ~HoldsRun(w, t)
  BY TradeAssumption DEF Init, HoldsRun, Procs
<1> QED BY <1>1, <1>2
  DEF Init, Gate, SelectedRow, TradeStates, Unclaimed, Claimed, Posted

\* A step that touches neither the trade's tables nor the result events, and
\* starts no run, preserves Gate.
LEMMA GateFrame ==
  ASSUME Gate,
         UNCHANGED <<life, exec, sent>>,
         \A t \in Trades, r \in Outcomes : Result(t, r) \in posted' <=> Result(t, r) \in posted,
         \A w \in Workers, t \in Trades :
           HoldsRun(w, t)' => job'[w] = job[w] /\ pc'[w] = pc[w] /\ out'[w] = out[w]
  PROVE  Gate'
<1>1. \A w \in Workers, t \in Trades : HoldsRun(w, t)' => HoldsRun(w, t)
  BY DEF HoldsRun
<1>2. \A t \in Trades : Unclaimed(t)'
  BY DEF Gate, Unclaimed
<1>3. \A t \in Trades, w \in Workers : Claimed(w, t)'
  BY <1>1 DEF Gate, Claimed, Went
<1>4. \A t \in Trades, r \in Outcomes : Posted(t, r)'
  BY DEF Gate, Posted, Went
<1> QED BY <1>1, <1>2, <1>3, <1>4 DEF Gate

\* A step of the worker that runs trade t, or starts to run it, preserves Gate
\* when it does so for t.
LEMMA GateLocal ==
  ASSUME Gate, NEW w \in Workers, NEW t \in Trades,
         HoldsRun(w, t) \/ exec[t] = "none",
         job[w] = Alloc(t), job' = job,
         \A v \in Workers \ {w} : pc'[v] = pc[v] /\ out'[v] = out[v],
         \A u \in Trades \ {t} :
           /\ life'[u] = life[u] /\ exec'[u] = exec[u] /\ sent'[u] = sent[u]
           /\ \A r \in Outcomes : Result(u, r) \in posted' <=> Result(u, r) \in posted,
         life'[t].state \in TradeStates, sent'[t] <= 1,
         exec'[t] # "none", Claimed(w, t)',
         \A r \in Outcomes : Posted(t, r)'
  PROVE  Gate'
<1>1. \A u \in Trades : Alloc(u) = job[w] => u = t
  BY Names
<1>2. \A v \in Workers : HoldsRun(v, t) => v = w
  BY DEF Gate, Claimed
<1>3. \A v \in Workers \ {w}, u \in Trades : HoldsRun(v, u)' <=> HoldsRun(v, u)
  BY DEF HoldsRun
<1>4. \A v \in Workers \ {w} : ~HoldsRun(v, t)'
  BY <1>2, <1>3
<1>5. \A u \in Trades \ {t} : ~HoldsRun(w, u) /\ ~HoldsRun(w, u)'
  BY <1>1 DEF HoldsRun
<1>6. \A u \in Trades : life'[u].state \in TradeStates /\ sent'[u] <= 1 /\ Unclaimed(u)'
  BY DEF Gate, Unclaimed
<1>7. \A u \in Trades, v \in Workers : Claimed(v, u)'
  <2> SUFFICES ASSUME NEW u \in Trades, NEW v \in Workers, HoldsRun(v, u)', v # w
               PROVE  Claimed(v, u)'
    BY <1>5 DEF Claimed
  <2>1. u # t /\ HoldsRun(v, u) /\ Claimed(v, u)
    BY <1>3, <1>4 DEF Gate
  <2> QED BY <2>1 DEF Claimed, Went
<1>8. \A u \in Trades, x, v \in Workers : (HoldsRun(x, u) /\ HoldsRun(v, u) => x = v)'
  BY <1>3, <1>4, <1>5 DEF Gate
<1>9. \A u \in Trades, r \in Outcomes : Posted(u, r)'
  <2> SUFFICES ASSUME NEW u \in Trades \ {t}, NEW r \in Outcomes PROVE Posted(u, r)'
    OBVIOUS
  <2>1. Posted(u, r)
    BY DEF Gate
  <2> QED BY <2>1 DEF Posted, Went
<1> QED BY <1>6, <1>7, <1>8, <1>9 DEF Gate

\* A transition of t's lifecycle by a process that does not run t.
LEMMA GateLife ==
  ASSUME Gate, NEW t \in Trades,
         \A u \in Trades \ {t} : life'[u] = life[u],
         UNCHANGED <<exec, sent, posted>>,
         \A w \in Workers, u \in Trades :
           HoldsRun(w, u)' => job'[w] = job[w] /\ pc'[w] = pc[w] /\ out'[w] = out[w],
         life'[t].state \in TradeStates,
         \A w \in Workers : HoldsRun(w, t) /\ pc[w] = "emit" => Went(t, out[w].tag)',
         \A r \in Outcomes : Result(t, r) \in posted => Went(t, r)'
  PROVE  Gate'
<1>1. \A w \in Workers, u \in Trades : HoldsRun(w, u)' => HoldsRun(w, u)
  BY DEF HoldsRun
<1>2. \A u \in Trades : life'[u].state \in TradeStates /\ Unclaimed(u)'
  BY DEF Gate, Unclaimed
<1>3. \A u \in Trades, w \in Workers : Claimed(w, u)'
  <2> SUFFICES ASSUME NEW u \in Trades, NEW w \in Workers, HoldsRun(w, u)' PROVE Claimed(w, u)'
    BY DEF Claimed
  <2>1. Claimed(w, u) /\ HoldsRun(w, u)
    BY <1>1 DEF Gate
  <2>2. pc'[w] = pc[w] /\ out'[w] = out[w]
    OBVIOUS
  <2>3. CASE u = t
    BY <2>1, <2>2, <2>3 DEF Claimed
  <2>4. CASE u # t
    BY <2>1, <2>2, <2>4 DEF Claimed, Went
  <2> QED BY <2>3, <2>4
<1>4. \A u \in Trades, r \in Outcomes : Posted(u, r)'
  <2> SUFFICES ASSUME NEW u \in Trades, NEW r \in Outcomes PROVE Posted(u, r)'
    OBVIOUS
  <2>1. Posted(u, r)
    BY DEF Gate
  <2>2. CASE u = t
    BY <2>1, <2>2 DEF Posted
  <2>3. CASE u # t
    BY <2>1, <2>3 DEF Posted, Went
  <2> QED BY <2>2, <2>3
<1> QED BY <1>1, <1>2, <1>3, <1>4 DEF Gate

\* The lifecycle of a trade moves the way of the output in memory.
LEMMA WorkerMoves ==
  ASSUME Shape, Gate, NEW w \in Workers, pc[w] = "cas", NEW t, t = job[w].trade,
         Transits(life[t], seen[w], To(out[w]))
  PROVE  /\ job[w].kind = "alloc" =>
              /\ out[w].tag # "halted"
              /\ To(out[w]) = IF out[w].tag = "failed" THEN "FAILED" ELSE "EXECUTED"
         /\ job[w].kind = "result" =>
              /\ life[t].state = "EXECUTED"
              /\ To(out[w]) = IF job[w].tag = "filled" THEN "POSITION_OPEN" ELSE "FAILED"
<1>1. /\ job[w] \in Events /\ job[w] \in posted /\ t \in Trades
      /\ Carries(w) /\ life[t] \in LifecycleRows
      /\ life[t].state \in TradeStates
  BY HeldEvent DEF Shape, WorkerShape, TypeOK, Gate
<1>2. <<life[t].state, To(out[w])>> \in ValidTransitions
  BY ONLY <1>1, AdvancedRow, Transits(life[t], seen[w], To(out[w]))
<1>3. ASSUME job[w].kind = "alloc"
      PROVE  /\ out[w].tag # "halted"
             /\ To(out[w]) = IF out[w].tag = "failed" THEN "FAILED" ELSE "EXECUTED"
  <2>1. out[w].kind = "result"
    BY <1>1, <1>3 DEF Carries
  <2>2. out[w].tag \in Outcomes
    BY <1>1, <2>1, EventForm DEF Carries
  <2>3. out[w].tag # "halted"
    <3> SUFFICES ASSUME out[w].tag = "halted" PROVE FALSE
      OBVIOUS
    <3>1. To(out[w]) = "REJECTED"
      BY DEF To
    <3> QED BY <1>1, <1>2, <3>1, Topology
  <2> QED BY <2>2, <2>3 DEF To, Outcomes
<1>4. ASSUME job[w].kind = "result"
      PROVE  /\ life[t].state = "EXECUTED"
             /\ To(out[w]) = IF job[w].tag = "filled" THEN "POSITION_OPEN" ELSE "FAILED"
  <2>1. out[w].kind = "opened" /\ out[w].tag = OpenStatus(job[w].tag)
    BY <1>1, <1>4 DEF Carries
  <2>2. To(out[w]) = IF job[w].tag = "filled" THEN "POSITION_OPEN" ELSE "FAILED"
    BY <2>1 DEF To, OpenStatus
  <2>3. job[w] = Result(t, job[w].tag) /\ job[w].tag \in Outcomes
    BY <1>1, <1>4, EventForm
  <2>4. Went(t, job[w].tag)
    BY <1>1, <2>3 DEF Gate, Posted
  <2>5. life[t].state = "EXECUTED"
    BY <1>1, <1>2, <2>2, <2>4, Topology DEF Went
  <2> QED BY <2>2, <2>5
<1> QED BY <1>3, <1>4

\* A poll's transition closes an open position.
LEMMA PollMoves ==
  ASSUME Shape, Gate, NEW p \in Pollers, pc[p] = "cas", NEW t, t = out[p].trade,
         Transits(life[t], seen[p], To(out[p]))
  PROVE  /\ t \in Trades
         /\ out[p] \in Events
         /\ To(out[p]) = "POSITION_CLOSED"
         /\ life[t].state = "POSITION_OPEN"
<1>1. /\ out[p] \in Events /\ out[p].kind = "exit"
      /\ out[p].tag \in Reasons /\ t \in Trades
      /\ life[t] \in LifecycleRows
      /\ life[t].state \in TradeStates
  BY EventForm DEF Shape, PollShape, TypeOK, Gate
<1>2. <<life[t].state, To(out[p])>> \in ValidTransitions
  BY ONLY <1>1, AdvancedRow, Transits(life[t], seen[p], To(out[p]))
<1>3. To(out[p]) = "POSITION_CLOSED"
  BY <1>1, TradeAssumption DEF To, Outcomes
<1> QED BY <1>1, <1>2, <1>3, Topology

\* The worker that runs a trade: what Gate says of it.
LEMMA Runner ==
  ASSUME Shape, Gate, NEW w \in Workers, pc[w] # "idle", job[w].kind = "alloc",
         pc[w] \in {"gate", "execute", "record", "read", "cas"}
           \/ (pc[w] = "emit" /\ out[w].kind = "result")
  PROVE  LET t == job[w].trade
         IN  /\ t \in Trades
             /\ job[w] = Alloc(t)
             /\ HoldsRun(w, t)
             /\ exec[t] # "none"
             /\ sent[t] <= 1
             /\ life[t].state \in TradeStates
             /\ Claimed(w, t)
             /\ \A r \in Outcomes : Result(t, r) \notin posted
<1>1. job[w].trade \in Trades /\ job[w] = Alloc(job[w].trade)
  BY HeldEvent, EventForm
<1>2. HoldsRun(w, job[w].trade)
  BY <1>1 DEF HoldsRun
<1>3. Claimed(w, job[w].trade)
  BY <1>1 DEF Gate
<1> QED BY <1>1, <1>2, <1>3 DEF Gate, Claimed

\* Gate is preserved by every step.
LEMMA GateNext == Shape /\ Shape' /\ Gate /\ [Next]_vars => Gate'
<1> SUFFICES ASSUME Shape, Shape', Gate, [Next]_vars PROVE Gate'
  OBVIOUS
<1>a. /\ pc \in [Procs -> PCs]
      /\ job \in [Procs -> Events \union {NoEvent}]
      /\ out \in [Procs -> Events \union {NoEvent}]
      /\ Workers \subseteq Procs /\ Pollers \subseteq Procs
  BY DEF Shape, TypeOK, Procs
<1>b. /\ life \in [Trades -> LifecycleRows]
      /\ exec \in [Trades -> {"none", "reserved"} \union Outcomes]
      /\ sent \in [Trades -> Nat]
  BY DEF Shape, TypeOK
<1> USE TradeAssumption, HeldEvent DEF Goto, busVars, procVars
<1>1. ASSUME NEW w \in Workers, Deliver(w) PROVE Gate'
  BY <1>1, <1>a, GateFrame DEF Deliver, HoldsRun, FirstStatements
<1>2. ASSUME NEW w \in Workers, ClaimExecution(w) PROVE Gate'
  <2>0. PICK t \in Trades : t = job[w].trade
    BY <1>2, HeldEvent DEF ClaimExecution
  <2>1. t \in Trades /\ job[w] = Alloc(t)
    BY <2>0, <1>2, EventForm DEF ClaimExecution, Shape, WorkerShape
  <2>2. UNCHANGED <<life, sent, posted, job, out>>
    BY <2>0, <1>2 DEF ClaimExecution
  <2>3. CASE exec[t] = "none"
    <3>1. exec' = [exec EXCEPT ![t] = "reserved"] /\ pc' = [pc EXCEPT ![w] = "gate"]
      BY <2>0, <1>2, <2>3 DEF ClaimExecution
    <3>2. exec'[t] = "reserved" /\ pc'[w] = "gate"
      BY <2>0, <1>a, <1>b, <2>1, <3>1
    <3>3. sent[t] = 0 /\ \A r \in Outcomes : Result(t, r) \notin posted
      BY <2>0, <2>1, <2>3 DEF Gate, Unclaimed
    <3>4. Claimed(w, t)'
      BY <2>0, <2>2, <3>2, <3>3 DEF Claimed
    <3>5. \A r \in Outcomes : Posted(t, r)'
      BY <2>0, <2>2, <3>3 DEF Posted
    <3>6. life[t].state \in TradeStates
      BY <2>0, <2>1 DEF Gate
    <3>7. \A v \in Workers \ {w} : pc'[v] = pc[v]
      BY <2>0, <1>a, <3>1
    <3>8. \A u \in Trades \ {t} : exec'[u] = exec[u]
      BY <2>0, <1>b, <3>1
    <3>9. sent'[t] <= 1 /\ exec'[t] # "none" /\ life'[t].state \in TradeStates
      BY <2>2, <3>2, <3>3, <3>6
    <3>10. \A v \in Workers \ {w} : pc'[v] = pc[v] /\ out'[v] = out[v]
      BY <2>2, <3>7
    <3>11. \A u \in Trades \ {t} :
             /\ life'[u] = life[u] /\ exec'[u] = exec[u] /\ sent'[u] = sent[u]
             /\ \A r \in Outcomes : Result(u, r) \in posted' <=> Result(u, r) \in posted
      BY <2>2, <3>8
    <3> QED BY <2>1, <2>2, <2>3, <3>4, <3>5, <3>9, <3>10, <3>11, GateLocal
  <2>4. CASE exec[t] # "none"
    <3>1. UNCHANGED exec /\ pc' = [pc EXCEPT ![w] = "lookup"]
      BY <2>0, <1>2, <2>4 DEF ClaimExecution
    <3> QED BY <2>0, <1>a, <2>2, <3>1, GateFrame DEF HoldsRun
  <2> QED BY <2>0, <2>3, <2>4
<1>3. ASSUME NEW w \in Workers, Reemit(w) PROVE Gate'
  <2>1. job[w].trade \in Trades /\ Alloc(job[w].trade).kind = "alloc"
    BY <1>3, Names DEF Reemit
  <2>2. UNCHANGED <<life, exec, sent>>
    BY <1>3 DEF Reemit
  <2>3. CASE Fail(w)
    BY <1>a, <2>2, <2>3, GateFrame DEF Fail, Drop, HoldsRun
  <2>4. CASE /\ out' = [out EXCEPT ![w] = Alloc(job[w].trade)]
             /\ pc' = [pc EXCEPT ![w] = "emit"]
             /\ UNCHANGED <<busVars, job>>
    BY <1>a, <2>1, <2>2, <2>4, GateFrame DEF HoldsRun
  <2> QED BY <1>3, <2>3, <2>4 DEF Reemit
<1>4. ASSUME NEW w \in Workers, HaltGate(w) PROVE Gate'
  <2>0. PICK t \in Trades : t = job[w].trade
    BY <1>4, HeldEvent DEF HaltGate
  <2>1. pc[w] = "gate" /\ job[w].kind = "alloc"
    BY <2>0, <1>4 DEF HaltGate, Shape, WorkerShape
  <2>2. UNCHANGED <<life, exec, sent, posted, job>>
    BY <2>0, <1>4 DEF HaltGate
  <2>3. pc'[w] \in {"execute", "record"}
    BY <2>0, <1>4, <1>a DEF HaltGate
  <2>4. \A v \in Workers \ {w} : pc'[v] = pc[v] /\ out'[v] = out[v]
    BY <2>0, <1>4, <1>a DEF HaltGate
  <2>5. /\ t \in Trades /\ job[w] = Alloc(t) /\ HoldsRun(w, t)
        /\ sent[t] <= 1 /\ life[t].state \in TradeStates /\ Claimed(w, t)
        /\ \A r \in Outcomes : Result(t, r) \notin posted
    BY <2>0, <2>1, Runner
  <2>6. exec[t] = "reserved" /\ sent[t] = 0
    BY <2>0, <2>1, <2>5 DEF Claimed
  <2>7. Claimed(w, t)'
    BY <2>0, <2>2, <2>3, <2>5, <2>6 DEF Claimed
  <2>8. \A r \in Outcomes : Posted(t, r)'
    BY <2>0, <2>2, <2>5 DEF Posted
  <2> QED BY <2>0, <2>2, <2>4, <2>5, <2>6, <2>7, <2>8, GateLocal
<1>5. ASSUME NEW w \in Workers, Execute(w) PROVE Gate'
  <2>0. PICK t \in Trades : t = job[w].trade
    BY <1>5, HeldEvent DEF Execute
  <2>1. pc[w] = "execute" /\ job[w].kind = "alloc"
    BY <2>0, <1>5 DEF Execute, Shape, WorkerShape
  <2>2. UNCHANGED <<life, exec, posted, job>>
    BY <2>0, <1>5 DEF Execute
  <2>3. pc'[w] = "record"
    BY <2>0, <1>5, <1>a DEF Execute
  <2>4. \A v \in Workers \ {w} : pc'[v] = pc[v] /\ out'[v] = out[v]
    BY <2>0, <1>5, <1>a DEF Execute
  <2>5. /\ t \in Trades /\ job[w] = Alloc(t) /\ HoldsRun(w, t)
        /\ life[t].state \in TradeStates /\ Claimed(w, t)
        /\ \A r \in Outcomes : Result(t, r) \notin posted
    BY <2>0, <2>1, Runner
  <2>6. exec[t] = "reserved" /\ sent[t] = 0
    BY <2>0, <2>1, <2>5 DEF Claimed
  <2>7. sent' = sent \/ sent' = [sent EXCEPT ![t] = @ + 1]
    BY <2>0, <1>5 DEF Execute
  <2>8. sent'[t] <= 1 /\ \A u \in Trades \ {t} : sent'[u] = sent[u]
    BY <2>0, <1>b, <2>5, <2>6, <2>7
  <2>9. Claimed(w, t)'
    BY <2>0, <2>2, <2>3, <2>5, <2>6 DEF Claimed
  <2>10. \A r \in Outcomes : Posted(t, r)'
    BY <2>0, <2>2, <2>5 DEF Posted
  <2> QED BY <2>0, <2>2, <2>4, <2>5, <2>6, <2>8, <2>9, <2>10, GateLocal
<1>6. ASSUME NEW w \in Workers, InsertExecutionResult(w) PROVE Gate'
  <2>0. PICK t \in Trades : t = job[w].trade
    BY <1>6, HeldEvent DEF InsertExecutionResult
  <2>1. pc[w] = "record" /\ job[w].kind = "alloc"
    BY <2>0, <1>6 DEF InsertExecutionResult, Shape, WorkerShape
  <2>2. UNCHANGED <<life, sent, posted, job, out>>
    BY <2>0, <1>6 DEF InsertExecutionResult
  <2>3. pc'[w] = "read" /\ \A v \in Workers \ {w} : pc'[v] = pc[v]
    BY <2>0, <1>6, <1>a DEF InsertExecutionResult
  <2>4. /\ t \in Trades /\ job[w] = Alloc(t) /\ HoldsRun(w, t)
        /\ sent[t] <= 1 /\ life[t].state \in TradeStates
        /\ \A r \in Outcomes : Result(t, r) \notin posted
    BY <2>0, <2>1, Runner
  <2>5. out[w].tag \in Outcomes
    BY <2>0, <2>1, EventForm DEF Shape, WorkerShape, Carries
  <2>6. exec'[t] = out[w].tag /\ \A u \in Trades \ {t} : exec'[u] = exec[u]
    BY <2>0, <1>6, <1>b, <2>4 DEF InsertExecutionResult
  <2>7. Claimed(w, t)'
    BY <2>0, <2>2, <2>3, <2>4, <2>5, <2>6 DEF Claimed, Outcomes
  <2>8. \A r \in Outcomes : Posted(t, r)'
    BY <2>0, <2>2, <2>4 DEF Posted
  <2>9. exec'[t] # "none"
    BY <2>0, <2>5, <2>6 DEF Outcomes
  <2> QED BY <2>0, <2>2, <2>3, <2>4, <2>6, <2>7, <2>8, <2>9, GateLocal
<1>7. ASSUME NEW w \in Workers, UpsertPosition(w) PROVE Gate'
  <2>1. \A t \in Trades : job[w] # Alloc(t)
    BY <1>7, Names DEF UpsertPosition, Shape, WorkerShape
  <2> QED BY <1>7, <1>a, <2>1, GateFrame DEF UpsertPosition, HoldsRun
<1>8. ASSUME NEW w \in Workers, ReadLifecycle(w) PROVE Gate'
  <2>1. UNCHANGED <<life, exec, sent, posted, job, out>> /\ pc[w] = "read"
    BY <1>8 DEF ReadLifecycle
  <2>2. CASE pc' = [pc EXCEPT ![w] = "mark"]
    BY <1>a, <2>1, <2>2, GateFrame DEF HoldsRun
  <2>3. CASE job[w].kind # "alloc"
    <3>1. \A t \in Trades : job[w] # Alloc(t)
      BY <2>3, Names
    <3>2. \A v \in Workers \ {w} : pc'[v] = pc[v]
      BY <1>8, <1>a DEF ReadLifecycle
    <3> QED BY <2>1, <3>1, <3>2, GateFrame DEF HoldsRun
  <2>4. CASE job[w].kind = "alloc" /\ pc' = [pc EXCEPT ![w] = "cas"]
    <3>0. PICK t \in Trades : t = job[w].trade
      BY <2>1, HeldEvent
    <3>1. /\ job[w] = Alloc(t) /\ HoldsRun(w, t) /\ exec[t] # "none"
          /\ sent[t] <= 1 /\ life[t].state \in TradeStates /\ Claimed(w, t)
          /\ \A r \in Outcomes : Result(t, r) \notin posted
      BY <2>1, <2>4, <3>0, Runner
    <3>2. pc'[w] = "cas" /\ \A v \in Workers \ {w} : pc'[v] = pc[v]
      BY <1>a, <2>4
    <3>3. Claimed(w, t)'
      BY <2>1, <3>1, <3>2 DEF Claimed
    <3>4. \A r \in Outcomes : Posted(t, r)'
      BY <2>1, <3>1 DEF Posted
    <3> QED BY <2>1, <3>1, <3>2, <3>3, <3>4, GateLocal
  <2> QED BY <1>8, <2>2, <2>3, <2>4 DEF ReadLifecycle
<1>9. ASSUME NEW w \in Workers, TransitionState(w) PROVE Gate'
  <2>0. PICK t \in Trades : t = job[w].trade
    BY <1>9, HeldEvent DEF TransitionState
  <2>1. UNCHANGED <<exec, sent>> /\ pc[w] = "cas" /\ Carries(w)
    BY <1>9 DEF TransitionState, Shape, WorkerShape
  <2>2. CASE Fail(w) /\ UNCHANGED life
    BY <1>a, <2>1, <2>2, GateFrame DEF Fail, Drop, HoldsRun
  <2>3. CASE /\ Transits(life[t], seen[w], To(out[w]))
             /\ life' = [life EXCEPT ![t] = Advanced(@, To(out[w]))]
             /\ pc' = [pc EXCEPT ![w] = "emit"]
             /\ UNCHANGED <<busVars, job, out>>
    <3>1. /\ pc'[w] = "emit" /\ \A v \in Workers \ {w} : pc'[v] = pc[v]
          /\ UNCHANGED <<posted, job, out>>
      BY <1>a, <2>3
    <3>2. life'[t].state = To(out[w]) /\ \A u \in Trades \ {t} : life'[u] = life[u]
      <4>1. life[t] \in LifecycleRows /\ life'[t] = Advanced(life[t], To(out[w]))
        BY <1>b, <2>3
      <4>2. Advanced(life[t], To(out[w])).state = To(out[w])
        BY <2>3, <4>1, AdvancedRow
      <4> QED BY <1>b, <2>3, <4>1, <4>2
    <3>3. CASE job[w].kind = "alloc"
      <4>1. /\ job[w] = Alloc(t) /\ HoldsRun(w, t) /\ exec[t] # "none"
            /\ sent[t] <= 1 /\ Claimed(w, t)
            /\ \A r \in Outcomes : Result(t, r) \notin posted
        BY <2>0, <2>1, <3>3, Runner
      <4>2. /\ out[w].tag # "halted"
            /\ life'[t].state = IF out[w].tag = "failed" THEN "FAILED" ELSE "EXECUTED"
        BY <2>0, <2>1, <2>3, <3>2, <3>3, WorkerMoves
      <4>3. Went(t, out[w].tag)'
        BY <3>1, <4>2 DEF Went
      <4>4. Claimed(w, t)'
        BY <2>1, <3>1, <4>1, <4>3 DEF Claimed
      <4>5. \A r \in Outcomes : Posted(t, r)'
        BY <3>1, <4>1 DEF Posted
      <4>6. life'[t].state \in TradeStates
        BY <4>2 DEF TradeStates
      <4> QED BY <2>1, <3>1, <3>2, <4>1, <4>4, <4>5, <4>6, GateLocal
    <3>4. CASE job[w].kind = "result"
      <4>1. job[w].tag \in Outcomes /\ job[w] = Result(t, job[w].tag) /\ job[w] \in posted
        BY <2>0, <2>1, <3>4, HeldEvent, EventForm
      <4>2. life'[t].state = IF job[w].tag = "filled" THEN "POSITION_OPEN" ELSE "FAILED"
        BY <2>0, <2>1, <2>3, <3>2, <3>4, WorkerMoves
      <4>3. \A v \in Workers : ~HoldsRun(v, t)
        BY <4>1 DEF Gate, Claimed
      <4>4. \A r \in Outcomes : Result(t, r) \in posted => r = job[w].tag /\ r # "halted"
        BY <4>1 DEF Gate, Posted, Went
      <4>5. \A r \in Outcomes : Result(t, r) \in posted => Went(t, r)'
        BY <4>2, <4>4 DEF Went
      <4>6. life'[t].state \in TradeStates
        BY <4>2 DEF TradeStates
      <4>7. \A v \in Workers, u \in Trades :
              HoldsRun(v, u)' => job'[v] = job[v] /\ pc'[v] = pc[v] /\ out'[v] = out[v]
        BY <3>1, <3>4, Names DEF HoldsRun
      <4> QED BY <2>1, <3>1, <3>2, <4>3, <4>5, <4>6, <4>7, GateLife
    <3> QED BY <2>1, <3>3, <3>4 DEF Carries
  <2>4. \/ Fail(w) /\ UNCHANGED life
        \/ /\ Transits(life[job[w].trade], seen[w], To(out[w]))
           /\ life' = [life EXCEPT ![job[w].trade] = Advanced(@, To(out[w]))]
           /\ pc' = [pc EXCEPT ![w] = "emit"]
           /\ UNCHANGED <<busVars, job, out>>
    BY <1>9 DEF TransitionState
  <2> QED BY <2>0, <2>2, <2>3, <2>4
<1>10. ASSUME NEW w \in Workers, InsertOutput(w) PROVE Gate'
  <2>1. /\ UNCHANGED <<life, exec, sent, job, out>>
        /\ pc[w] = "emit" /\ posted' = posted \union {out[w]}
        /\ Carries(w) \/ (job[w].kind = "alloc" /\ out[w] = job[w])
    BY <1>10 DEF InsertOutput, Shape, WorkerShape
  <2>2. pc'[w] = "mark" /\ \A v \in Workers \ {w} : pc'[v] = pc[v]
    BY <1>10, <1>a DEF InsertOutput
  <2>3. CASE out[w].kind # "result"
    <3>1. \A t \in Trades, r \in Outcomes : Result(t, r) \in posted' <=> Result(t, r) \in posted
      BY <2>1, <2>3, Names
    <3> QED BY <2>1, <2>2, <3>1, GateFrame DEF HoldsRun
  <2>4. CASE out[w].kind = "result"
    <3>0. PICK t \in Trades : t = job[w].trade
      BY <2>1, HeldEvent
    <3>1. job[w].kind = "alloc" /\ Carries(w)
      BY <2>1, <2>4 DEF Carries
    <3>2. /\ job[w] = Alloc(t) /\ HoldsRun(w, t) /\ exec[t] # "none"
          /\ sent[t] <= 1 /\ life[t].state \in TradeStates /\ Claimed(w, t)
          /\ \A r \in Outcomes : Result(t, r) \notin posted
      BY <2>1, <2>4, <3>0, <3>1, Runner
    <3>3. out[w] = Result(t, out[w].tag) /\ out[w].tag \in Outcomes
      BY <2>4, <3>0, <3>1, EventForm DEF Carries
    <3>4. exec[t] \in {out[w].tag, "reserved"} /\ Went(t, out[w].tag)
      BY <2>1, <3>2 DEF Claimed
    <3>5. \A u \in Trades, r \in Outcomes :
            Result(u, r) \in posted' <=>
              Result(u, r) \in posted \/ (u = t /\ r = out[w].tag)
      BY <2>1, <3>3, Names
    <3>6. \A r \in Outcomes : Result(t, r) \in posted' => r = out[w].tag
      BY <3>2, <3>5
    <3>7. \A r \in Outcomes : Posted(t, r)'
      BY <2>1, <3>4, <3>6 DEF Posted, Went
    <3>8. Claimed(w, t)'
      BY <2>2 DEF Claimed, HoldsRun
    <3> QED BY <2>1, <2>2, <3>2, <3>5, <3>7, <3>8, GateLocal
  <2> QED BY <2>3, <2>4
<1>11. ASSUME NEW w \in Workers, MarkEventProcessed(w) PROVE Gate'
  BY <1>11, <1>a, GateFrame DEF MarkEventProcessed, Drop, HoldsRun
<1>12. ASSUME NEW w \in Workers, Evaluate(w) PROVE Gate'
  BY <1>12, <1>a, GateFrame DEF Evaluate, Fail, Drop, HoldsRun
<1>13. ASSUME NEW w \in Workers, WorkerStatementFails(w) PROVE Gate'
  <2>1. UNCHANGED <<life, exec, sent>> /\ pc[w] # "idle"
    BY <1>13 DEF WorkerStatementFails
  <2>2. CASE Fail(w)
    BY <1>a, <2>1, <2>2, GateFrame DEF Fail, Drop, HoldsRun
  <2>3. CASE Drop(w) /\ UNCHANGED busVars
    BY <1>a, <2>1, <2>3, GateFrame DEF Drop, HoldsRun
  <2>4. CASE pc[w] = "record" /\ pc' = [pc EXCEPT ![w] = "read"] /\ UNCHANGED <<busVars, job, out>>
    <3>0. PICK t \in Trades : t = job[w].trade
      BY <2>1, HeldEvent
    <3>1. job[w].kind = "alloc"
      BY <2>4 DEF Shape, WorkerShape
    <3>2. /\ job[w] = Alloc(t) /\ HoldsRun(w, t) /\ exec[t] # "none"
          /\ sent[t] <= 1 /\ life[t].state \in TradeStates /\ Claimed(w, t)
          /\ \A r \in Outcomes : Result(t, r) \notin posted
      BY <2>1, <2>4, <3>0, <3>1, Runner
    <3>3. pc'[w] = "read" /\ \A v \in Workers \ {w} : pc'[v] = pc[v]
      BY <1>a, <2>4
    <3>4. Claimed(w, t)'
      BY <2>1, <2>4, <3>2, <3>3 DEF Claimed
    <3>5. \A r \in Outcomes : Posted(t, r)'
      BY <2>4, <3>2 DEF Posted
    <3> QED BY <2>1, <2>4, <3>2, <3>3, <3>4, <3>5, GateLocal
  <2> QED BY <1>13, <2>2, <2>3, <2>4 DEF WorkerStatementFails
<1>14. ASSUME NEW p \in Pollers, GetOpenPositions(p) PROVE Gate'
  BY <1>14, <1>a, GateFrame DEF GetOpenPositions, HoldsRun
<1>15. ASSUME NEW p \in Pollers, PollHolds(p) PROVE Gate'
  BY <1>15, <1>a, GateFrame DEF PollHolds, Continue, Drop, HoldsRun
<1>16. ASSUME NEW p \in Pollers, PollExits(p) PROVE Gate'
  BY <1>16, <1>a, GateFrame DEF PollExits, HoldsRun
<1>17. ASSUME NEW p \in Pollers, PollReadsLifecycle(p) PROVE Gate'
  <2>1. UNCHANGED <<life, exec, sent, posted, job, out>>
    BY <1>17 DEF PollReadsLifecycle
  <2>2. \A w \in Workers : pc'[w] = pc[w]
    BY <1>17, <1>a DEF PollReadsLifecycle
  <2> QED BY <2>1, <2>2, GateFrame
<1>18. ASSUME NEW p \in Pollers, PollTransitions(p) PROVE Gate'
  <2>0. PICK t : t = out[p].trade
    OBVIOUS
  <2>1. UNCHANGED <<exec, sent, posted>> /\ pc[p] = "cas"
    BY <1>18 DEF PollTransitions
  <2>2. \A w \in Workers : job'[w] = job[w] /\ pc'[w] = pc[w] /\ out'[w] = out[w]
    BY <1>18, <1>a DEF PollTransitions, Continue, Drop
  <2>3. CASE UNCHANGED life
    BY <2>1, <2>2, <2>3, GateFrame
  <2>4. CASE /\ Transits(life[t], seen[p], To(out[p]))
             /\ life' = [life EXCEPT ![t] = Advanced(@, To(out[p]))]
    <3>1. /\ t \in Trades /\ To(out[p]) = "POSITION_CLOSED"
          /\ life[t].state = "POSITION_OPEN"
      BY <2>0, <2>1, <2>4, PollMoves
    <3>2. /\ life'[t].state = "POSITION_CLOSED"
          /\ \A u \in Trades \ {t} : life'[u] = life[u]
      <4>1. life[t] \in LifecycleRows /\ life'[t] = Advanced(life[t], To(out[p]))
        BY <1>b, <2>4, <3>1
      <4>2. Advanced(life[t], To(out[p])).state = To(out[p])
        BY <2>4, <4>1, AdvancedRow
      <4> QED BY <1>b, <2>4, <3>1, <4>1, <4>2
    <3>3. \A w \in Workers : HoldsRun(w, t) /\ pc[w] = "emit" => Went(t, out[w].tag)'
      <4> SUFFICES ASSUME NEW w \in Workers, HoldsRun(w, t), pc[w] = "emit"
                   PROVE  Went(t, out[w].tag)'
        OBVIOUS
      <4>1. Went(t, out[w].tag)
        BY <3>1 DEF Gate, Claimed
      <4> QED BY <2>2, <3>1, <3>2, <4>1 DEF Went
    <3>4. \A r \in Outcomes : Result(t, r) \in posted => Went(t, r)'
      BY <3>1, <3>2 DEF Gate, Posted, Went
    <3>5. life'[t].state \in TradeStates
      BY <3>2 DEF TradeStates
    <3> QED BY <2>1, <2>2, <3>1, <3>2, <3>3, <3>4, <3>5, GateLife
  <2>5. \/ UNCHANGED life
        \/ /\ Transits(life[out[p].trade], seen[p], To(out[p]))
           /\ life' = [life EXCEPT ![out[p].trade] = Advanced(@, To(out[p]))]
    BY <1>18 DEF PollTransitions
  <2> QED BY <2>0, <2>3, <2>4, <2>5
<1>19. ASSUME NEW p \in Pollers, PollEmits(p) PROVE Gate'
  <2>1. out[p].kind = "exit"
    BY <1>19 DEF PollEmits, Shape, PollShape
  <2>2. \A t \in Trades, r \in Outcomes : Result(t, r) \in posted' <=> Result(t, r) \in posted
    BY <1>19, <2>1, Names DEF PollEmits
  <2> QED BY <1>19, <1>a, <2>2, GateFrame DEF PollEmits, Continue, Drop, HoldsRun
<1>20. ASSUME NEW p \in Pollers, PollStatementFails(p) PROVE Gate'
  BY <1>20, <1>a, GateFrame DEF PollStatementFails, Continue, Drop, HoldsRun
<1>21. ASSUME NEW p \in Procs, Crash(p) PROVE Gate'
  BY <1>21, <1>a, GateFrame DEF Crash, Drop, HoldsRun
<1>22. ASSUME NEW t \in Trades, ClosePositionForced(t) PROVE Gate'
  BY <1>22, GateFrame DEF ClosePositionForced, HoldsRun
<1>23. ASSUME NEW t \in Trades, ForceClosePositions(t) PROVE Gate'
  BY <1>23, GateFrame DEF ForceClosePositions, HoldsRun
<1>24. ASSUME NEW e \in dead, RequeueFromDLQ(e) PROVE Gate'
  BY <1>24, GateFrame DEF RequeueFromDLQ, HoldsRun
<1>25. CASE UNCHANGED vars
  BY <1>25, GateFrame DEF vars, HoldsRun
<1> QED
  BY <1>1, <1>2, <1>3, <1>4, <1>5, <1>6, <1>7, <1>8, <1>9, <1>10, <1>11, <1>12, <1>13, <1>14,
     <1>15, <1>16, <1>17, <1>18, <1>19, <1>20, <1>21, <1>22, <1>23, <1>24, <1>25
     DEF Next, WorkerStep, PollStep

-------------------------------------------------------------------------------
(* Book is inductive. *)

\* Initially there is no position, no poll under way and no exit.
LEMMA BookInit == Init => Book
<1> SUFFICES ASSUME Init PROVE Book
  OBVIOUS
<1>1. \A t \in Trades, r \in Reasons : Exit(t, r) \notin posted
  BY Names DEF Init
<1> QED BY <1>1, TradeAssumption DEF Init, Book, Booked, Procs, SelectedRow

\* A step that adds a position only for a fill, an exit only for a recorded
\* one, and keeps what is booked and recorded, preserves Book.
LEMMA BookStep ==
  ASSUME Shape, Book,
         posted \subseteq posted',
         \A t \in Trades : Booked(t) => Booked(t)',
         \A t \in Trades :
           Booked(t)' => \/ Booked(t) /\ ("failed" \in rows'[t] => "failed" \in rows[t])
                         \/ "failed" \notin rows'[t] /\ Result(t, "filled") \in posted,
         \A t \in Trades : rows[t] \intersect Reasons \subseteq rows'[t],
         \A p \in Pollers : list'[p] \subseteq Trades /\ \A t \in list'[p] : t \in list[p] \/ Booked(t),
         \A p \in Pollers :
           pc'[p] \in {"read", "cas", "emit"} =>
             \/ pc[p] \in {"read", "cas", "emit"} /\ out'[p] = out[p]
             \/ out'[p].tag \in rows'[out'[p].trade],
         \A t \in Trades, r \in Reasons : Exit(t, r) \in posted' => Exit(t, r) \in posted \/ r \in rows[t],
         \A t \in Trades :
           life'[t].state = "POSITION_CLOSED" =>
             life[t].state = "POSITION_CLOSED" \/ rows[t] \intersect Reasons # {}
  PROVE  Book'
<1>1. \A t \in Trades : (Booked(t) => "failed" \notin rows[t] /\ Result(t, "filled") \in posted)'
  BY DEF Book
<1>2. \A p \in Pollers : \A t \in list'[p] : Booked(t)'
  BY DEF Book
<1>3. \A p \in Pollers :
        pc'[p] \in {"read", "cas", "emit"} => out'[p].tag \in rows'[out'[p].trade]
  <2> SUFFICES ASSUME NEW p \in Pollers, pc[p] \in {"read", "cas", "emit"}, out'[p] = out[p]
               PROVE  out[p].tag \in rows'[out[p].trade]
    OBVIOUS
  <2>1. out[p] \in Events /\ out[p].kind = "exit"
    BY DEF Shape, PollShape
  <2>2. out[p].tag \in Reasons /\ out[p].trade \in Trades
    BY <2>1, EventForm
  <2> QED BY <2>2 DEF Book
<1>4. \A t \in Trades, r \in Reasons : Exit(t, r) \in posted' => r \in rows'[t]
  BY DEF Book
<1>5. \A t \in Trades :
        life'[t].state = "POSITION_CLOSED" => rows'[t] \intersect Reasons # {}
  BY DEF Book
<1> QED BY <1>1, <1>2, <1>3, <1>4, <1>5 DEF Book

\* A step of a worker that leaves the positions alone preserves Book when it
\* posts no exit and closes no lifecycle.
LEMMA BookWorker ==
  ASSUME Shape, Book,
         UNCHANGED rows, posted \subseteq posted',
         \A p \in Pollers : pc'[p] = pc[p] /\ out'[p] = out[p] /\ list'[p] = list[p],
         \A t \in Trades, r \in Reasons : Exit(t, r) \in posted' => Exit(t, r) \in posted,
         \A t \in Trades : life'[t].state = "POSITION_CLOSED" => life[t].state = "POSITION_CLOSED"
  PROVE  Book'
<1>1. \A t \in Trades : Booked(t)' <=> Booked(t)
  BY DEF Booked
<1>2. \A p \in Pollers : list[p] \subseteq Trades
  BY DEF Shape, TypeOK, Procs
<1> QED BY <1>1, <1>2, BookStep

\* Book is preserved by every step.
LEMMA BookNext == Shape /\ Gate /\ Book /\ [Next]_vars => Book'
<1> SUFFICES ASSUME Shape, Gate, Book, [Next]_vars PROVE Book'
  OBVIOUS
<1>a. /\ pc \in [Procs -> PCs]
      /\ job \in [Procs -> Events \union {NoEvent}]
      /\ out \in [Procs -> Events \union {NoEvent}]
      /\ list \in [Procs -> SUBSET Trades]
      /\ Workers \subseteq Procs /\ Pollers \subseteq Procs
      /\ Workers \intersect Pollers = {}
  BY TradeAssumption DEF Shape, TypeOK, Procs
<1>b. /\ life \in [Trades -> LifecycleRows]
      /\ rows \in [Trades -> SUBSET ({"open", "failed"} \union ExitTags)]
  BY DEF Shape, TypeOK
<1> USE DEF Goto, busVars, procVars
<1>1. ASSUME NEW w \in Workers, Deliver(w) PROVE Book'
  BY <1>1, <1>a, BookWorker DEF Deliver
<1>2. ASSUME NEW w \in Workers, ClaimExecution(w) PROVE Book'
  BY <1>2, <1>a, BookWorker DEF ClaimExecution
<1>3. ASSUME NEW w \in Workers, Reemit(w) PROVE Book'
  BY <1>3, <1>a, BookWorker DEF Reemit, Fail, Drop
<1>4. ASSUME NEW w \in Workers, HaltGate(w) PROVE Book'
  BY <1>4, <1>a, BookWorker DEF HaltGate
<1>5. ASSUME NEW w \in Workers, Execute(w) PROVE Book'
  BY <1>5, <1>a, BookWorker DEF Execute
<1>6. ASSUME NEW w \in Workers, InsertExecutionResult(w) PROVE Book'
  BY <1>6, <1>a, BookWorker DEF InsertExecutionResult
<1>7. ASSUME NEW w \in Workers, UpsertPosition(w) PROVE Book'
  <2>0. PICK t \in Trades : t = job[w].trade
    BY <1>7, HeldEvent DEF UpsertPosition
  <2>1. /\ UNCHANGED <<life, posted, list>>
        /\ \A p \in Pollers : pc'[p] = pc[p] /\ out'[p] = out[p]
    BY <1>7, <1>a DEF UpsertPosition
  <2>2. CASE UNCHANGED rows
    BY <2>1, <2>2, BookWorker
  <2>3. CASE rows[t] = {} /\ rows' = [rows EXCEPT ![t] = {OpenStatus(job[w].tag)}]
    <3>1. rows'[t] = {OpenStatus(job[w].tag)} /\ \A u \in Trades \ {t} : rows'[u] = rows[u]
      BY <1>b, <2>3
    <3>2. job[w] = Result(t, job[w].tag) /\ job[w] \in posted
      BY <1>7, <2>0, HeldEvent, EventForm DEF UpsertPosition, Shape, WorkerShape
    <3>3. Booked(t)' => "failed" \notin rows'[t] /\ Result(t, "filled") \in posted
      BY <3>1, <3>2 DEF Booked, OpenStatus
    <3>4. \A u \in Trades \ {t} : Booked(u)' <=> Booked(u)
      BY <3>1 DEF Booked
    <3>5. ~Booked(t)
      BY <2>3 DEF Booked
    <3>6. \A p \in Pollers : list[p] \subseteq Trades
      BY <1>a
    <3>7. \A u \in Trades :
            Booked(u)' => \/ Booked(u) /\ ("failed" \in rows'[u] => "failed" \in rows[u])
                          \/ "failed" \notin rows'[u] /\ Result(u, "filled") \in posted
      BY <3>1, <3>3, <3>4
    <3>8. \A p \in Pollers :
            pc'[p] \in {"read", "cas", "emit"} =>
              pc[p] \in {"read", "cas", "emit"} /\ out'[p] = out[p]
      BY <2>1
    <3>9. \A u \in Trades : rows[u] \intersect Reasons \subseteq rows'[u]
      BY <2>3, <3>1
    <3> QED BY <2>1, <3>4, <3>5, <3>6, <3>7, <3>8, <3>9, BookStep
  <2>4. \/ UNCHANGED rows
        \/ /\ rows[job[w].trade] = {}
           /\ rows' = [rows EXCEPT ![job[w].trade] = {OpenStatus(job[w].tag)}]
    BY <1>7 DEF UpsertPosition
  <2> QED BY <2>0, <2>2, <2>3, <2>4
<1>8. ASSUME NEW w \in Workers, ReadLifecycle(w) PROVE Book'
  BY <1>8, <1>a, BookWorker DEF ReadLifecycle
<1>9. ASSUME NEW w \in Workers, TransitionState(w) PROVE Book'
  <2>0. PICK t \in Trades : t = job[w].trade
    BY <1>9, HeldEvent DEF TransitionState
  <2>1. /\ UNCHANGED <<rows, posted>> /\ pc[w] = "cas"
        /\ \A p \in Pollers : pc'[p] = pc[p] /\ out'[p] = out[p] /\ list'[p] = list[p]
    BY <1>9, <1>a DEF TransitionState, Fail, Drop
  <2>2. CASE UNCHANGED life
    BY <2>1, <2>2, BookWorker
  <2>3. CASE /\ Transits(life[t], seen[w], To(out[w]))
             /\ life' = [life EXCEPT ![t] = Advanced(@, To(out[w]))]
    <3>1. To(out[w]) # "POSITION_CLOSED"
      <4>1. Carries(w)
        BY <2>1 DEF Shape, WorkerShape
      <4>2. job[w].kind = "alloc" \/ job[w].kind = "result"
        BY <4>1 DEF Carries
      <4> QED BY <2>0, <2>1, <2>3, <4>2, WorkerMoves
    <3>2. life'[t].state = To(out[w]) /\ \A u \in Trades \ {t} : life'[u] = life[u]
      <4>1. life[t] \in LifecycleRows /\ life'[t] = Advanced(life[t], To(out[w]))
        BY <1>b, <2>3
      <4>2. Advanced(life[t], To(out[w])).state = To(out[w])
        BY <2>3, <4>1, AdvancedRow
      <4> QED BY <1>b, <2>3, <4>1, <4>2
    <3> QED BY <2>1, <3>1, <3>2, BookWorker
  <2>4. \/ UNCHANGED life
        \/ /\ Transits(life[job[w].trade], seen[w], To(out[w]))
           /\ life' = [life EXCEPT ![job[w].trade] = Advanced(@, To(out[w]))]
    BY <1>9 DEF TransitionState
  <2> QED BY <2>0, <2>2, <2>3, <2>4
<1>10. ASSUME NEW w \in Workers, InsertOutput(w) PROVE Book'
  <2>1. /\ UNCHANGED <<life, rows>> /\ posted' = posted \union {out[w]}
        /\ \A p \in Pollers : pc'[p] = pc[p] /\ out'[p] = out[p] /\ list'[p] = list[p]
    BY <1>10, <1>a DEF InsertOutput
  <2>2. out[w].kind # "exit"
    BY <1>10 DEF InsertOutput, Shape, WorkerShape, Carries
  <2>3. \A t \in Trades, r \in Reasons : Exit(t, r) \in posted' => Exit(t, r) \in posted
    BY <2>1, <2>2, Names
  <2> QED BY <2>1, <2>3, BookWorker
<1>11. ASSUME NEW w \in Workers, MarkEventProcessed(w) PROVE Book'
  BY <1>11, <1>a, BookWorker DEF MarkEventProcessed, Drop
<1>12. ASSUME NEW w \in Workers, Evaluate(w) PROVE Book'
  BY <1>12, <1>a, BookWorker DEF Evaluate, Fail, Drop
<1>13. ASSUME NEW w \in Workers, WorkerStatementFails(w) PROVE Book'
  <2>1. UNCHANGED <<life, rows, posted>>
    BY <1>13 DEF WorkerStatementFails, Fail
  <2>2. \A p \in Pollers : pc'[p] = pc[p] /\ out'[p] = out[p] /\ list'[p] = list[p]
    BY <1>13, <1>a DEF WorkerStatementFails, Fail, Drop
  <2> QED BY <2>1, <2>2, BookWorker
<1>14. ASSUME NEW p \in Pollers, GetOpenPositions(p) PROVE Book'
  <2>1. UNCHANGED <<life, rows, posted>>
    BY <1>14 DEF GetOpenPositions
  <2>2. \A q \in Pollers :
          /\ list'[q] \subseteq Trades
          /\ \A t \in list'[q] : t \in list[q] \/ Booked(t)
    BY <1>14, <1>a DEF GetOpenPositions, OpenPositions, Booked
  <2>3. \A q \in Pollers :
          pc'[q] \in {"read", "cas", "emit"} =>
            pc[q] \in {"read", "cas", "emit"} /\ out'[q] = out[q]
    BY <1>14, <1>a DEF GetOpenPositions
  <2>4. \A t \in Trades : Booked(t)' <=> Booked(t)
    BY <2>1 DEF Booked
  <2> QED BY <2>1, <2>2, <2>3, <2>4, BookStep
<1>15. ASSUME NEW p \in Pollers, PollHolds(p) PROVE Book'
  <2>1. PICK t \in list[p] : /\ rows' = [rows EXCEPT ![t] = @ \union {"open"}]
                             /\ Continue(p, list[p] \ {t})
    BY <1>15 DEF PollHolds
  <2>2. UNCHANGED <<life, posted>> /\ t \in Trades /\ Booked(t)
    BY <1>15, <1>a, <2>1 DEF PollHolds, Book
  <2>3. /\ rows'[t] = rows[t] \union {"open"}
        /\ \A u \in Trades \ {t} : rows'[u] = rows[u]
    BY <1>b, <2>1, <2>2
  <2>4. \A q \in Pollers : list'[q] \subseteq list[q] /\ list[q] \subseteq Trades
    BY <1>a, <2>1 DEF Continue, Drop
  <2>5. \A q \in Pollers :
          pc'[q] \in {"read", "cas", "emit"} =>
            pc[q] \in {"read", "cas", "emit"} /\ out'[q] = out[q]
    BY <1>a, <2>1 DEF Continue, Drop
  <2>6. \A u \in Trades : Booked(u)' <=> Booked(u)
    BY <2>2, <2>3 DEF Booked
  <2>7. \A u \in Trades :
          /\ "failed" \in rows'[u] => "failed" \in rows[u]
          /\ rows[u] \intersect Reasons \subseteq rows'[u]
    BY <2>3
  <2> QED BY <2>2, <2>4, <2>5, <2>6, <2>7, BookStep
<1>16. ASSUME NEW p \in Pollers, PollExits(p) PROVE Book'
  <2>1. PICK t \in list[p], r \in Reasons :
          /\ rows' = [rows EXCEPT ![t] = @ \union {r}]
          /\ out' = [out EXCEPT ![p] = Exit(t, r)]
          /\ list' = [list EXCEPT ![p] = @ \ {t}]
    BY <1>16 DEF PollExits
  <2>2. UNCHANGED <<life, posted>> /\ t \in Trades /\ Booked(t)
    BY <1>16, <1>a, <2>1 DEF PollExits, Book
  <2>3. /\ rows'[t] = rows[t] \union {r} /\ r # "failed"
        /\ \A u \in Trades \ {t} : rows'[u] = rows[u]
    BY <1>b, <2>1, <2>2, TradeAssumption DEF Outcomes
  <2>4. \A q \in Pollers : list'[q] \subseteq list[q] /\ list[q] \subseteq Trades
    BY <1>a, <2>1
  <2>5. \A q \in Pollers :
          pc'[q] \in {"read", "cas", "emit"} =>
            \/ pc[q] \in {"read", "cas", "emit"} /\ out'[q] = out[q]
            \/ out'[q].tag \in rows'[out'[q].trade]
    <3>1. out'[p].tag = r /\ out'[p].trade = t
      BY <1>a, <2>1, <2>2, Names
    <3>2. \A q \in Pollers \ {p} : pc'[q] = pc[q] /\ out'[q] = out[q]
      BY <1>16, <1>a, <2>1 DEF PollExits
    <3> QED BY <2>3, <3>1, <3>2
  <2>6. \A u \in Trades : Booked(u)' <=> Booked(u)
    BY <2>2, <2>3 DEF Booked
  <2>7. \A u \in Trades :
          /\ "failed" \in rows'[u] => "failed" \in rows[u]
          /\ rows[u] \intersect Reasons \subseteq rows'[u]
    BY <2>3
  <2> QED BY <2>2, <2>4, <2>5, <2>6, <2>7, BookStep
<1>17. ASSUME NEW p \in Pollers, PollReadsLifecycle(p) PROVE Book'
  <2>1. UNCHANGED <<life, rows, posted, list, out>>
    BY <1>17 DEF PollReadsLifecycle
  <2>2. \A q \in Pollers :
          pc'[q] \in {"read", "cas", "emit"} =>
            pc[q] \in {"read", "cas", "emit"} /\ out'[q] = out[q]
    BY <1>17, <1>a DEF PollReadsLifecycle
  <2>3. \A q \in Pollers : list'[q] \subseteq list[q] /\ list[q] \subseteq Trades
    BY <1>a, <2>1
  <2>4. \A u \in Trades : Booked(u)' <=> Booked(u)
    BY <2>1 DEF Booked
  <2> QED BY <2>1, <2>2, <2>3, <2>4, BookStep
<1>18. ASSUME NEW p \in Pollers, PollTransitions(p) PROVE Book'
  <2>0. PICK t : t = out[p].trade
    OBVIOUS
  <2>1. UNCHANGED <<rows, posted>> /\ pc[p] = "cas"
    BY <1>18 DEF PollTransitions
  <2>2. \A q \in Pollers :
          pc'[q] \in {"read", "cas", "emit"} =>
            pc[q] \in {"read", "cas", "emit"} /\ out'[q] = out[q]
    BY <1>18, <1>a DEF PollTransitions, Continue, Drop
  <2>3. \A q \in Pollers : list'[q] \subseteq list[q] /\ list[q] \subseteq Trades
    BY <1>18, <1>a DEF PollTransitions, Continue, Drop
  <2>4. \A u \in Trades : Booked(u)' <=> Booked(u)
    BY <2>1 DEF Booked
  <2>5. CASE UNCHANGED life
    BY <2>1, <2>2, <2>3, <2>4, <2>5, BookStep
  <2>6. CASE /\ Transits(life[t], seen[p], To(out[p]))
             /\ life' = [life EXCEPT ![t] = Advanced(@, To(out[p]))]
    <3>1. t \in Trades /\ out[p] \in Events
      BY <2>0, <2>1, <2>6, PollMoves
    <3>2. out[p].tag \in rows[t] /\ out[p].tag \in Reasons
      BY <2>0, <2>1, <3>1, EventForm DEF Book, Shape, PollShape
    <3>3. \A u \in Trades \ {t} : life'[u] = life[u]
      BY <1>b, <2>6
    <3> QED BY <2>1, <2>2, <2>3, <2>4, <3>1, <3>2, <3>3, BookStep
  <2>7. \/ UNCHANGED life
        \/ /\ Transits(life[out[p].trade], seen[p], To(out[p]))
           /\ life' = [life EXCEPT ![out[p].trade] = Advanced(@, To(out[p]))]
    BY <1>18 DEF PollTransitions
  <2> QED BY <2>0, <2>5, <2>6, <2>7
<1>19. ASSUME NEW p \in Pollers, PollEmits(p) PROVE Book'
  <2>1. UNCHANGED <<life, rows>> /\ pc[p] = "emit" /\ posted' = posted \union {out[p]}
    BY <1>19 DEF PollEmits
  <2>2. \A q \in Pollers :
          pc'[q] \in {"read", "cas", "emit"} =>
            pc[q] \in {"read", "cas", "emit"} /\ out'[q] = out[q]
    BY <1>19, <1>a DEF PollEmits, Continue, Drop
  <2>3. \A q \in Pollers : list'[q] \subseteq list[q] /\ list[q] \subseteq Trades
    BY <1>19, <1>a DEF PollEmits, Continue, Drop
  <2>4. \A u \in Trades : Booked(u)' <=> Booked(u)
    BY <2>1 DEF Booked
  <2>5. out[p].tag \in rows[out[p].trade]
    BY <2>1 DEF Book
  <2>6. \A t \in Trades, r \in Reasons : Exit(t, r) \in posted' => Exit(t, r) \in posted \/ r \in rows[t]
    BY <2>1, <2>5, Names
  <2> QED BY <2>1, <2>2, <2>3, <2>4, <2>6, BookStep
<1>20. ASSUME NEW p \in Pollers, PollStatementFails(p) PROVE Book'
  <2>1. UNCHANGED <<life, rows, posted>>
    BY <1>20 DEF PollStatementFails
  <2>2. \A q \in Pollers :
          pc'[q] \in {"read", "cas", "emit"} =>
            pc[q] \in {"read", "cas", "emit"} /\ out'[q] = out[q]
    BY <1>20, <1>a DEF PollStatementFails, Continue, Drop
  <2>3. \A q \in Pollers : list'[q] \subseteq list[q] /\ list[q] \subseteq Trades
    BY <1>20, <1>a DEF PollStatementFails, Continue, Drop
  <2>4. \A u \in Trades : Booked(u)' <=> Booked(u)
    BY <2>1 DEF Booked
  <2> QED BY <2>1, <2>2, <2>3, <2>4, BookStep
<1>21. ASSUME NEW p \in Procs, Crash(p) PROVE Book'
  <2>1. UNCHANGED <<life, rows, posted>>
    BY <1>21 DEF Crash
  <2>2. \A q \in Pollers :
          pc'[q] \in {"read", "cas", "emit"} =>
            pc[q] \in {"read", "cas", "emit"} /\ out'[q] = out[q]
    BY <1>21, <1>a DEF Crash, Drop
  <2>3. \A q \in Pollers : list'[q] \subseteq list[q] /\ list[q] \subseteq Trades
    BY <1>21, <1>a DEF Crash, Drop
  <2>4. \A u \in Trades : Booked(u)' <=> Booked(u)
    BY <2>1 DEF Booked
  <2> QED BY <2>1, <2>2, <2>3, <2>4, BookStep
<1>22. ASSUME NEW t \in Trades, ClosePositionForced(t) PROVE Book'
  <2>1. UNCHANGED <<life, posted, pc, out, list>>
    BY <1>22 DEF ClosePositionForced
  <2>2. /\ rows'[t] = (rows[t] \ {"open"}) \union {"onchain_zero"} /\ "open" \in rows[t]
        /\ \A u \in Trades \ {t} : rows'[u] = rows[u]
    BY <1>22, <1>b DEF ClosePositionForced
  <2>3. \A u \in Trades : Booked(u)' <=> Booked(u)
    BY <2>2 DEF Booked
  <2>4. \A u \in Trades :
          /\ "failed" \in rows'[u] => "failed" \in rows[u]
          /\ rows[u] \intersect Reasons \subseteq rows'[u]
    BY <2>2, TradeAssumption
  <2>5. \A q \in Pollers : list[q] \subseteq Trades
    BY <1>a
  <2> QED BY <2>1, <2>3, <2>4, <2>5, BookStep
<1>23. ASSUME NEW t \in Trades, ForceClosePositions(t) PROVE Book'
  <2>1. UNCHANGED <<life, posted, pc, out, list>>
    BY <1>23 DEF ForceClosePositions
  <2>2. /\ rows'[t] = rows[t] \union {"MANUAL"} /\ Booked(t)
        /\ \A u \in Trades \ {t} : rows'[u] = rows[u]
    BY <1>23, <1>b DEF ForceClosePositions, Booked
  <2>3. \A u \in Trades : Booked(u)' <=> Booked(u)
    BY <2>2 DEF Booked
  <2>4. \A u \in Trades :
          /\ "failed" \in rows'[u] => "failed" \in rows[u]
          /\ rows[u] \intersect Reasons \subseteq rows'[u]
    BY <2>2
  <2>5. \A q \in Pollers : list[q] \subseteq Trades
    BY <1>a
  <2> QED BY <2>1, <2>3, <2>4, <2>5, BookStep
<1>24. ASSUME NEW e \in dead, RequeueFromDLQ(e) PROVE Book'
  BY <1>24, BookWorker DEF RequeueFromDLQ
<1>25. CASE UNCHANGED vars
  BY <1>25, BookWorker DEF vars
<1> QED
  BY <1>1, <1>2, <1>3, <1>4, <1>5, <1>6, <1>7, <1>8, <1>9, <1>10, <1>11, <1>12, <1>13, <1>14,
     <1>15, <1>16, <1>17, <1>18, <1>19, <1>20, <1>21, <1>22, <1>23, <1>24, <1>25
     DEF Next, WorkerStep, PollStep

-------------------------------------------------------------------------------
(* The theorems. *)

\* The three layers together are inductive.
LEMMA IInvInvariant == Spec => []IInv
<1>1. Init => IInv
  BY ShapeInit, GateInit, BookInit DEF IInv
<1>2. IInv /\ [Next]_vars => IInv'
  BY ShapeNext, GateNext, BookNext DEF IInv
<1> QED BY <1>1, <1>2, PTL DEF Spec

\* Type correctness: the tables, the bus and what the processes of the trade
\* path hold in memory keep their types.
THEOREM TradeTypeCorrect == Spec => []TypeOK
<1>1. IInv => TypeOK
  BY DEF IInv, Shape
<1> QED BY <1>1, IInvInvariant, PTL

\* ClaimExecution lets one transaction per trade reach the chain, whatever is
\* redelivered, requeued or interrupted, and however many workers there are.
THEOREM SubmittedOnce == Spec => []AtMostOneSubmission
<1>1. IInv => AtMostOneSubmission
  BY DEF IInv, Gate, AtMostOneSubmission
<1> QED BY <1>1, IInvInvariant, PTL

\* A trade announces one execution result, in agreement with its execution row
\* and with the way its lifecycle went.
THEOREM ResultsAgree == Spec => []OneResult
<1>1. IInv => OneResult
  BY DEF IInv, Gate, Posted, Went, OneResult
<1> QED BY <1>1, IInvInvariant, PTL

\* A position exists, or ever existed, only for a fill that was announced and
\* a lifecycle that was executed.
THEOREM NoPhantomPositions == Spec => []OpenMeansFilled
<1>1. IInv => OpenMeansFilled
  <2> SUFFICES ASSUME IInv, NEW t \in Trades, Booked(t)
               PROVE  /\ "failed" \notin rows[t]
                      /\ Result(t, "filled") \in posted
                      /\ life[t].state \in {"EXECUTED", "POSITION_OPEN", "POSITION_CLOSED"}
    BY DEF OpenMeansFilled, Booked
  <2>1. "failed" \notin rows[t] /\ Result(t, "filled") \in posted
    BY DEF IInv, Book
  <2>2. Went(t, "filled")
    BY <2>1 DEF IInv, Gate, Posted, Outcomes
  <2> QED BY <2>1, <2>2 DEF Went
<1> QED BY <1>1, IInvInvariant, PTL

\* The positions table has the exited snapshot before the bus or the lifecycle
\* hears of the exit, whichever poll cycles overlap or stop midway.
THEOREM ExitsRecorded == Spec => []ExitsAreRecorded
<1>1. IInv => ExitsAreRecorded
  BY DEF IInv, Book, ExitsAreRecorded
<1> QED BY <1>1, IInvInvariant, PTL

\* InsertExecutionResult overwrites, and yet no final row is ever rewritten.
THEOREM FinalResults == Spec => ResultIsFinal
<1>1. IInv /\ [Next]_vars => [\A t \in Trades : exec[t] \in Outcomes => exec'[t] = exec[t]]_vars
  <2> SUFFICES ASSUME IInv, Next, NEW t \in Trades, exec[t] \in Outcomes
               PROVE  exec'[t] = exec[t]
    BY DEF vars
  <2>a. exec \in [Trades -> {"none", "reserved"} \union Outcomes]
    BY DEF IInv, Shape, TypeOK
  <2>1. ASSUME NEW w \in Workers, ClaimExecution(w) PROVE exec'[t] = exec[t]
    <3>1. \/ UNCHANGED exec
          \/ exec[job[w].trade] = "none" /\ exec' = [exec EXCEPT ![job[w].trade] = "reserved"]
      BY <2>1 DEF ClaimExecution
    <3>2. exec[t] # "none"
      BY DEF Outcomes
    <3> QED BY <2>a, <3>1, <3>2
  <2>2. ASSUME NEW w \in Workers, InsertExecutionResult(w) PROVE exec'[t] = exec[t]
    <3>1. job[w].kind = "alloc" /\ pc[w] = "record"
      BY <2>2 DEF InsertExecutionResult, IInv, Shape, WorkerShape
    <3>2. Claimed(w, job[w].trade) /\ HoldsRun(w, job[w].trade)
      BY <3>1, Runner DEF IInv
    <3>3. exec[job[w].trade] = "reserved"
      BY <3>1, <3>2 DEF Claimed
    <3>4. exec' = [exec EXCEPT ![job[w].trade] = out[w].tag]
      BY <2>2 DEF InsertExecutionResult
    <3>5. exec[t] # "reserved"
      BY DEF Outcomes
    <3> QED BY <2>a, <3>3, <3>4, <3>5
  <2>3. ASSUME UNCHANGED exec PROVE exec'[t] = exec[t]
    BY <2>3
  <2> QED
    BY <2>1, <2>2, <2>3
       DEF Next, WorkerStep, PollStep, Deliver, Reemit, HaltGate, Execute, UpsertPosition,
           ReadLifecycle, TransitionState, InsertOutput, MarkEventProcessed, Evaluate,
           WorkerStatementFails, GetOpenPositions, PollHolds, PollExits, PollReadsLifecycle,
           PollTransitions, PollEmits, PollStatementFails, Crash, ClosePositionForced,
           ForceClosePositions, RequeueFromDLQ
<1> QED BY <1>1, IInvInvariant, PTL DEF Spec, ResultIsFinal
===============================================================================
