--------------------------- MODULE SelectionProofs ---------------------------
(***************************************************************************)
(* Safety of selection and capital, for any number of tokens, processes    *)
(* and faults.                                                             *)
(*                                                                         *)
(* Shape says what a goroutine holds at each statement and how the bus     *)
(* agrees with the lifecycle; it holds whatever fails.  Exclusive says     *)
(* that, as long as nothing has failed, a token is in one place: on the    *)
(* bus, in one batch, or once in one flush.  That is why no flush finds a  *)
(* token decided by another one and gives up the items behind it.          *)
(***************************************************************************)
EXTENDS Selection, SequenceTheorems, TLAPS

-------------------------------------------------------------------------------
(* Shape. *)

TableTypes ==
  /\ life \in [Tokens -> LifecycleRows]
  /\ open \subseteq Tokens
  /\ posted \subseteq Events
  /\ settled \subseteq posted
  /\ dead \subseteq settled

BatchTypes ==
  /\ batch \in [Procs -> Batches]
  /\ timer \in [Procs -> Tokens \union {NoToken}]
  /\ late \in [Procs -> SUBSET Tokens]

Queues == Batches \union (Tokens \X Tokens)

GoTypes ==
  /\ pc \in [Goroutines -> PCs]
  /\ job \in [Goroutines -> Events \union {NoEvent}]
  /\ items \in [Goroutines -> Queues]
  /\ picked \in [Goroutines -> SUBSET Tokens]
  /\ out \in [Goroutines -> Events \union {NoEvent}]
  /\ seen \in [Goroutines -> LifecycleRows]

\* The states a token has from validation on, and its version in the first two.
LifeOK(t) ==
  /\ life[t].state \in {"VALIDATED", "REJECTED", "SELECTED", "FAILED", "POSITION_OPEN"}
  /\ life[t].state = "VALIDATED" => life[t].version = 4
  /\ life[t].state = "SELECTED" => life[t].version = 5

Chosen(t) == life[t].state \in {"SELECTED", "FAILED", "POSITION_OPEN"}

\* The bus announces only what was chosen.
Announced(t) ==
  /\ Selected(t) \in posted => Chosen(t)
  /\ Allocated(t) \in posted => Selected(t) \in posted

\* An event in memory may be announced.
Sound(e) ==
  \/ \E t \in Tokens : e = Selected(t) /\ Chosen(t)
  \/ \E t \in Tokens : e = Allocated(t) /\ Selected(t) \in posted

\* The same of an event that is at hand before the step.
SoundAfter(e) ==
  \/ \E t \in Tokens : e = Selected(t) /\ Chosen(t)'
  \/ \E t \in Tokens : e = Allocated(t) /\ Selected(t) \in posted'

InFlushPC(g) == pc[g] \in {"rank", "read", "cas", "insert"}

GoShape(g) ==
  /\ pc[g] = "receive" => Role(g) = "select"
  /\ pc[g] = "gate" => Role(g) = "capital"
  /\ pc[g] # "idle" => job[g] \in Events
  /\ pc[g] # "idle" /\ Role(g) = "select" => job[g] \in posted /\ job[g].kind = "validated"
  /\ pc[g] # "idle" /\ Role(g) = "capital" => job[g] \in posted /\ job[g].kind = "selection"
  /\ InFlushPC(g) <=> items[g] # <<>>
  /\ InFlushPC(g) => Role(g) # "capital"
  /\ pc[g] = "insert" => Chosen(Head(items[g]))
  /\ pc[g] \in {"idle", "receive", "gate", "end"} => out[g] = NoEvent
  /\ pc[g] = "emit" => out[g] # NoEvent
  /\ out[g] # NoEvent => Sound(out[g])

Shape ==
  /\ TypeOK
  /\ \A t \in Tokens : LifeOK(t) /\ Announced(t)
  /\ \A g \in Goroutines : GoShape(g)

-------------------------------------------------------------------------------
(* Exclusive: the places of a token. *)

In(g, t) == \E i \in DOMAIN items[g] : items[g][i] = t

Holds(p, t) == batch[p] = <<t>>

Takes(g, t) == pc[g] = "receive" /\ job[g] = Validated(t)

\* A worker has claimed the event (the job of a timer is only an id).
Claims(g, e) == Role(g) # "timer" /\ job[g] = e

Free(t) == Validated(t) \notin settled /\ \A g \in Goroutines : ~Claims(g, Validated(t))

\* The items of a flush are undecided, but for the head when it is announced.
ToDecide(g, t) == In(g, t) /\ ~(pc[g] = "insert" /\ Head(items[g]) = t)

Distinct(g) == 2 \in DOMAIN items[g] => items[g][1] # items[g][2]

OnePlace ==
  /\ \A g, h \in Goroutines, t \in Tokens : In(g, t) /\ In(h, t) => g = h
  /\ \A g \in Goroutines : Distinct(g)
  /\ \A p, q \in Procs, t \in Tokens : Holds(p, t) /\ Holds(q, t) => p = q
  /\ \A g, h \in Goroutines, e \in Events : Claims(g, e) /\ Claims(h, e) => g = h
  /\ \A g \in Goroutines, e \in Events : Claims(g, e) => e \notin settled
  /\ \A g \in Goroutines, p \in Procs, t \in Tokens : In(g, t) => ~Holds(p, t)
  /\ \A g, h \in Goroutines, t \in Tokens : Takes(g, t) => ~In(h, t)
  /\ \A g \in Goroutines, p \in Procs, t \in Tokens : Takes(g, t) => ~Holds(p, t)
  /\ \A g \in Goroutines, t \in Tokens : Free(t) => ~In(g, t)
  /\ \A p \in Procs, t \in Tokens : Free(t) => ~Holds(p, t)

Undecided ==
  /\ \A g \in Goroutines, t \in Tokens : ToDecide(g, t) => life[t].state = "VALIDATED"
  /\ \A p \in Procs, t \in Tokens : Holds(p, t) => life[t].state = "VALIDATED"
  /\ \A g \in Goroutines, t \in Tokens : Takes(g, t) => life[t].state = "VALIDATED"
  /\ \A t \in Tokens : Free(t) => life[t].state = "VALIDATED"

Local ==
  /\ \A p \in Procs : batch[p] # <<>> => timer[p] # NoToken
  /\ \A g \in Goroutines : pc[g] = "idle" => job[g] = NoEvent
  /\ \A g \in Goroutines : pc[g] = "cas" => seen[g] = life[Head(items[g])]
  /\ \A g \in Goroutines, t \in Tokens :
       InFlushPC(g) /\ out[g] = Selected(t) => job[g] = Validated(t)

\* A token that has no verdict has a place, and one that was chosen is announced
\* or will be.
Covered ==
  /\ \A t \in Tokens : life[t].state = "VALIDATED" =>
       \/ Free(t)
       \/ \E p \in Procs : Holds(p, t)
       \/ \E g \in Goroutines : Takes(g, t) \/ In(g, t)
  /\ \A t \in Tokens : life[t].state = "SELECTED" /\ Selected(t) \notin posted =>
       \E g \in Goroutines : In(g, t) \/ out[g] = Selected(t)

Orderly == OnePlace /\ Undecided /\ Local /\ Covered

Exclusive == faults = 0 => Orderly

-------------------------------------------------------------------------------
(* Events, queues and goroutines. *)

\* What the constructors of events build (the ids of the stages' events).
LEMMA Names ==
  /\ \A t \in Tokens :
       /\ Validated(t) \in Events /\ Validated(t).kind = "validated" /\ Validated(t).token = t
       /\ Selected(t) \in Events /\ Selected(t).kind = "selection" /\ Selected(t).token = t
       /\ Allocated(t) \in Events /\ Allocated(t).kind = "allocation" /\ Allocated(t).token = t
  /\ \A s, t \in Tokens :
       /\ Validated(s) # Selected(t) /\ Validated(s) # Allocated(t) /\ Selected(s) # Allocated(t)
       /\ Validated(s) = Validated(t) => s = t
       /\ Selected(s) = Selected(t) => s = t
       /\ Allocated(s) = Allocated(t) => s = t
  /\ \A e \in Events :
       /\ e.token \in Tokens
       /\ e.kind = "validated" => e = Validated(e.token)
       /\ e.kind = "selection" => e = Selected(e.token)
  /\ NoEvent \notin Events
BY NoEventAssumption DEF Events, Validated, Selected, Allocated

\* The goroutines of a process are three (run_selection.go, run_capital.go).
LEMMA GoroutineFacts ==
  /\ \A p \in Procs :
       /\ <<p, "select">> \in Goroutines /\ Role(<<p, "select">>) = "select"
       /\ <<p, "timer">> \in Goroutines /\ Role(<<p, "timer">>) = "timer"
       /\ <<p, "capital">> \in Goroutines /\ Role(<<p, "capital">>) = "capital"
  /\ \A g \in Goroutines : Role(g) \in {"select", "timer", "capital"}
BY DEF Goroutines, Role

\* A queue that is not empty has a head and a rest that is a queue.
LEMMA QueueFacts ==
  ASSUME NEW q \in Queues, q # <<>>
  PROVE  /\ Head(q) \in Tokens /\ Tail(q) \in Queues
         /\ 1 \in DOMAIN q /\ q[1] = Head(q) /\ DOMAIN q \subseteq 1..2
         /\ Len(q) > 1 <=> Tail(q) # <<>>
         /\ Len(q) > 1 <=> 2 \in DOMAIN q
         /\ \A i \in DOMAIN Tail(q) : i = 1 /\ 2 \in DOMAIN q /\ Tail(q)[i] = q[2]
         /\ 2 \in DOMAIN q => 1 \in DOMAIN Tail(q)
<1>1. CASE \E t \in Tokens : q = <<t>>
  <2>1. PICK t \in Tokens : q = <<t>> BY <1>1
  <2>2. Tail(q) = <<>> /\ Head(q) = t /\ Len(q) = 1 /\ DOMAIN q = 1..1 BY <2>1
  <2> QED BY <2>1, <2>2 DEF Queues, Batches
<1>2. CASE \E s, t \in Tokens : q = <<s, t>>
  <2>1. PICK s \in Tokens, t \in Tokens : q = <<s, t>> BY <1>2
  <2>2. Tail(q) = <<t>> /\ Head(q) = s /\ Len(q) = 2 /\ DOMAIN q = 1..2 /\ q[2] = t BY <2>1
  <2>3. DOMAIN Tail(q) = 1..1 /\ Tail(q)[1] = t BY <2>2
  <2> QED BY <2>1, <2>2, <2>3 DEF Queues, Batches
<1> QED BY <1>1, <1>2 DEF Queues, Batches

\* A second item makes a pair.
LEMMA AppendOne ==
  ASSUME NEW S, NEW s \in S, NEW t \in S
  PROVE  Append(<<s>>, t) = <<s, t>>
<1>1. <<s>> \in Seq(S) /\ Len(<<s>>) = 1
  OBVIOUS
<1>2. /\ Append(<<s>>, t) \in Seq(S) /\ Len(Append(<<s>>, t)) = 2
      /\ Append(<<s>>, t)[1] = s /\ Append(<<s>>, t)[2] = t
  BY <1>1, AppendProperties
<1>3. <<s, t>> \in Seq(S) /\ Len(<<s, t>>) = 2
  OBVIOUS
<1>4. \A i \in 1..2 : Append(<<s>>, t)[i] = <<s, t>>[i]
  BY <1>2
<1> QED BY <1>2, <1>3, <1>4, SeqEqual

\* The queues the batch makes.
LEMMA BatchFacts ==
  ASSUME NEW b \in Batches, NEW t \in Tokens
  PROVE  /\ b \in Queues /\ <<t>> \in Queues /\ <<t>> \in Batches /\ <<>> \in Batches
         /\ <<t>> # <<>> /\ DOMAIN <<t>> = {1} /\ <<t>>[1] = t
         /\ b # <<>> => /\ Append(b, t) \in Queues /\ Append(b, t) # <<>>
                        /\ \E s \in Tokens : b = <<s>> /\ Append(b, t) = <<s, t>>
<1>1. b \in Queues /\ <<t>> \in Queues /\ <<t>> \in Batches /\ <<>> \in Batches
  BY DEF Queues, Batches
<1>2. <<t>> # <<>> /\ DOMAIN <<t>> = {1} /\ <<t>>[1] = t
  OBVIOUS
<1>3. ASSUME b # <<>>
      PROVE  /\ Append(b, t) \in Queues /\ Append(b, t) # <<>>
             /\ \E s \in Tokens : b = <<s>> /\ Append(b, t) = <<s, t>>
  <2>1. PICK s \in Tokens : b = <<s>> BY <1>3 DEF Batches
  <2>2. Append(b, t) = <<s, t>> BY <2>1, AppendOne
  <2>3. <<s, t>> \in Queues BY DEF Queues
  <2>4. <<s, t>> # <<>> OBVIOUS
  <2> QED BY <2>1, <2>2, <2>3, <2>4
<1> QED BY <1>1, <1>2, <1>3

\* An empty batch is a batch, and a batch can be flushed.
LEMMA EmptyFacts == <<>> \in Batches /\ Batches \subseteq Queues
BY DEF Queues, Batches

-------------------------------------------------------------------------------
(* Types. *)

\* Types, table by table.
LEMMA Split ==
  /\ TypeOK <=> TableTypes /\ BatchTypes /\ GoTypes /\ faults \in 0..MaxFaults
  /\ TypeOK' <=> TableTypes' /\ BatchTypes' /\ GoTypes' /\ faults' \in 0..MaxFaults
BY DEF TypeOK, TableTypes, BatchTypes, GoTypes, Queues

\* A transition keeps a row a row (lifecycle.go, TransitionState).
LEMMA RowTypes ==
  /\ ValidatedRow \in LifecycleRows /\ ValidatedRow.state = "VALIDATED"
  /\ ValidatedRow.version = 4
  /\ \A r \in LifecycleRows :
       /\ r.version \in Nat /\ r.state \in LifecycleStates
       /\ \A to \in LifecycleStates :
            /\ Advanced(r, to) \in LifecycleRows
            /\ Advanced(r, to).state = to /\ Advanced(r, to).version = r.version + 1
BY DEF ValidatedRow, LifecycleRows, LifecycleStates, Advanced

\* The values that are named in the actions.
LEMMA Constants ==
  /\ MaxFaults \in Nat /\ NoToken \notin Tokens
  /\ {"idle", "receive", "rank", "read", "cas", "insert", "gate", "emit", "end"} \subseteq PCs
BY SelectionAssumption DEF PCs

\* A goroutine that drops, goes on, or fails keeps the types.
LEMMA DropTypes ==
  ASSUME GoTypes, NEW g \in Goroutines, Drop(g)
  PROVE  GoTypes'
BY RowTypes, BatchFacts, Constants DEF GoTypes, Drop, Goto, Queues, Batches

\* The same of a goroutine that fails: only a worker's own event is settled.
LEMMA FailTypes ==
  ASSUME TableTypes, GoTypes, NEW g \in Goroutines, Fail(g),
         Role(g) # "timer" => job[g] \in posted,
         UNCHANGED <<life, open>>
  PROVE  GoTypes' /\ TableTypes'
BY DropTypes DEF TableTypes, Fail, busVars

\* The same of the next item of a flush.
LEMMA NextItemTypes ==
  ASSUME GoTypes, NEW g \in Goroutines, NEW r \in Events \union {NoEvent},
         items[g] # <<>>, NextItem(g, r)
  PROVE  GoTypes'
<1>1. items' = [items EXCEPT ![g] = Tail(items[g])] /\ Tail(items[g]) \in Queues
  BY QueueFacts DEF GoTypes, NextItem
<1>2. pc' \in [Goroutines -> PCs]
  BY Constants DEF GoTypes, NextItem, Goto
<1> QED BY <1>1, <1>2 DEF GoTypes, NextItem

LEMMA RejectedTypes == RejectedRow \in LifecycleRows /\ RejectedRow.state = "REJECTED"
BY RowTypes DEF RejectedRow, LifecycleStates

\* A token is on the bus, or it has been rejected before.
LEMMA FirstRows ==
  ASSUME Init
  PROVE  \A t \in Tokens :
           /\ life[t] \in {ValidatedRow, RejectedRow}
           /\ life[t] = RejectedRow <=> Validated(t) \in settled
BY Names, RejectedTypes, RowTypes DEF Init

\* The first state has its types.
LEMMA TypeInit == Init => TypeOK
<1>1. SUFFICES ASSUME Init PROVE TypeOK
  OBVIOUS
<1>2. life \in [Tokens -> LifecycleRows] /\ settled \subseteq posted
  BY <1>1, RowTypes, RejectedTypes DEF Init
<1> QED BY <1>1, <1>2, RowTypes, Constants, Names, BatchFacts DEF Init, TypeOK, PCs, Batches

-------------------------------------------------------------------------------
(* Shape is preserved. *)

\* What a goroutine that is not touched keeps, whatever the others post.
Untouched(h) ==
  pc'[h] = pc[h] /\ job'[h] = job[h] /\ items'[h] = items[h] /\ out'[h] = out[h]

Grows == posted \subseteq posted' /\ \A t \in Tokens : Chosen(t) => Chosen(t)'

\* What may be announced stays so.
LEMMA SoundGrows ==
  ASSUME Grows, NEW e, Sound(e)
  PROVE  SoundAfter(e)
BY DEF Grows, Sound, SoundAfter

\* The other goroutines keep their shape.
LEMMA UntouchedShape ==
  ASSUME TypeOK, Grows, NEW h \in Goroutines, GoShape(h), Untouched(h)
  PROVE  GoShape(h)'
<1>1. (InFlushPC(h) <=> InFlushPC(h)') /\ (out[h] # NoEvent => SoundAfter(out[h]))
  BY SoundGrows DEF GoShape, Untouched, InFlushPC
<1>2. pc[h] = "insert" => Chosen(Head(items[h]))'
  <2>1. SUFFICES ASSUME pc[h] = "insert" PROVE Chosen(Head(items[h]))'
    OBVIOUS
  <2>2. items[h] # <<>> /\ Chosen(Head(items[h])) /\ items[h] \in Queues
    BY <2>1 DEF GoShape, InFlushPC, TypeOK, Queues
  <2>3. Head(items[h]) \in Tokens BY <2>2, QueueFacts
  <2> QED BY <2>2, <2>3 DEF Grows, Chosen, Untouched
<1> QED BY <1>1, <1>2 DEF GoShape, Untouched, Grows, Chosen, Sound, SoundAfter

\* A step of one goroutine, in parts.
LEMMA OneMoves ==
  ASSUME Shape, NEW g \in Goroutines, TypeOK', Grows, GoShape(g)',
         \A h \in Goroutines \ {g} : Untouched(h),
         \A t \in Tokens : LifeOK(t)' /\ Announced(t)'
  PROVE  Shape'
BY UntouchedShape DEF Shape

\* A step that leaves rows and bus alone grows nothing.
LEMMA SameLife ==
  ASSUME Shape, UNCHANGED <<life, posted>>
  PROVE  Grows /\ \A t \in Tokens : LifeOK(t)' /\ Announced(t)'
BY DEF Shape, Grows, LifeOK, Announced, Chosen

\* A step that posts what may be announced (InsertEvent).
LEMMA Posts ==
  ASSUME Shape, NEW e \in Events, Sound(e), posted' = posted \union {e}, UNCHANGED life
  PROVE  Grows /\ \A t \in Tokens : LifeOK(t)' /\ Announced(t)'
<1>1. Grows /\ \A t \in Tokens : LifeOK(t)'
  BY DEF Shape, Grows, LifeOK, Chosen
<1>2. ASSUME NEW t \in Tokens PROVE Announced(t)'
  BY Names DEF Shape, Announced, Sound, Chosen
<1> QED BY <1>1, <1>2

\* A goroutine that has dropped everything is idle.
LEMMA DropShape ==
  ASSUME GoTypes, NEW g \in Goroutines, Drop(g)
  PROVE  GoShape(g)' /\ \A h \in Goroutines \ {g} : Untouched(h)
BY DEF GoTypes, Drop, Goto, GoShape, Untouched, InFlushPC

\* A stage that returns an error, or a flush that ends with one.
LEMMA FailShape ==
  ASSUME Shape, NEW g \in Goroutines, Fail(g), pc[g] # "idle",
         UNCHANGED <<life, open, batchVars>>, faults' \in 0..MaxFaults
  PROVE  Shape'
<1>1. TypeOK'
  <2>1. Role(g) # "timer" => job[g] \in posted
    BY GoroutineFacts DEF Shape, GoShape
  <2> QED BY <2>1, FailTypes, Split DEF Shape, BatchTypes, batchVars
<1>2. GoShape(g)' /\ \A h \in Goroutines \ {g} : Untouched(h)
  BY Split, DropShape DEF Shape, Fail
<1>3. UNCHANGED <<life, posted>>
  BY DEF Fail, busVars
<1> QED BY <1>1, <1>2, <1>3, SameLife, OneMoves

\* The next item, with an event that may be announced.
LEMMA NextItemShape ==
  ASSUME GoTypes, NEW g \in Goroutines, GoShape(g), InFlushPC(g),
         NEW r \in Events \union {NoEvent}, NextItem(g, r), r # NoEvent => SoundAfter(r), Grows
  PROVE  GoTypes' /\ GoShape(g)' /\ \A h \in Goroutines \ {g} : Untouched(h)
<1>1. items[g] \in Queues /\ items[g] # <<>>
  BY DEF GoTypes, GoShape
<1>2. GoTypes'
  BY <1>1, NextItemTypes
<1>3. items'[g] = Tail(items[g]) /\ out'[g] = r /\ job'[g] = job[g]
      /\ pc'[g] = IF Len(items[g]) > 1 THEN "read" ELSE IF r # NoEvent THEN "emit" ELSE "end"
  BY DEF NextItem, Goto, GoTypes
<1>4. Len(items[g]) > 1 <=> Tail(items[g]) # <<>>
  BY <1>1, QueueFacts
<1>5. GoShape(g)'
  <2>1. InFlushPC(g)' <=> items'[g] # <<>>
    BY <1>3, <1>4 DEF InFlushPC
  <2>2. pc[g] # "idle" /\ pc'[g] \in {"read", "emit", "end"}
    BY <1>3 DEF InFlushPC
  <2>3. (out[g])' # NoEvent => Sound(out[g])'
    BY <1>3 DEF Sound, SoundAfter
  <2>4. job[g] \in posted => job[g] \in posted'
    BY DEF Grows
  <2> QED BY <1>3, <2>1, <2>2, <2>3, <2>4 DEF GoShape, InFlushPC
<1>6. ASSUME NEW h \in Goroutines \ {g} PROVE Untouched(h)
  BY DEF NextItem, Goto, GoTypes, Untouched
<1> QED BY <1>2, <1>5, <1>6

\* A delivery (ClaimNextEvent, in the worker loop).
LEMMA ShapeDeliver ==
  ASSUME Shape, NEW g \in Goroutines, Deliver(g)
  PROVE  Shape'
<1>1. PICK e \in posted \ settled :
        /\ \/ Role(g) = "select" /\ e.kind = "validated" /\ Goto(g, "receive")
           \/ Role(g) = "capital" /\ e.kind = "selection" /\ Goto(g, "gate")
        /\ faults' \in {faults, faults + 1} /\ (faults' # faults => faults < MaxFaults)
        /\ job' = [job EXCEPT ![g] = e]
  BY DEF Deliver
<1>2. TypeOK'
  BY <1>1, Constants, Split
     DEF Shape, TableTypes, BatchTypes, GoTypes, Deliver, Goto, busVars, batchVars, flushVars
<1>3. GoShape(g)'
  BY <1>1, GoroutineFacts
     DEF Shape, TypeOK, GoShape, Deliver, Goto, InFlushPC, busVars, flushVars
<1>4. \A h \in Goroutines \ {g} : Untouched(h)
  BY <1>1 DEF Shape, TypeOK, Deliver, Goto, Untouched, flushVars
<1> QED BY <1>2, <1>3, <1>4, SameLife, OneMoves DEF Deliver, busVars

\* Process, up to the batch or the flush.
LEMMA ShapeReceive ==
  ASSUME Shape, NEW p \in Procs, ReceiveHalted(p) \/ AddToBatch(p) \/ FillBatch(p)
  PROVE  Shape'
<1> DEFINE g == <<p, "select">>
           t == job[g].token
<1>1. g \in Goroutines /\ Role(g) = "select"
  BY GoroutineFacts
<1>2. pc[g] = "receive" /\ job[g] \in Events /\ t \in Tokens /\ items[g] = <<>>
  BY <1>1, Names DEF ReceiveHalted, AddToBatch, FillBatch, Shape, GoShape, InFlushPC
<1>3. PICK q \in Queues, next \in {"read", "rank", "end"} :
        /\ items' = [items EXCEPT ![g] = q] /\ pc' = [pc EXCEPT ![g] = next]
        /\ next = "end" <=> q = <<>>
  <2>1. batch[p] \in Batches BY DEF Shape, TypeOK
  <2>2. CASE ReceiveHalted(p)
    BY <1>2, <2>1, <2>2, BatchFacts DEF ReceiveHalted, Goto
  <2>3. CASE AddToBatch(p)
    <3>1. items' = [items EXCEPT ![g] = <<>>]
      BY <1>1, <1>2, <2>3 DEF AddToBatch, Shape, TypeOK
    <3> QED BY <1>2, <2>1, <2>3, <3>1, BatchFacts DEF AddToBatch, Goto
  <2>4. CASE FillBatch(p)
    BY <1>2, <2>1, <2>4, BatchFacts DEF FillBatch, Goto
  <2> QED BY <2>2, <2>3, <2>4
<1>4. UNCHANGED <<life, open, posted, settled, dead, job, picked, out, seen, faults>>
  BY DEF ReceiveHalted, AddToBatch, FillBatch, busVars
<1>5. TypeOK'
  <2>1. GoTypes' BY <1>1, <1>3, <1>4, Constants, Split DEF Shape, GoTypes
  <2>2. BatchTypes'
    <3>1. BatchTypes /\ batch[p] \in Batches BY Split DEF Shape, BatchTypes
    <3>2. CASE ReceiveHalted(p) BY <3>1, <3>2 DEF ReceiveHalted, BatchTypes, batchVars
    <3>3. CASE AddToBatch(p) BY <1>2, <3>1, <3>3, BatchFacts DEF AddToBatch, BatchTypes
    <3>4. CASE FillBatch(p)
      <4>1. batch' \in [Procs -> Batches] /\ timer' \in [Procs -> Tokens \union {NoToken}]
        BY <3>1, <3>4, EmptyFacts DEF FillBatch, BatchTypes
      <4>2. timer[p] \in Tokens \union {NoToken} BY <3>1 DEF BatchTypes
      <4>3. late' \in [Procs -> SUBSET Tokens]
        BY <3>1, <3>4, <4>2 DEF FillBatch, BatchTypes
      <4> QED BY <4>1, <4>3 DEF BatchTypes
    <3> QED BY <3>2, <3>3, <3>4
  <2> QED BY <1>4, <2>1, <2>2, Split DEF Shape, TableTypes
<1>6. GoShape(g)'
  BY <1>1, <1>2, <1>3, <1>4 DEF Shape, TypeOK, GoShape, InFlushPC
<1>7. \A h \in Goroutines \ {g} : Untouched(h)
  BY <1>1, <1>3, <1>4 DEF Shape, TypeOK, Untouched
<1> QED BY <1>1, <1>4, <1>5, <1>6, <1>7, SameLife, OneMoves

\* The function of the timer.
LEMMA ShapeTimer ==
  ASSUME Shape, NEW p \in Procs, TimerFires(p)
  PROVE  Shape'
<1> DEFINE g == <<p, "timer">>
<1>1. g \in Goroutines /\ Role(g) = "timer" /\ pc[g] = "idle" /\ batch[p] \in Batches
  BY GoroutineFacts DEF TimerFires, Shape, TypeOK
<1>2. PICK x \in Tokens :
        /\ late' = [late EXCEPT ![p] = (@ \union ({timer[p]} \ {NoToken})) \ {x}]
        /\ IF batch[p] = <<>>
           THEN UNCHANGED <<pc, job, items>>
           ELSE /\ items' = [items EXCEPT ![g] = batch[p]]
                /\ job' = [job EXCEPT ![g] = Validated(x)]
                /\ Goto(g, "rank")
  BY DEF TimerFires, Shape, TypeOK
<1>3. UNCHANGED <<life, open, posted, settled, dead, picked, out, seen, faults>>
  BY DEF TimerFires, busVars
<1>4. TypeOK'
  <2>1. GoTypes'
    <3>1. GoTypes /\ "rank" \in PCs /\ batch[p] \in Queues /\ Validated(x) \in Events
      BY <1>1, Constants, Names, EmptyFacts, Split DEF Shape
    <3> QED BY <1>1, <1>2, <1>3, <3>1 DEF GoTypes, Goto
  <2>2. BatchTypes'
    BY <1>1, <1>2, Split, EmptyFacts DEF Shape, BatchTypes, TimerFires
  <2> QED BY <1>3, <2>1, <2>2, Split DEF Shape, TableTypes
<1>5. GoShape(g)'
  BY <1>1, <1>2, <1>3, Names DEF Shape, TypeOK, GoShape, Goto, InFlushPC
<1>6. \A h \in Goroutines \ {g} : Untouched(h)
  BY <1>1, <1>2, <1>3 DEF Shape, TypeOK, Untouched, Goto
<1> QED BY <1>1, <1>3, <1>4, <1>5, <1>6, SameLife, OneMoves

\* What is known of the head of a flush.
LEMMA HeadFacts ==
  ASSUME Shape, NEW g \in Goroutines, InFlushPC(g)
  PROVE  /\ items[g] \in Queues /\ items[g] # <<>> /\ Head(items[g]) \in Tokens
         /\ life[Head(items[g])] \in LifecycleRows
         /\ Role(g) # "capital" /\ job[g] \in Events
<1>1. items[g] \in Queues /\ items[g] # <<>> /\ Role(g) # "capital" /\ job[g] \in Events
  BY DEF Shape, TypeOK, GoShape, InFlushPC, Queues
<1> QED BY <1>1, QueueFacts DEF Shape, TypeOK

\* ProcessBatch.
LEMMA ShapeRank ==
  ASSUME Shape, NEW g \in Goroutines, ProcessBatch(g)
  PROVE  Shape'
<1>1. InFlushPC(g) /\ UNCHANGED <<life, open, posted, settled, dead, batchVars, job, items, out, seen>>
      /\ pc' = [pc EXCEPT ![g] = "read"]
  BY DEF ProcessBatch, InFlushPC, Goto, busVars
<1>2. faults' \in 0..MaxFaults
  BY Constants DEF ProcessBatch, Shape, TypeOK
<1>3. PICK n \in {Cardinality(open), 0} :
        picked' \in {[picked EXCEPT ![g] = P] :
                       P \in PickTopK({items[g][i] : i \in DOMAIN items[g]}, n)}
  BY DEF ProcessBatch
<1>4. picked' \in [Goroutines -> SUBSET Tokens]
  <2>1. {items[g][i] : i \in DOMAIN items[g]} \subseteq Tokens
    <3>1. items[g] \in Queues BY <1>1, HeadFacts
    <3>2. ASSUME NEW i \in DOMAIN items[g] PROVE items[g][i] \in Tokens
      BY <3>1 DEF Queues, Batches
    <3> QED BY <3>2
  <2>2. PICK P \in SUBSET Tokens : picked' = [picked EXCEPT ![g] = P]
    BY <1>3, <2>1 DEF PickTopK
  <2> QED BY <2>2 DEF Shape, TypeOK
<1>5. TypeOK'
  BY <1>1, <1>2, <1>4, Constants, Split
     DEF Shape, TableTypes, BatchTypes, GoTypes, batchVars
<1>6. GoShape(g)'
  BY <1>1, HeadFacts DEF Shape, TypeOK, GoShape, InFlushPC, Sound, Chosen
<1>7. \A h \in Goroutines \ {g} : Untouched(h)
  BY <1>1 DEF Shape, TypeOK, Untouched
<1> QED BY <1>1, <1>5, <1>6, <1>7, SameLife, OneMoves

\* doMandatoryTransition reads.
LEMMA ShapeRead ==
  ASSUME Shape, NEW g \in Goroutines, ReadLifecycle(g)
  PROVE  Shape'
<1>1. InFlushPC(g) /\ UNCHANGED <<life, open, posted, settled, dead, batchVars, job, picked, faults>>
  BY DEF ReadLifecycle, InFlushPC, busVars
<1>2. \/ /\ seen' = [seen EXCEPT ![g] = life[Head(items[g])]]
         /\ pc' = [pc EXCEPT ![g] = "cas"] /\ UNCHANGED <<items, out>>
      \/ /\ items' = [items EXCEPT ![g] = <<>>] /\ out' = [out EXCEPT ![g] = NoEvent]
         /\ pc' = [pc EXCEPT ![g] = "end"] /\ UNCHANGED seen
  BY DEF ReadLifecycle, Goto
<1>3. TypeOK'
  <2>1. GoTypes /\ life[Head(items[g])] \in LifecycleRows /\ <<>> \in Queues
    BY <1>1, HeadFacts, EmptyFacts, Split DEF Shape
  <2>2. GoTypes' BY <1>1, <1>2, <2>1, Constants DEF GoTypes
  <2> QED BY <1>1, <2>2, Split DEF Shape, TableTypes, BatchTypes, batchVars
<1>4. GoShape(g)'
  BY <1>1, <1>2, HeadFacts DEF Shape, TypeOK, GoShape, InFlushPC, Sound, Chosen
<1>5. \A h \in Goroutines \ {g} : Untouched(h)
  BY <1>1, <1>2 DEF Shape, TypeOK, Untouched
<1> QED BY <1>1, <1>3, <1>4, <1>5, SameLife, OneMoves

\* A transition that goes through starts from VALIDATED.
LEMMA Transition ==
  ASSUME Shape, NEW t \in Tokens, NEW row, NEW to \in {"SELECTED", "REJECTED"},
         Transits(life[t], row, to), life' = [life EXCEPT ![t] = Advanced(@, to)],
         UNCHANGED posted
  PROVE  /\ life[t].state = "VALIDATED" /\ life'[t].state = to
         /\ life' \in [Tokens -> LifecycleRows]
         /\ \A s \in Tokens \ {t} : life'[s] = life[s]
         /\ Grows /\ \A s \in Tokens : LifeOK(s)' /\ Announced(s)'
<1>1. life \in [Tokens -> LifecycleRows] /\ LifeOK(t) /\ to \in LifecycleStates
  BY DEF Shape, TypeOK, LifecycleStates
<1>2. life[t].state = "VALIDATED"
  BY <1>1 DEF Transits, LifeOK, ValidTransitions
<1>3. life'[t] = Advanced(life[t], to) /\ \A s \in Tokens \ {t} : life'[s] = life[s]
  BY <1>1
<1>4. life'[t].state = to /\ life'[t].version = 5 /\ Advanced(life[t], to) \in LifecycleRows
  BY <1>1, <1>2, <1>3, RowTypes DEF LifeOK
<1>5. life' \in [Tokens -> LifecycleRows]
  BY <1>1, <1>4
<1>6. \A s \in Tokens : LifeOK(s)'
  BY <1>3, <1>4 DEF Shape, LifeOK
<1>7. \A s \in Tokens : Chosen(s) => Chosen(s)'
  BY <1>2, <1>3 DEF Chosen
<1>8. \A s \in Tokens : Announced(s)'
  BY <1>7 DEF Shape, Announced
<1> QED BY <1>2, <1>3, <1>4, <1>5, <1>6, <1>7, <1>8 DEF Grows

\* doMandatoryTransition writes.
LEMMA ShapeCas ==
  ASSUME Shape, NEW g \in Goroutines, TransitionState(g)
  PROVE  Shape'
<1> DEFINE t == Head(items[g])
<1>1. /\ InFlushPC(g) /\ pc[g] # "idle" /\ UNCHANGED <<open, batchVars, faults>>
      /\ t \in Tokens /\ items[g] \in Queues /\ items[g] # <<>> /\ job[g] \in Events
  BY HeadFacts DEF TransitionState, InFlushPC
<1>2. CASE ~Transits(life[t], seen[g], Verdict(g))
  <2>1. Fail(g) /\ UNCHANGED life BY <1>2 DEF TransitionState
  <2>2. faults' \in 0..MaxFaults BY <1>1 DEF Shape, TypeOK
  <2> QED BY <1>1, <2>1, <2>2, FailShape
<1>3. CASE Transits(life[t], seen[g], Verdict(g))
  <2>1. /\ life' = [life EXCEPT ![t] = Advanced(@, Verdict(g))] /\ UNCHANGED busVars
        /\ IF t \notin picked[g] THEN NextItem(g, out[g])
           ELSE IF job[g] = Validated(t) THEN NextItem(g, Selected(t))
           ELSE Goto(g, "insert") /\ UNCHANGED <<job, out, items, picked, seen>>
    BY <1>3 DEF TransitionState
  <2>2. Verdict(g) \in {"SELECTED", "REJECTED"} /\ (t \in picked[g] <=> Verdict(g) = "SELECTED")
    BY DEF Verdict
  <2>3. /\ life'[t].state = Verdict(g) /\ Grows /\ life' \in [Tokens -> LifecycleRows]
        /\ \A s \in Tokens : LifeOK(s)' /\ Announced(s)'
    BY <1>1, <1>3, <2>1, <2>2, Transition DEF busVars
  <2>4. GoTypes /\ GoShape(g) BY Split DEF Shape
  <2>5. GoTypes' /\ GoShape(g)' /\ \A h \in Goroutines \ {g} : Untouched(h)
    <3>1. CASE t \notin picked[g]
      <4>1. out[g] \in Events \union {NoEvent} /\ (out[g] # NoEvent => SoundAfter(out[g]))
        BY <2>3, <2>4, SoundGrows DEF GoTypes, GoShape
      <4> QED BY <1>1, <2>1, <2>3, <2>4, <3>1, <4>1, NextItemShape
    <3>2. CASE t \in picked[g] /\ job[g] = Validated(t)
      <4>1. Selected(t) \in Events /\ SoundAfter(Selected(t))
        BY <1>1, <2>2, <2>3, <3>2, Names DEF SoundAfter, Chosen
      <4> QED BY <1>1, <2>1, <2>3, <2>4, <3>2, <4>1, NextItemShape
    <3>3. CASE t \in picked[g] /\ job[g] # Validated(t)
      <4>1. pc' = [pc EXCEPT ![g] = "insert"] /\ UNCHANGED <<job, out, items, picked, seen>>
        BY <2>1, <3>3 DEF Goto
      <4>2. GoTypes' BY <2>4, <4>1, Constants DEF GoTypes
      <4>3. Chosen(t)' BY <1>1, <2>2, <2>3, <3>3, <4>1 DEF Chosen
      <4>4. out[g] # NoEvent => SoundAfter(out[g])
        BY <2>3, <2>4, SoundGrows DEF GoShape
      <4>5. pc'[g] = "insert" BY <2>4, <4>1 DEF GoTypes
      <4>6. posted \subseteq posted' BY <2>3 DEF Grows
      <4>7. GoShape(g)'
        BY <1>1, <2>4, <4>1, <4>3, <4>4, <4>5, <4>6
           DEF GoShape, InFlushPC, Sound, SoundAfter, Chosen
      <4> QED BY <2>4, <4>1, <4>2, <4>7 DEF GoTypes, Untouched
    <3> QED BY <3>1, <3>2, <3>3
  <2>6. TypeOK'
    BY <1>1, <2>1, <2>3, <2>5, Split DEF Shape, TableTypes, BatchTypes, batchVars, busVars
  <2> QED BY <2>3, <2>5, <2>6, OneMoves
<1> QED BY <1>2, <1>3

\* InsertEvent inside the flush.
LEMMA ShapeInsert ==
  ASSUME Shape, NEW g \in Goroutines, InsertSelected(g)
  PROVE  Shape'
<1> DEFINE t == Head(items[g])
<1>1. /\ InFlushPC(g) /\ pc[g] = "insert" /\ UNCHANGED <<life, open, settled, dead, batchVars, faults>>
      /\ t \in Tokens /\ items[g] \in Queues /\ items[g] # <<>>
  BY HeadFacts DEF InsertSelected, InFlushPC
<1>2. Selected(t) \in Events /\ Sound(Selected(t)) /\ posted' = posted \union {Selected(t)}
  BY <1>1, Names DEF Shape, GoShape, Sound, InsertSelected
<1>3. Grows /\ \A s \in Tokens : LifeOK(s)' /\ Announced(s)'
  BY <1>1, <1>2, Posts
<1>4. GoTypes /\ GoShape(g) BY Split DEF Shape
<1>5. out[g] \in Events \union {NoEvent} /\ (out[g] # NoEvent => SoundAfter(out[g]))
  BY <1>3, <1>4, SoundGrows DEF GoTypes, GoShape
<1>6. GoTypes' /\ GoShape(g)' /\ \A h \in Goroutines \ {g} : Untouched(h)
  BY <1>1, <1>3, <1>4, <1>5, NextItemShape DEF InsertSelected
<1>7. TypeOK'
  BY <1>1, <1>2, <1>6, Split DEF Shape, TableTypes, BatchTypes, batchVars
<1> QED BY <1>3, <1>6, <1>7, OneMoves

\* CapitalWorker.Process.
LEMMA ShapeAllocate ==
  ASSUME Shape, NEW p \in Procs, Allocate(p)
  PROVE  Shape'
<1> DEFINE g == <<p, "capital">>
<1>1. /\ g \in Goroutines /\ Role(g) = "capital" /\ pc[g] = "gate"
      /\ UNCHANGED <<life, open, batchVars, faults>>
  BY GoroutineFacts DEF Allocate
<1>2. CASE Fail(g)
  BY <1>1, <1>2, FailShape DEF Shape, TypeOK
<1>3. CASE /\ out' = [out EXCEPT ![g] = Allocated(job[g].token)]
           /\ Goto(g, "emit")
           /\ UNCHANGED <<busVars, job, items, picked, seen>>
  <2>1. job[g] \in Events /\ job[g] \in posted /\ job[g].kind = "selection" /\ items[g] = <<>>
    BY <1>1 DEF Shape, GoShape, InFlushPC
  <2>2. job[g].token \in Tokens /\ Selected(job[g].token) \in posted
    BY <2>1, Names
  <2>3. Allocated(job[g].token) \in Events /\ Sound(Allocated(job[g].token))
    BY <2>2, Names DEF Sound
  <2>4. GoTypes' BY <1>1, <1>3, <2>3, Constants, Split DEF Shape, GoTypes, Goto
  <2>5. TypeOK'
    BY <1>1, <1>3, <2>4, Split DEF Shape, TableTypes, BatchTypes, batchVars, busVars
  <2>6. pc'[g] = "emit" /\ out'[g] = Allocated(job[g].token) /\ job'[g] = job[g] /\ items'[g] = <<>>
        /\ posted' = posted
    BY <1>1, <1>3, <2>1 DEF Shape, TypeOK, Goto, busVars
  <2>7. GoShape(g)'
    BY <1>1, <2>1, <2>2, <2>3, <2>6, Names DEF GoShape, InFlushPC, Sound
  <2>8. \A h \in Goroutines \ {g} : Untouched(h)
    BY <1>1, <1>3 DEF Shape, TypeOK, Untouched, Goto
  <2> QED BY <1>1, <2>5, <2>6, <2>7, <2>8, SameLife, OneMoves
<1> QED BY <1>2, <1>3 DEF Allocate

\* InsertEvent of a returned event.
LEMMA ShapeOutput ==
  ASSUME Shape, NEW g \in Goroutines, InsertOutput(g)
  PROVE  Shape'
<1>1. /\ pc[g] = "emit" /\ posted' = posted \union {out[g]}
      /\ out' = [out EXCEPT ![g] = NoEvent] /\ pc' = [pc EXCEPT ![g] = "end"]
      /\ UNCHANGED <<life, open, settled, dead, batchVars, job, items, picked, seen, faults>>
  BY DEF InsertOutput, Goto, flushVars
<1>2. out[g] \in Events /\ Sound(out[g])
  BY <1>1 DEF Shape, TypeOK, GoShape
<1>3. Grows /\ \A s \in Tokens : LifeOK(s)' /\ Announced(s)'
  BY <1>1, <1>2, Posts
<1>4. GoTypes' BY <1>1, Constants, Split DEF Shape, GoTypes
<1>5. TypeOK' BY <1>1, <1>2, <1>4, Split DEF Shape, TableTypes, BatchTypes, batchVars
<1>6. GoShape(g)' BY <1>1 DEF Shape, TypeOK, GoShape, InFlushPC
<1>7. \A h \in Goroutines \ {g} : Untouched(h)
  BY <1>1 DEF Shape, TypeOK, Untouched
<1> QED BY <1>3, <1>5, <1>6, <1>7, OneMoves

\* MarkEventProcessed.
LEMMA ShapeEnd ==
  ASSUME Shape, NEW g \in Goroutines, EndRound(g)
  PROVE  Shape'
<1>1. /\ pc[g] = "end" /\ Drop(g) /\ UNCHANGED <<life, open, posted, dead, batchVars, faults>>
      /\ settled' = IF Role(g) = "timer" THEN settled ELSE settled \union {job[g]}
  BY DEF EndRound
<1>2. Role(g) # "timer" => job[g] \in posted
  BY <1>1, GoroutineFacts DEF Shape, GoShape
<1>3. TypeOK'
  BY <1>1, <1>2, DropTypes, Split DEF Shape, TableTypes, BatchTypes, batchVars
<1>4. GoShape(g)' /\ \A h \in Goroutines \ {g} : Untouched(h)
  BY <1>1, DropShape, Split DEF Shape
<1> QED BY <1>1, <1>3, <1>4, SameLife, OneMoves

\* The row that the stages behind the allocation leave.
LEMMA TradedRow ==
  ASSUME Shape, NEW t \in Tokens, Traded(t)
  PROVE  /\ life' \in [Tokens -> LifecycleRows] /\ life'[t].state \in {"FAILED", "POSITION_OPEN"}
         /\ \A s \in Tokens \ {t} : life'[s] = life[s]
         /\ open' \in {open, open \union {t}}
<1>1. PICK r \in LifecycleRows :
        /\ life' = [life EXCEPT ![t] = r] /\ r.state \in {"FAILED", "POSITION_OPEN"}
        /\ open' \in {open, open \union {t}}
  <2>1. life[t] \in LifecycleRows /\ {"FAILED", "EXECUTED", "POSITION_OPEN"} \subseteq LifecycleStates
    BY DEF Shape, TypeOK, LifecycleStates
  <2>2. Advanced(life[t], "FAILED") \in LifecycleRows /\ Advanced(life[t], "FAILED").state = "FAILED"
    BY <2>1, RowTypes
  <2>3. LET row == Advanced(Advanced(life[t], "EXECUTED"), "POSITION_OPEN")
        IN  row \in LifecycleRows /\ row.state = "POSITION_OPEN"
    BY <2>1, RowTypes
  <2> QED BY <2>2, <2>3 DEF Traded
<1> QED BY <1>1 DEF Shape, TypeOK

\* The stages behind the allocation.
LEMMA ShapeTraded ==
  ASSUME Shape, NEW t \in Tokens, Traded(t)
  PROVE  Shape'
<1>1. /\ Allocated(t) \in posted /\ life[t].state = "SELECTED"
      /\ UNCHANGED <<posted, settled, dead, batchVars, pc, job, out, items, picked, seen, faults>>
  BY DEF Traded, busVars, goVars, flushVars
<1>2. /\ life' \in [Tokens -> LifecycleRows] /\ life'[t].state \in {"FAILED", "POSITION_OPEN"}
      /\ \A s \in Tokens \ {t} : life'[s] = life[s]
      /\ open' \in {open, open \union {t}}
  BY TradedRow
<1>3. Grows /\ \A s \in Tokens : LifeOK(s)' /\ Announced(s)'
  <2>1. \A s \in Tokens : LifeOK(s)' BY <1>2 DEF Shape, LifeOK
  <2>2. \A s \in Tokens : Chosen(s) => Chosen(s)' BY <1>2 DEF Chosen
  <2> QED BY <1>1, <2>1, <2>2 DEF Shape, Grows, Announced
<1>4. TypeOK'
  BY <1>1, <1>2, Split DEF Shape, TableTypes, BatchTypes, GoTypes, batchVars
<1>5. \A h \in Goroutines : GoShape(h)'
  BY <1>1, <1>3, UntouchedShape DEF Shape, Untouched
<1> QED BY <1>3, <1>4, <1>5 DEF Shape

\* A statement that fails.
LEMMA ShapeFails ==
  ASSUME Shape, NEW g \in Goroutines, StatementFails(g)
  PROVE  Shape'
<1>1. faults' \in 0..MaxFaults /\ UNCHANGED <<life, open, batchVars>>
  BY Constants DEF StatementFails, Shape, TypeOK
<1>2. CASE pc[g] \in {"read", "cas"} /\ Fail(g)
  BY <1>1, <1>2, FailShape
<1>3. CASE pc[g] = "insert" /\ NextItem(g, out[g]) /\ UNCHANGED busVars
  <2>1. InFlushPC(g) /\ GoTypes /\ GoShape(g) /\ UNCHANGED <<life, posted>>
    BY <1>1, <1>3, Split DEF InFlushPC, Shape, busVars
  <2>2. Grows /\ \A t \in Tokens : LifeOK(t)' /\ Announced(t)'
    BY <2>1, SameLife
  <2>3. out[g] \in Events \union {NoEvent} /\ (out[g] # NoEvent => SoundAfter(out[g]))
    BY <2>1, <2>2, SoundGrows DEF GoTypes, GoShape
  <2>4. GoTypes' /\ GoShape(g)' /\ \A h \in Goroutines \ {g} : Untouched(h)
    BY <1>3, <2>1, <2>2, <2>3, NextItemShape
  <2>5. TypeOK'
    BY <1>1, <1>3, <2>4, Split DEF Shape, TableTypes, BatchTypes, batchVars, busVars
  <2> QED BY <2>2, <2>4, <2>5, OneMoves
<1>4. CASE Drop(g) /\ UNCHANGED busVars
  <2>1. TypeOK'
    BY <1>1, <1>4, DropTypes, Split DEF Shape, TableTypes, BatchTypes, batchVars, busVars
  <2>2. GoShape(g)' /\ \A h \in Goroutines \ {g} : Untouched(h)
    BY <1>4, DropShape, Split DEF Shape
  <2>3. UNCHANGED <<life, posted>> BY <1>1, <1>4 DEF busVars
  <2> QED BY <2>1, <2>2, <2>3, SameLife, OneMoves
<1> QED BY <1>2, <1>3, <1>4 DEF StatementFails

\* A process that ends.
LEMMA ShapeCrash ==
  ASSUME Shape, NEW p \in Procs, Crash(p)
  PROVE  Shape'
<1> DEFINE Reset(f, value) == [g \in Goroutines |-> IF g[1] = p THEN value ELSE f[g]]
<1>1. /\ pc' = Reset(pc, "idle") /\ job' = Reset(job, NoEvent) /\ items' = Reset(items, <<>>)
      /\ picked' = Reset(picked, {}) /\ out' = Reset(out, NoEvent)
      /\ seen' = Reset(seen, ValidatedRow)
  BY DEF Crash
<1>2. UNCHANGED <<life, open, posted, settled, dead>> /\ faults' \in 0..MaxFaults
  BY Constants DEF Crash, busVars, Shape, TypeOK
<1>3. TypeOK'
  <2>1. GoTypes'
    <3>1. GoTypes /\ <<>> \in Queues /\ "idle" \in PCs /\ ValidatedRow \in LifecycleRows
      BY EmptyFacts, Constants, RowTypes, Split DEF Shape
    <3>2. pc' \in [Goroutines -> PCs] BY <1>1, <3>1 DEF GoTypes
    <3>3. job' \in [Goroutines -> Events \union {NoEvent}] BY <1>1, <3>1 DEF GoTypes
    <3>4. items' \in [Goroutines -> Queues] BY <1>1, <3>1 DEF GoTypes
    <3>5. picked' \in [Goroutines -> SUBSET Tokens] BY <1>1, <3>1 DEF GoTypes
    <3>6. out' \in [Goroutines -> Events \union {NoEvent}] BY <1>1, <3>1 DEF GoTypes
    <3>7. seen' \in [Goroutines -> LifecycleRows] BY <1>1, <3>1 DEF GoTypes
    <3> QED BY <3>2, <3>3, <3>4, <3>5, <3>6, <3>7 DEF GoTypes
  <2>2. BatchTypes'
    BY EmptyFacts, Split DEF Shape, BatchTypes, Crash
  <2> QED BY <1>2, <2>1, <2>2, Split DEF Shape, TableTypes
<1>4. Grows /\ \A t \in Tokens : LifeOK(t)' /\ Announced(t)'
  BY <1>2, SameLife
<1>5. ASSUME NEW h \in Goroutines PROVE GoShape(h)'
  <2>1. CASE h[1] = p
    BY <1>1, <2>1 DEF GoShape, InFlushPC
  <2>2. CASE h[1] # p
    <3>1. Untouched(h) BY <1>1, <2>2 DEF Untouched
    <3> QED BY <1>4, <3>1, UntouchedShape DEF Shape
  <2> QED BY <2>1, <2>2
<1> QED BY <1>3, <1>4, <1>5 DEF Shape

\* The steps of a process that are not common to all of its goroutines.
Worker(p) ==
  ReceiveHalted(p) \/ AddToBatch(p) \/ FillBatch(p) \/ TimerFires(p) \/ Allocate(p)

\* Next, by what a step is, not by whose it is.
LEMMA NextParts ==
  ASSUME Next
  PROVE  \/ \E g \in Goroutines : Deliver(g) \/ FlushStep(g) \/ StatementFails(g)
         \/ \E p \in Procs : Worker(p) \/ Crash(p)
         \/ \E t \in Tokens : Traded(t)
<1>1. ASSUME NEW p \in Procs, Select(p) \/ Timer(p) \/ Capital(p)
      PROVE  Worker(p) \/ \E g \in Goroutines : Deliver(g) \/ FlushStep(g)
  BY <1>1, GoroutineFacts, Zenon DEF Select, Timer, Capital, Worker, FlushStep
<1> QED BY <1>1 DEF Next

\* Shape is inductive: it holds when the validated events are all there is, ...
LEMMA ShapeInit == Init => Shape
<1>1. SUFFICES ASSUME Init PROVE Shape
  OBVIOUS
<1>2. \A t \in Tokens : LifeOK(t) /\ Announced(t)
  <2>1. ASSUME NEW t \in Tokens PROVE LifeOK(t)
    BY <1>1, FirstRows, RejectedTypes, RowTypes DEF LifeOK
  <2>2. ASSUME NEW t \in Tokens PROVE Selected(t) \notin posted /\ Allocated(t) \notin posted
    BY <1>1, Names DEF Init
  <2> QED BY <2>1, <2>2 DEF Announced
<1>3. \A g \in Goroutines : GoShape(g)
  BY <1>1 DEF Init, GoShape, InFlushPC
<1> QED BY <1>1, <1>2, <1>3, TypeInit DEF Shape

\* ... and every step keeps it.
LEMMA ShapeNext == Shape /\ [Next]_vars => Shape'
<1>1. SUFFICES ASSUME Shape, [Next]_vars PROVE Shape'
  OBVIOUS
<1>2. CASE UNCHANGED vars
  <2>1. UNCHANGED <<life, open, posted, settled, dead, batch, timer, late,
                    pc, job, out, items, picked, seen, faults>>
    BY <1>2 DEF vars, busVars, batchVars, goVars, flushVars
  <2>2. Grows /\ \A t \in Tokens : LifeOK(t)' /\ Announced(t)'
    BY <1>1, <2>1, SameLife
  <2>3. TypeOK'
    BY <1>1, <2>1, Split DEF Shape, TableTypes, BatchTypes, GoTypes
  <2>4. \A h \in Goroutines : GoShape(h)'
    BY <1>1, <2>1, <2>2, UntouchedShape DEF Shape, Untouched
  <2> QED BY <2>2, <2>3, <2>4 DEF Shape
<1>3. ASSUME NEW g \in Goroutines, Deliver(g) \/ FlushStep(g) \/ StatementFails(g)
      PROVE  Shape'
  BY <1>1, <1>3, ShapeDeliver, ShapeRank, ShapeRead, ShapeCas, ShapeInsert, ShapeOutput,
     ShapeEnd, ShapeFails DEF FlushStep
<1>4. ASSUME NEW p \in Procs, Worker(p) \/ Crash(p)
      PROVE  Shape'
  BY <1>1, <1>4, ShapeReceive, ShapeTimer, ShapeAllocate, ShapeCrash DEF Worker
<1>5. ASSUME NEW t \in Tokens, Traded(t)
      PROVE  Shape'
  BY <1>1, <1>5, ShapeTraded
<1> QED BY <1>1, <1>2, <1>3, <1>4, <1>5, NextParts

\* Every variable keeps its type, for any tokens, processes and faults.
THEOREM SelectionTypeCorrect == Spec => []TypeOK
<1>1. Shape => TypeOK
  BY DEF Shape
<1> QED BY <1>1, ShapeInit, ShapeNext, PTL DEF Spec

\* A token is announced only with the verdict that its lifecycle row carries,
\* and allocated only after that, whatever is redelivered, interrupted or
\* flushed twice (doMandatoryTransition before InsertEvent in flushItems).
THEOREM VerdictsAgree == Spec => []OneVerdict
<1>1. Shape => OneVerdict
  BY DEF Shape, OneVerdict, LifeOK, Announced, Chosen
<1> QED BY <1>1, ShapeInit, ShapeNext, PTL DEF Spec

-------------------------------------------------------------------------------
(* Exclusive is preserved, as long as nothing fails. *)

\* A step that gives no token another place, and leaves the rows of the tokens
\* that keep theirs.
Fewer ==
  /\ \A g \in Goroutines, t \in Tokens : In(g, t)' => In(g, t)
  /\ \A g \in Goroutines : Distinct(g)'
  /\ \A g \in Goroutines, e \in Events :
       Claims(g, e)' => Claims(g, e) /\ (e \in settled' => e \in settled)
  /\ \A g \in Goroutines, t \in Tokens : ToDecide(g, t)' => ToDecide(g, t) /\ life'[t] = life[t]
  /\ \A p \in Procs, t \in Tokens : Holds(p, t)' => Holds(p, t) /\ life'[t] = life[t]
  /\ \A g \in Goroutines, t \in Tokens : Takes(g, t)' => Takes(g, t) /\ life'[t] = life[t]
  /\ \A t \in Tokens : Free(t)' => Free(t) /\ life'[t] = life[t]

\* Such a step keeps the places apart and their tokens undecided.
LEMMA FewerPlaces ==
  ASSUME OnePlace, Undecided, Fewer
  PROVE  OnePlace' /\ Undecided'
<1>1. OnePlace'
  <2>1. \A g, h \in Goroutines, t \in Tokens : In(g, t)' /\ In(h, t)' => g = h
    BY DEF OnePlace, Fewer
  <2>2. \A g \in Goroutines : Distinct(g)'
    BY DEF Fewer
  <2>3. \A p, q \in Procs, t \in Tokens : Holds(p, t)' /\ Holds(q, t)' => p = q
    BY DEF OnePlace, Fewer
  <2>4. /\ \A g, h \in Goroutines, e \in Events : Claims(g, e)' /\ Claims(h, e)' => g = h
        /\ \A g \in Goroutines, e \in Events : Claims(g, e)' => e \notin settled'
    BY DEF OnePlace, Fewer
  <2>5. \A g \in Goroutines, p \in Procs, t \in Tokens : In(g, t)' => ~Holds(p, t)'
    BY DEF OnePlace, Fewer
  <2>6. \A g, h \in Goroutines, t \in Tokens : Takes(g, t)' => ~In(h, t)'
    BY DEF OnePlace, Fewer
  <2>7. \A g \in Goroutines, p \in Procs, t \in Tokens : Takes(g, t)' => ~Holds(p, t)'
    BY DEF OnePlace, Fewer
  <2>8. /\ \A g \in Goroutines, t \in Tokens : Free(t)' => ~In(g, t)'
        /\ \A p \in Procs, t \in Tokens : Free(t)' => ~Holds(p, t)'
    BY DEF OnePlace, Fewer
  <2> QED BY <2>1, <2>2, <2>3, <2>4, <2>5, <2>6, <2>7, <2>8 DEF OnePlace
<1>2. Undecided'
  BY DEF Undecided, Fewer
<1> QED BY <1>1, <1>2

\* What is in a queue: nothing, its head, or its head and one more.
LEMMA Among ==
  ASSUME NEW g \in Goroutines, items[g] \in Queues, NEW t
  PROVE  /\ items[g] = <<>> => ~In(g, t)
         /\ In(g, t) => t \in Tokens
         /\ items[g] # <<>> => /\ In(g, Head(items[g]))
                               /\ In(g, t) /\ t # Head(items[g]) =>
                                    2 \in DOMAIN items[g] /\ t = items[g][2]
<1>1. CASE items[g] = <<>>
  BY <1>1 DEF In
<1>2. CASE items[g] # <<>>
  <2>1. 1 \in DOMAIN items[g] /\ items[g][1] = Head(items[g]) /\ DOMAIN items[g] \subseteq 1..2
    BY <1>2, QueueFacts
  <2>2. \A i \in DOMAIN items[g] : items[g][i] \in Tokens
    BY DEF Queues, Batches
  <2> QED BY <1>2, <2>1, <2>2 DEF In
<1> QED BY <1>1, <1>2

\* The head leaves the queue of its flush.
LEMMA Popped ==
  ASSUME Shape, NEW g \in Goroutines, InFlushPC(g), \A h \in Goroutines : Distinct(h),
         items' = [items EXCEPT ![g] = Tail(@)]
  PROVE  /\ \A h \in Goroutines, t \in Tokens :
              In(h, t)' <=> In(h, t) /\ ~(h = g /\ t = Head(items[g]))
         /\ \A h \in Goroutines : Distinct(h)'
<1> DEFINE q == items[g]
<1>1. q \in Queues /\ q # <<>> BY HeadFacts
<1>2. items'[g] = Tail(q) /\ \A h \in Goroutines \ {g} : items'[h] = items[h]
  BY DEF Shape, TypeOK
<1>3. ASSUME NEW t \in Tokens PROVE In(g, t)' <=> In(g, t) /\ t # Head(q)
  <2>1. 1 \in DOMAIN q /\ q[1] = Head(q) /\ DOMAIN q \subseteq 1..2
        /\ \A i \in DOMAIN Tail(q) : i = 1 /\ 2 \in DOMAIN q /\ Tail(q)[i] = q[2]
    BY <1>1, QueueFacts
  <2>2. 2 \in DOMAIN q => 1 \in DOMAIN Tail(q)
    BY <1>1, QueueFacts
  <2>3. 2 \in DOMAIN q => q[1] # q[2]
    BY DEF Distinct
  <2>4. In(g, t)' <=> 2 \in DOMAIN q /\ t = q[2]
    BY <1>2, <2>1, <2>2 DEF In
  <2>5. In(g, t) <=> t = q[1] \/ (2 \in DOMAIN q /\ t = q[2])
    BY <2>1 DEF In
  <2> QED BY <2>1, <2>3, <2>4, <2>5
<1>4. ASSUME NEW h \in Goroutines \ {g}, NEW t \in Tokens PROVE In(h, t)' <=> In(h, t)
  BY <1>2 DEF In
<1>5. ASSUME NEW h \in Goroutines PROVE Distinct(h)'
  <2>1. CASE h = g
    <3>1. 2 \notin DOMAIN Tail(q) BY <1>1, QueueFacts
    <3> QED BY <1>2, <2>1, <3>1 DEF Distinct
  <2>2. CASE h # g BY <1>2, <2>2 DEF Distinct
  <2> QED BY <2>1, <2>2
<1> QED BY <1>3, <1>4, <1>5

\* The places, when queues, batches, claims and marks stay.
LEMMA SamePlaces ==
  ASSUME UNCHANGED <<items, batch, job, settled>>,
         \A h \in Goroutines : pc'[h] = "receive" <=> pc[h] = "receive"
  PROVE  /\ \A g \in Goroutines, t \in Tokens : In(g, t)' <=> In(g, t)
         /\ \A g \in Goroutines : Distinct(g)' <=> Distinct(g)
         /\ \A g \in Goroutines, e \in Events : Claims(g, e)' <=> Claims(g, e)
         /\ \A p \in Procs, t \in Tokens : Holds(p, t)' <=> Holds(p, t)
         /\ \A g \in Goroutines, t \in Tokens : Takes(g, t)' <=> Takes(g, t)
         /\ \A t \in Tokens : Free(t)' <=> Free(t)
BY DEF In, Distinct, Claims, Holds, Takes, Free

\* ProcessBatch and the reading of a row change no place.
LEMMA OrderlyRank ==
  ASSUME Shape, Orderly, NEW g \in Goroutines, ProcessBatch(g) \/ ReadLifecycle(g)
  PROVE  Orderly'
<1> DEFINE t == Head(items[g])
<1>1. InFlushPC(g) /\ pc[g] \in {"rank", "read"} /\ t \in Tokens /\ items[g] \in Queues /\ items[g] # <<>>
  BY HeadFacts DEF ProcessBatch, ReadLifecycle, InFlushPC
<1>2. life[t].state = "VALIDATED"
  BY <1>1, Among DEF Orderly, Undecided, ToDecide
<1>3. /\ UNCHANGED <<life, posted, settled, batch, timer, late, job, items, out>>
      /\ \/ pc' = [pc EXCEPT ![g] = "read"] /\ seen' = seen
         \/ pc' = [pc EXCEPT ![g] = "cas"] /\ seen' = [seen EXCEPT ![g] = life[t]]
  BY <1>2 DEF ProcessBatch, ReadLifecycle, Goto, busVars, batchVars
<1>4. /\ \A h \in Goroutines \ {g} : pc'[h] = pc[h] /\ seen'[h] = seen[h]
      /\ pc'[g] \in {"read", "cas"} /\ (pc'[g] = "cas" => seen'[g] = life[t])
  BY <1>3 DEF Shape, TypeOK
<1>5. \A h \in Goroutines : pc'[h] = "receive" <=> pc[h] = "receive"
  BY <1>1, <1>4
<1>6. OnePlace' /\ Undecided'
  <2>1. Fewer
    <3>1. \A h \in Goroutines, s \in Tokens : ToDecide(h, s)' => ToDecide(h, s)
      BY <1>1, <1>3, <1>4, <1>5, SamePlaces DEF ToDecide
    <3> QED BY <1>3, <1>5, <3>1, SamePlaces DEF Fewer, Orderly, OnePlace
  <2> QED BY <2>1, FewerPlaces DEF Orderly
<1>7. Local'
  BY <1>1, <1>3, <1>4 DEF Orderly, Local, InFlushPC
<1>8. Covered'
  BY <1>3, <1>5, SamePlaces DEF Orderly, Covered
<1> QED BY <1>6, <1>7, <1>8 DEF Orderly

\* The verdict: the row is the one that was read, so the transition goes through.
LEMMA OrderlyCas ==
  ASSUME Shape, Orderly, NEW g \in Goroutines, TransitionState(g)
  PROVE  Orderly'
<1> DEFINE t == Head(items[g])
<1>1. /\ InFlushPC(g) /\ pc[g] = "cas" /\ UNCHANGED <<open, batchVars, faults>>
      /\ t \in Tokens /\ items[g] \in Queues /\ items[g] # <<>> /\ job[g] \in Events
  BY HeadFacts DEF TransitionState, InFlushPC
<1>2. In(g, t) /\ life[t].state = "VALIDATED" /\ seen[g] = life[t]
  BY <1>1, Among DEF Orderly, Undecided, Local, ToDecide
<1>3. Verdict(g) \in {"SELECTED", "REJECTED"} /\ (t \in picked[g] <=> Verdict(g) = "SELECTED")
  BY DEF Verdict
<1>4. Transits(life[t], seen[g], Verdict(g))
  BY <1>2, <1>3 DEF Transits, ValidTransitions
<1>5. /\ life' = [life EXCEPT ![t] = Advanced(@, Verdict(g))] /\ UNCHANGED busVars
      /\ IF t \notin picked[g] THEN NextItem(g, out[g])
         ELSE IF job[g] = Validated(t) THEN NextItem(g, Selected(t))
         ELSE Goto(g, "insert") /\ UNCHANGED <<job, out, items, picked, seen>>
  BY <1>4 DEF TransitionState
<1>6. life'[t].state = Verdict(g) /\ \A s \in Tokens \ {t} : life'[s] = life[s]
  BY <1>1, <1>3, <1>4, <1>5, Transition DEF busVars
\* Its place was the only one.
<1>7. /\ \A h \in Goroutines : In(h, t) => h = g
      /\ \A p \in Procs : ~Holds(p, t)
      /\ \A h \in Goroutines : ~Takes(h, t)
      /\ ~Free(t)
  BY <1>1, <1>2 DEF Orderly, OnePlace
<1>8. /\ UNCHANGED <<posted, settled, batch, timer, late, job, seen>>
      /\ \A h \in Goroutines \ {g} : pc'[h] = pc[h] /\ out'[h] = out[h]
      /\ \A h \in Goroutines : pc'[h] = "receive" <=> pc[h] = "receive"
      /\ pc'[g] \in {"read", "insert", "emit", "end"}
  BY <1>1, <1>5 DEF Shape, TypeOK, NextItem, Goto, busVars, batchVars
<1>9. ASSUME NEW r, NextItem(g, r),
             \/ r = out[g] /\ t \notin picked[g]
             \/ r = Selected(t) /\ t \in picked[g] /\ job[g] = Validated(t)
      PROVE  Orderly'
  <2>1. /\ \A h \in Goroutines, s \in Tokens : In(h, s)' <=> In(h, s) /\ ~(h = g /\ s = t)
        /\ \A h \in Goroutines : Distinct(h)'
    BY <1>1, <1>9, Popped DEF NextItem, Orderly, OnePlace
  <2>2. out'[g] = r /\ pc'[g] \in {"read", "emit", "end"} /\ \A h \in Goroutines \ {g} : items'[h] = items[h]
    BY <1>9 DEF Shape, TypeOK, NextItem, Goto
  <2>3. /\ \A h \in Goroutines, e \in Events : Claims(h, e)' <=> Claims(h, e)
        /\ \A p \in Procs, s \in Tokens : Holds(p, s)' <=> Holds(p, s)
        /\ \A h \in Goroutines, s \in Tokens : Takes(h, s)' <=> Takes(h, s)
        /\ \A s \in Tokens : Free(s)' <=> Free(s)
    BY <1>8 DEF Claims, Holds, Takes, Free
  <2>4. ASSUME NEW h \in Goroutines, NEW s \in Tokens, ToDecide(h, s)'
        PROVE  ToDecide(h, s) /\ s # t
    <3>1. In(h, s) /\ ~(h = g /\ s = t) BY <2>1, <2>4 DEF ToDecide
    <3>2. s # t BY <1>7, <3>1
    <3> QED BY <1>8, <2>2, <2>4, <3>1, <3>2 DEF ToDecide
  <2>5. Fewer
    BY <1>6, <1>7, <1>8, <2>1, <2>3, <2>4 DEF Fewer
  <2>6. OnePlace' /\ Undecided'
    BY <2>5, FewerPlaces DEF Orderly
  <2>7. Local'
    <3>1. \A p \in Procs : batch'[p] # <<>> => timer'[p] # NoToken
      BY <1>8 DEF Orderly, Local
    <3>2. \A h \in Goroutines : pc'[h] = "idle" => job'[h] = NoEvent
      BY <1>8, <2>2 DEF Orderly, Local
    <3>3. ASSUME NEW h \in Goroutines, pc'[h] = "cas" PROVE seen'[h] = life'[Head(items'[h])]
      <4>1. h # g /\ pc[h] = "cas" /\ items'[h] = items[h] BY <1>8, <2>2, <3>3
      <4>2. InFlushPC(h) BY <4>1 DEF InFlushPC
      <4>3. Head(items[h]) \in Tokens /\ In(h, Head(items[h])) BY <4>2, HeadFacts, Among
      <4>4. Head(items[h]) # t BY <1>7, <4>1, <4>3
      <4> QED BY <1>6, <1>8, <4>1, <4>3, <4>4 DEF Orderly, Local
    <3>4. ASSUME NEW h \in Goroutines, NEW s \in Tokens, InFlushPC(h)', out'[h] = Selected(s)
          PROVE  job'[h] = Validated(s)
      <4>1. CASE h # g BY <1>8, <3>4, <4>1 DEF Orderly, Local, InFlushPC
      <4>2. CASE h = g /\ r = out[g] BY <1>1, <1>8, <2>2, <3>4, <4>2 DEF Orderly, Local
      <4>3. CASE h = g /\ r = Selected(t) /\ job[g] = Validated(t)
        BY <1>1, <1>8, <2>2, <3>4, <4>3, Names
      <4> QED BY <1>9, <4>1, <4>2, <4>3
    <3> QED BY <3>1, <3>2, <3>3, <3>4 DEF Local
  <2>8. Covered'
    <3>1. ASSUME NEW s \in Tokens, life'[s].state = "VALIDATED"
          PROVE  \/ Free(s)' \/ \E p \in Procs : Holds(p, s)'
                 \/ \E h \in Goroutines : Takes(h, s)' \/ In(h, s)'
      BY <1>3, <1>6, <2>1, <2>3, <3>1 DEF Orderly, Covered
    <3>2. ASSUME NEW s \in Tokens, life'[s].state = "SELECTED", Selected(s) \notin posted'
          PROVE  \E h \in Goroutines : In(h, s)' \/ out'[h] = Selected(s)
      <4>1. CASE s = t BY <1>3, <1>6, <1>9, <2>2, <3>2, <4>1
      <4>2. CASE s # t
        <5>1. PICK h \in Goroutines : In(h, s) \/ out[h] = Selected(s)
          BY <1>6, <1>8, <3>2, <4>2 DEF Orderly, Covered
        <5>2. CASE In(h, s) BY <2>1, <4>2, <5>2
        <5>3. CASE out[h] = Selected(s) /\ h # g BY <1>8, <5>3
        <5>4. CASE out[h] = Selected(s) /\ h = g /\ r = out[g] BY <2>2, <5>4
        <5>5. CASE out[h] = Selected(s) /\ h = g /\ job[g] = Validated(t)
          <6>1. job[g] = Validated(s) BY <1>1, <5>5 DEF Orderly, Local
          <6> QED BY <1>1, <4>2, <5>5, <6>1, Names
        <5> QED BY <1>9, <5>1, <5>2, <5>3, <5>4, <5>5
      <4> QED BY <4>1, <4>2
    <3> QED BY <3>1, <3>2 DEF Covered
  <2> QED BY <2>6, <2>7, <2>8 DEF Orderly
<1>10. CASE Goto(g, "insert") /\ UNCHANGED <<job, out, items, picked, seen>>
  <2>1. pc'[g] = "insert" /\ UNCHANGED <<job, out, items>> BY <1>10 DEF Shape, TypeOK, Goto
  <2>2. /\ \A h \in Goroutines, s \in Tokens : In(h, s)' <=> In(h, s)
        /\ \A h \in Goroutines : Distinct(h)' <=> Distinct(h)
        /\ \A h \in Goroutines, e \in Events : Claims(h, e)' <=> Claims(h, e)
        /\ \A p \in Procs, s \in Tokens : Holds(p, s)' <=> Holds(p, s)
        /\ \A h \in Goroutines, s \in Tokens : Takes(h, s)' <=> Takes(h, s)
        /\ \A s \in Tokens : Free(s)' <=> Free(s)
    BY <1>8, <2>1, SamePlaces
  <2>3. ASSUME NEW h \in Goroutines, NEW s \in Tokens, ToDecide(h, s)'
        PROVE  ToDecide(h, s) /\ s # t
    <3>1. In(h, s) BY <2>2, <2>3 DEF ToDecide
    <3>2. s # t BY <1>7, <2>1, <2>3, <3>1 DEF ToDecide
    <3> QED BY <1>8, <2>1, <2>3, <3>1, <3>2 DEF ToDecide
  <2>4. OnePlace' /\ Undecided'
    <3>1. Fewer BY <1>6, <1>7, <1>8, <2>2, <2>3 DEF Fewer, Orderly, OnePlace
    <3> QED BY <3>1, FewerPlaces DEF Orderly
  <2>5. Local'
    <3>1. ASSUME NEW h \in Goroutines, pc'[h] = "cas" PROVE seen'[h] = life'[Head(items'[h])]
      <4>1. h # g /\ pc[h] = "cas" /\ items' = items BY <1>8, <2>1, <3>1
      <4>2. InFlushPC(h) BY <4>1 DEF InFlushPC
      <4>3. Head(items[h]) \in Tokens /\ In(h, Head(items[h])) BY <4>2, HeadFacts, Among
      <4>4. Head(items[h]) # t BY <1>7, <4>1, <4>3
      <4> QED BY <1>6, <1>8, <4>1, <4>3, <4>4 DEF Orderly, Local
    <3>2. \A h \in Goroutines : InFlushPC(h)' => InFlushPC(h)
      BY <1>1, <1>8 DEF InFlushPC
    <3> QED BY <1>8, <2>1, <3>1, <3>2 DEF Orderly, Local
  <2>6. Covered'
    BY <1>2, <1>3, <1>6, <1>8, <2>1, <2>2 DEF Orderly, Covered
  <2> QED BY <2>4, <2>5, <2>6 DEF Orderly
<1> QED BY <1>5, <1>9, <1>10

\* InsertEvent inside the flush announces the head, which leaves the queue.
LEMMA OrderlyInsert ==
  ASSUME Shape, Orderly, NEW g \in Goroutines, InsertSelected(g)
  PROVE  Orderly'
<1> DEFINE t == Head(items[g])
<1>1. /\ InFlushPC(g) /\ pc[g] = "insert" /\ NextItem(g, out[g])
      /\ UNCHANGED <<life, settled, batch, timer, late, job, seen>>
      /\ posted' = posted \union {Selected(t)}
      /\ t \in Tokens /\ items[g] \in Queues /\ items[g] # <<>>
  BY HeadFacts DEF InsertSelected, InFlushPC, NextItem, batchVars
<1>2. life[t].state # "VALIDATED"
  BY <1>1 DEF Shape, GoShape, Chosen
<1>3. /\ \A h \in Goroutines, s \in Tokens : In(h, s)' <=> In(h, s) /\ ~(h = g /\ s = t)
      /\ \A h \in Goroutines : Distinct(h)'
  BY <1>1, Popped DEF NextItem, Orderly, OnePlace
<1>4. /\ UNCHANGED out /\ pc'[g] \in {"read", "emit", "end"}
      /\ \A h \in Goroutines \ {g} : pc'[h] = pc[h] /\ items'[h] = items[h]
  BY <1>1 DEF Shape, TypeOK, NextItem, Goto
<1>5. \A h \in Goroutines : pc'[h] = "receive" <=> pc[h] = "receive"
  BY <1>1, <1>4
<1>6. /\ \A h \in Goroutines, e \in Events : Claims(h, e)' <=> Claims(h, e)
      /\ \A p \in Procs, s \in Tokens : Holds(p, s)' <=> Holds(p, s)
      /\ \A h \in Goroutines, s \in Tokens : Takes(h, s)' <=> Takes(h, s)
      /\ \A s \in Tokens : Free(s)' <=> Free(s)
  BY <1>1, <1>5 DEF Claims, Holds, Takes, Free
<1>7. OnePlace' /\ Undecided'
  <2>1. ASSUME NEW h \in Goroutines, NEW s \in Tokens, ToDecide(h, s)' PROVE ToDecide(h, s)
    BY <1>3, <1>4, <2>1 DEF ToDecide
  <2>2. Fewer BY <1>1, <1>3, <1>6, <2>1 DEF Fewer
  <2> QED BY <2>2, FewerPlaces DEF Orderly
<1>8. Local'
  BY <1>1, <1>4 DEF Orderly, Local, InFlushPC
<1>9. Covered'
  <2>1. ASSUME NEW s \in Tokens, life'[s].state = "VALIDATED"
        PROVE  \/ Free(s)' \/ \E p \in Procs : Holds(p, s)'
               \/ \E h \in Goroutines : Takes(h, s)' \/ In(h, s)'
    BY <1>1, <1>2, <1>3, <1>6, <2>1 DEF Orderly, Covered
  <2>2. ASSUME NEW s \in Tokens, life'[s].state = "SELECTED", Selected(s) \notin posted'
        PROVE  \E h \in Goroutines : In(h, s)' \/ out'[h] = Selected(s)
    BY <1>1, <1>3, <1>4, <2>2 DEF Orderly, Covered
  <2> QED BY <2>1, <2>2 DEF Covered
<1> QED BY <1>7, <1>8, <1>9 DEF Orderly

\* InsertEvent of a returned event.
LEMMA OrderlyOutput ==
  ASSUME Shape, Orderly, NEW g \in Goroutines, InsertOutput(g)
  PROVE  Orderly'
<1>1. /\ pc[g] = "emit" /\ posted' = posted \union {out[g]} /\ UNCHANGED <<life, settled, batch, timer, late, job, items, seen>>
      /\ pc'[g] = "end" /\ out'[g] = NoEvent
      /\ \A h \in Goroutines \ {g} : pc'[h] = pc[h] /\ out'[h] = out[h]
  BY DEF InsertOutput, Goto, batchVars, flushVars, Shape, TypeOK
<1>2. \A h \in Goroutines : pc'[h] = "receive" <=> pc[h] = "receive"
  BY <1>1
<1>3. OnePlace' /\ Undecided'
  <2>1. \A h \in Goroutines, s \in Tokens : ToDecide(h, s)' => ToDecide(h, s)
    BY <1>1, <1>2, SamePlaces DEF ToDecide
  <2>2. Fewer BY <1>1, <1>2, <2>1, SamePlaces DEF Fewer, Orderly, OnePlace
  <2> QED BY <2>2, FewerPlaces DEF Orderly
<1>4. Local'
  BY <1>1 DEF Orderly, Local, InFlushPC
<1>5. Covered'
  BY <1>1, <1>2, SamePlaces DEF Orderly, Covered
<1> QED BY <1>3, <1>4, <1>5 DEF Orderly

\* A goroutine that drops what is neither in a flush nor waiting to be returned;
\* if its event was a validated one, that is marked.
LEMMA OrderlyDrop ==
  ASSUME Shape, Orderly, NEW g \in Goroutines, Drop(g), pc[g] \in {"gate", "end"},
         UNCHANGED <<life, posted, batchVars>>,
         \/ settled' = settled /\ Role(g) # "select"
         \/ settled' = settled \union {job[g]} /\ Role(g) # "timer"
  PROVE  Orderly'
<1>1. /\ UNCHANGED <<batch, timer, late>> /\ pc'[g] = "idle" /\ job'[g] = NoEvent
      /\ \A h \in Goroutines \ {g} : pc'[h] = pc[h] /\ out'[h] = out[h] /\ job'[h] = job[h] /\ seen'[h] = seen[h]
      /\ UNCHANGED <<items, out>>
  <2>1. items[g] = <<>> /\ out[g] = NoEvent BY DEF Shape, GoShape, InFlushPC
  <2> QED BY <2>1 DEF Drop, Goto, batchVars, Shape, TypeOK
<1>2. /\ \A h \in Goroutines, s \in Tokens : In(h, s)' <=> In(h, s)
      /\ \A h \in Goroutines : Distinct(h)' <=> Distinct(h)
      /\ \A p \in Procs, s \in Tokens : Holds(p, s)' <=> Holds(p, s)
  BY <1>1 DEF In, Distinct, Holds
<1>3. \A h \in Goroutines, s \in Tokens : Takes(h, s)' <=> Takes(h, s)
  BY <1>1 DEF Takes
<1>4. \A h \in Goroutines, e \in Events : Claims(h, e)' <=> Claims(h, e) /\ h # g
  BY <1>1, Names DEF Claims
<1>5. ASSUME NEW s \in Tokens PROVE Free(s)' <=> Free(s)
  <2>1. Claims(g, Validated(s)) => Role(g) = "select"
    BY GoroutineFacts, Names DEF Claims, Shape, GoShape
  <2>2. CASE settled' = settled /\ Role(g) # "select"
    BY <1>4, <2>1, <2>2, Names DEF Free
  <2>3. CASE settled' = settled \union {job[g]} /\ Role(g) # "timer"
    BY <1>4, <2>1, <2>3, Names DEF Free, Claims
  <2> QED BY <2>2, <2>3
<1>6. OnePlace' /\ Undecided'
  <2>1. \A h \in Goroutines, s \in Tokens : ToDecide(h, s)' => ToDecide(h, s)
    BY <1>1, <1>2 DEF ToDecide
  <2>2. ASSUME NEW h \in Goroutines, NEW e \in Events, Claims(h, e)'
        PROVE  Claims(h, e) /\ (e \in settled' => e \in settled)
    <3>1. Claims(h, e) /\ h # g BY <1>4, <2>2
    <3>2. Role(g) # "timer" => job[g] # e
      BY <3>1 DEF Claims, Orderly, OnePlace
    <3> QED BY <3>1, <3>2
  <2>3. Fewer BY <1>2, <1>3, <1>5, <2>1, <2>2 DEF Fewer, Orderly, OnePlace
  <2> QED BY <2>3, FewerPlaces DEF Orderly
<1>7. Local'
  BY <1>1 DEF Orderly, Local, InFlushPC
<1>8. Covered'
  BY <1>1, <1>2, <1>3, <1>5 DEF Orderly, Covered
<1> QED BY <1>6, <1>7, <1>8 DEF Orderly

\* MarkEventProcessed.
LEMMA OrderlyEnd ==
  ASSUME Shape, Orderly, NEW g \in Goroutines, EndRound(g)
  PROVE  Orderly'
<1>1. /\ Drop(g) /\ pc[g] \in {"gate", "end"} /\ UNCHANGED <<life, posted, batchVars>>
      /\ \/ settled' = settled /\ Role(g) # "select"
         \/ settled' = settled \union {job[g]} /\ Role(g) # "timer"
  BY DEF EndRound
<1> QED BY <1>1, OrderlyDrop

\* CapitalWorker.Process works on selection events only.
LEMMA OrderlyAllocate ==
  ASSUME Shape, Orderly, NEW p \in Procs, Allocate(p)
  PROVE  Orderly'
<1> DEFINE g == <<p, "capital">>
<1>1. g \in Goroutines /\ Role(g) = "capital" /\ pc[g] = "gate" /\ UNCHANGED <<life, batchVars>>
      /\ job[g].token \in Tokens
  BY GoroutineFacts, Names DEF Allocate, Shape, GoShape
<1>2. CASE Fail(g)
  <2>1. /\ Drop(g) /\ pc[g] \in {"gate", "end"} /\ UNCHANGED <<life, posted, batchVars>>
        /\ \/ settled' = settled /\ Role(g) # "select"
           \/ settled' = settled \union {job[g]} /\ Role(g) # "timer"
    BY <1>1, <1>2 DEF Fail, busVars
  <2> QED BY <1>1, <2>1, OrderlyDrop
<1>3. CASE out' = [out EXCEPT ![g] = Allocated(job[g].token)] /\ Goto(g, "emit")
           /\ UNCHANGED <<busVars, job, items, picked, seen>>
  <2>1. /\ UNCHANGED <<posted, settled, batch, timer, late, job, items, seen>>
        /\ pc'[g] = "emit" /\ out[g] = NoEvent
        /\ \A h \in Goroutines \ {g} : pc'[h] = pc[h] /\ out'[h] = out[h]
    BY <1>1, <1>3 DEF Goto, batchVars, busVars, Shape, TypeOK, GoShape
  <2>2. \A h \in Goroutines : pc'[h] = "receive" <=> pc[h] = "receive"
    BY <1>1, <2>1
  <2>3. OnePlace' /\ Undecided'
    <3>1. \A h \in Goroutines, s \in Tokens : ToDecide(h, s)' => ToDecide(h, s)
      BY <1>1, <2>1, <2>2, SamePlaces DEF ToDecide
    <3>2. Fewer BY <1>1, <2>1, <2>2, <3>1, SamePlaces DEF Fewer, Orderly, OnePlace
    <3> QED BY <3>2, FewerPlaces DEF Orderly
  <2>4. Local'
    BY <1>1, <2>1 DEF Orderly, Local, InFlushPC
  <2>5. Covered'
    BY <1>1, <2>1, <2>2, SamePlaces, Names DEF Orderly, Covered
  <2> QED BY <2>3, <2>4, <2>5 DEF Orderly
<1> QED BY <1>2, <1>3 DEF Allocate

\* The stages behind the allocation move chosen tokens only.
LEMMA OrderlyTraded ==
  ASSUME Shape, Orderly, NEW t \in Tokens, Traded(t)
  PROVE  Orderly'
<1>1. /\ life[t].state = "SELECTED" /\ life[t] \in LifecycleRows
      /\ UNCHANGED <<posted, settled, batch, timer, late, pc, job, out, items, seen>>
  BY DEF Traded, busVars, batchVars, goVars, flushVars, Shape, TypeOK
<1>2. life'[t].state \in {"FAILED", "POSITION_OPEN"} /\ \A s \in Tokens \ {t} : life'[s] = life[s]
  BY TradedRow
<1>3. OnePlace' /\ Undecided'
  <2>1. \A h \in Goroutines, s \in Tokens : ToDecide(h, s)' => ToDecide(h, s)
    BY <1>1, SamePlaces DEF ToDecide
  <2>2. Fewer
    BY <1>1, <1>2, <2>1, SamePlaces DEF Fewer, Orderly, OnePlace, Undecided
  <2> QED BY <2>2, FewerPlaces DEF Orderly
<1>4. Local'
  <2>1. ASSUME NEW h \in Goroutines, pc[h] = "cas" PROVE life'[Head(items[h])] = life[Head(items[h])]
    <3>1. InFlushPC(h) BY <2>1 DEF InFlushPC
    <3>2. Head(items[h]) \in Tokens /\ In(h, Head(items[h])) BY <3>1, HeadFacts, Among
    <3>3. life[Head(items[h])].state = "VALIDATED"
      BY <2>1, <3>2 DEF Orderly, Undecided, ToDecide
    <3> QED BY <1>1, <1>2, <3>2, <3>3
  <2> QED BY <1>1, <2>1 DEF Orderly, Local, InFlushPC
<1>5. Covered'
  BY <1>1, <1>2, SamePlaces DEF Orderly, Covered
<1> QED BY <1>3, <1>4, <1>5 DEF Orderly

\* A worker claims an event that nobody works on.
LEMMA OrderlyDeliver ==
  ASSUME Shape, Orderly, NEW g \in Goroutines, Deliver(g), UNCHANGED faults
  PROVE  Orderly'
<1>1. PICK e \in posted \ settled :
        /\ \/ Role(g) = "select" /\ e.kind = "validated" /\ Goto(g, "receive")
           \/ Role(g) = "capital" /\ e.kind = "selection" /\ Goto(g, "gate")
        /\ \A h \in Goroutines : Role(h) # "timer" => job[h] # e
        /\ job' = [job EXCEPT ![g] = e]
  <2>1. faults' # faults + 1 BY DEF Shape, TypeOK
  <2>2. PICK e \in posted \ settled :
          /\ \/ Role(g) = "select" /\ e.kind = "validated" /\ Goto(g, "receive")
             \/ Role(g) = "capital" /\ e.kind = "selection" /\ Goto(g, "gate")
          /\ \/ (\A h \in Goroutines : Role(h) # "timer" => job[h] # e) /\ UNCHANGED faults
             \/ faults < MaxFaults /\ faults' = faults + 1
          /\ job' = [job EXCEPT ![g] = e]
    BY Zenon DEF Deliver
  <2> QED BY <2>1, <2>2
<1>2. /\ e \in Events /\ job'[g] = e /\ pc[g] = "idle" /\ pc'[g] \in {"receive", "gate"}
      /\ pc'[g] = "receive" <=> e.kind = "validated"
      /\ Role(g) # "timer" /\ job[g] = NoEvent /\ out[g] = NoEvent
      /\ \A h \in Goroutines \ {g} : pc'[h] = pc[h] /\ job'[h] = job[h]
      /\ UNCHANGED <<life, posted, settled, batch, timer, late, items, out, seen>>
  BY <1>1 DEF Deliver, Goto, busVars, batchVars, flushVars, Shape, TypeOK, GoShape, Orderly, Local
<1>3. /\ \A h \in Goroutines, s \in Tokens : In(h, s)' <=> In(h, s)
      /\ \A h \in Goroutines : Distinct(h)' <=> Distinct(h)
      /\ \A p \in Procs, s \in Tokens : Holds(p, s)' <=> Holds(p, s)
  BY <1>2 DEF In, Distinct, Holds
<1>4. /\ \A h \in Goroutines, f \in Events : Claims(h, f)' <=> Claims(h, f) \/ (h = g /\ f = e)
      /\ \A h \in Goroutines : ~Claims(h, e)
  BY <1>1, <1>2, Names DEF Claims
<1>5. \A h \in Goroutines, s \in Tokens : Takes(h, s)' <=> Takes(h, s) \/ (h = g /\ Validated(s) = e)
  BY <1>2, Names DEF Takes
<1>6. \A s \in Tokens : Free(s)' <=> Free(s) /\ Validated(s) # e
  BY <1>2, <1>4, Names DEF Free
<1>7. \A s \in Tokens : Validated(s) = e => Free(s)
  BY <1>1, <1>4 DEF Free
<1>8. \A h \in Goroutines, s \in Tokens : Takes(h, s) => Claims(h, Validated(s))
  BY DEF Takes, Claims, Shape, GoShape
<1>9. OnePlace'
  <2>1. /\ \A h, k \in Goroutines, f \in Events : Claims(h, f)' /\ Claims(k, f)' => h = k
        /\ \A h \in Goroutines, f \in Events : Claims(h, f)' => f \notin settled'
    BY <1>1, <1>2, <1>4 DEF Orderly, OnePlace
  <2>2. \A h, k \in Goroutines, s \in Tokens : Takes(h, s)' => ~In(k, s)'
    BY <1>3, <1>5, <1>7 DEF Orderly, OnePlace
  <2>3. \A h \in Goroutines, p \in Procs, s \in Tokens : Takes(h, s)' => ~Holds(p, s)'
    BY <1>3, <1>5, <1>7 DEF Orderly, OnePlace
  <2> QED BY <1>3, <1>6, <2>1, <2>2, <2>3 DEF Orderly, OnePlace
<1>10. Undecided'
  <2>1. \A h \in Goroutines, s \in Tokens : ToDecide(h, s)' => ToDecide(h, s)
    BY <1>2, <1>3 DEF ToDecide
  <2> QED BY <1>2, <1>3, <1>5, <1>6, <1>7, <2>1 DEF Orderly, Undecided
<1>11. Local'
  BY <1>2 DEF Orderly, Local, InFlushPC
<1>12. Covered'
  BY <1>2, <1>3, <1>5, <1>6, Names DEF Orderly, Covered
<1> QED BY <1>9, <1>10, <1>11, <1>12 DEF Orderly

\* The validated event in hand goes into the flush or into the batch; what was
\* in the batch goes with it.
LEMMA OrderlyReceive ==
  ASSUME Shape, Orderly, NEW p \in Procs, ReceiveHalted(p) \/ AddToBatch(p) \/ FillBatch(p)
  PROVE  Orderly'
<1> DEFINE g == <<p, "select">>
           t == job[g].token
<1>1. /\ g \in Goroutines /\ pc[g] = "receive" /\ t \in Tokens /\ job[g] = Validated(t)
      /\ Takes(g, t) /\ items[g] = <<>> /\ out[g] = NoEvent
      /\ UNCHANGED <<life, posted, settled, job, out, seen>>
  <2>1. g \in Goroutines /\ Role(g) = "select"
    BY GoroutineFacts
  <2>2. pc[g] = "receive" /\ UNCHANGED <<life, posted, settled, job, out, seen>>
    BY DEF ReceiveHalted, AddToBatch, FillBatch, busVars
  <2>3. job[g] \in Events /\ job[g].kind = "validated" /\ items[g] = <<>> /\ out[g] = NoEvent
    BY <2>1, <2>2 DEF Shape, GoShape, InFlushPC
  <2>4. t \in Tokens /\ job[g] = Validated(t)
    BY <2>3, Names
  <2> QED BY <2>1, <2>2, <2>3, <2>4 DEF Takes
<1>2. life[t].state = "VALIDATED" /\ ~Free(t) /\ (\A q \in Procs : ~Holds(q, t))
      /\ \A h \in Goroutines : ~In(h, t) /\ (Takes(h, t) => h = g)
  <2>1. Claims(g, Validated(t)) BY <1>1, GoroutineFacts DEF Claims
  <2>2. \A h \in Goroutines : Takes(h, t) => Claims(h, Validated(t))
    BY DEF Takes, Claims, Shape, GoShape
  <2> QED BY <1>1, <2>1, <2>2, Names DEF Orderly, OnePlace, Undecided, Free
<1>3. /\ pc'[g] \in {"read", "rank", "end"}
      /\ \A h \in Goroutines \ {g} : pc'[h] = pc[h] /\ items'[h] = items[h]
      /\ \A q \in Procs \ {p} : batch'[q] = batch[q] /\ timer'[q] = timer[q]
  BY <1>1 DEF ReceiveHalted, AddToBatch, FillBatch, Goto, batchVars, Shape, TypeOK
<1>4. /\ \A h \in Goroutines, e \in Events : Claims(h, e)' <=> Claims(h, e)
      /\ \A h \in Goroutines, s \in Tokens : Takes(h, s)' <=> Takes(h, s) /\ s # t
      /\ \A s \in Tokens : Free(s)' <=> Free(s)
  <2>1. \A s \in Tokens : Takes(g, s) => s = t BY <1>1, Names DEF Takes
  <2> QED BY <1>1, <1>2, <1>3, <2>1 DEF Claims, Takes, Free
<1>5. /\ \A h \in Goroutines \ {g}, s \in Tokens : In(h, s)' <=> In(h, s)
      /\ \A h \in Goroutines \ {g} : Distinct(h)' <=> Distinct(h)
      /\ \A s \in Tokens : ~In(g, s)
  BY <1>1, <1>3 DEF In, Distinct
\* Who is in the flush of g afterwards, and who in the batch of p.
<1>6. /\ \A s \in Tokens : In(g, s)' => s = t \/ Holds(p, s)
      /\ \A s \in Tokens : Holds(p, s)' => s = t \/ Holds(p, s)
      /\ \A s \in Tokens : In(g, s)' => ~Holds(p, s)'
      /\ \A s \in Tokens : s = t \/ Holds(p, s) => In(g, s)' \/ Holds(p, s)'
      /\ Distinct(g)'
      /\ batch'[p] # <<>> => timer'[p] # NoToken
  <2>1. batch[p] \in Batches /\ (batch[p] # <<>> => timer[p] # NoToken)
    BY DEF Orderly, Local, Shape, TypeOK
  <2>2. CASE ReceiveHalted(p)
    <3>1. items'[g] = <<t>> /\ batch' = batch /\ timer' = timer
      BY <1>1, <2>2 DEF ReceiveHalted, batchVars, Shape, TypeOK
    <3>2. DOMAIN <<t>> = {1} /\ <<t>>[1] = t OBVIOUS
    <3>3. \A s \in Tokens : In(g, s)' <=> s = t BY <3>1, <3>2 DEF In
    <3>4. \A s \in Tokens : Holds(p, s)' <=> Holds(p, s) BY <3>1 DEF Holds
    <3>5. Distinct(g)' BY <3>1, <3>2 DEF Distinct
    <3> QED BY <1>1, <1>2, <2>1, <3>1, <3>3, <3>4, <3>5
  <2>3. CASE AddToBatch(p)
    <3>1. /\ batch[p] = <<>> /\ batch'[p] = <<t>> /\ timer'[p] = t /\ items'[g] = <<>>
      BY <1>1, <2>3 DEF AddToBatch, Shape, TypeOK
    <3>2. \A s \in Tokens : <<s>> # <<>> /\ (<<t>> = <<s>> <=> s = t) OBVIOUS
    <3>3. \A s \in Tokens : ~In(g, s)' BY <3>1 DEF In
    <3>4. \A s \in Tokens : (Holds(p, s)' <=> s = t) /\ ~Holds(p, s) BY <3>1, <3>2 DEF Holds
    <3>5. Distinct(g)' BY <3>1 DEF Distinct
    <3> QED BY <1>1, <3>1, <3>3, <3>4, <3>5, Constants
  <2>4. CASE FillBatch(p)
    <3>1. PICK s \in Tokens : batch[p] = <<s>> /\ Append(batch[p], t) = <<s, t>>
      BY <1>1, <2>1, <2>4, BatchFacts DEF FillBatch
    <3>2. items'[g] = <<s, t>> /\ batch'[p] = <<>>
      BY <1>1, <2>4, <3>1 DEF FillBatch, Shape, TypeOK
    <3>3. DOMAIN <<s, t>> = {1, 2} /\ <<s, t>>[1] = s /\ <<s, t>>[2] = t OBVIOUS
    <3>4. \A x \in Tokens : <<x>> # <<>> /\ (<<s>> = <<x>> <=> x = s) OBVIOUS
    <3>5. \A x \in Tokens : In(g, x)' <=> x = s \/ x = t BY <3>2, <3>3 DEF In
    <3>6. \A x \in Tokens : ~Holds(p, x)' /\ (Holds(p, x) <=> x = s) BY <3>1, <3>2, <3>4 DEF Holds
    <3>7. Distinct(g)' BY <1>1, <1>2, <3>2, <3>3, <3>6 DEF Distinct
    <3> QED BY <3>2, <3>5, <3>6, <3>7
  <2> QED BY <2>2, <2>3, <2>4
<1>7. \A q \in Procs \ {p}, s \in Tokens : Holds(q, s)' <=> Holds(q, s)
  BY <1>3 DEF Holds
<1>8. OnePlace'
  <2>1. \A h, k \in Goroutines, s \in Tokens : In(h, s)' /\ In(k, s)' => h = k
    BY <1>2, <1>5, <1>6 DEF Orderly, OnePlace
  <2>2. \A h \in Goroutines : Distinct(h)'
    BY <1>5, <1>6 DEF Orderly, OnePlace
  <2>3. \A q, r \in Procs, s \in Tokens : Holds(q, s)' /\ Holds(r, s)' => q = r
    BY <1>2, <1>6, <1>7 DEF Orderly, OnePlace
  <2>4. \A h \in Goroutines, q \in Procs, s \in Tokens : In(h, s)' => ~Holds(q, s)'
    BY <1>2, <1>5, <1>6, <1>7 DEF Orderly, OnePlace
  <2>5. \A h, k \in Goroutines, s \in Tokens : Takes(h, s)' => ~In(k, s)'
    BY <1>4, <1>5, <1>6 DEF Orderly, OnePlace
  <2>6. \A h \in Goroutines, q \in Procs, s \in Tokens : Takes(h, s)' => ~Holds(q, s)'
    BY <1>4, <1>6, <1>7 DEF Orderly, OnePlace
  <2>7. /\ \A h \in Goroutines, s \in Tokens : Free(s)' => ~In(h, s)'
        /\ \A q \in Procs, s \in Tokens : Free(s)' => ~Holds(q, s)'
    BY <1>2, <1>4, <1>5, <1>6, <1>7 DEF Orderly, OnePlace
  <2> QED BY <1>1, <1>4, <2>1, <2>2, <2>3, <2>4, <2>5, <2>6, <2>7 DEF Orderly, OnePlace
<1>9. Undecided'
  <2>1. ASSUME NEW h \in Goroutines, NEW s \in Tokens, ToDecide(h, s)'
        PROVE  life'[s].state = "VALIDATED"
    <3>1. CASE h = g
      <4>1. s = t \/ Holds(p, s) BY <1>6, <2>1, <3>1 DEF ToDecide
      <4> QED BY <1>1, <1>2, <4>1 DEF Orderly, Undecided
    <3>2. CASE h # g
      <4>1. ToDecide(h, s) BY <1>3, <1>5, <2>1, <3>2 DEF ToDecide
      <4> QED BY <1>1, <4>1 DEF Orderly, Undecided
    <3> QED BY <3>1, <3>2
  <2>2. ASSUME NEW q \in Procs, NEW s \in Tokens, Holds(q, s)' PROVE life'[s].state = "VALIDATED"
    BY <1>1, <1>2, <1>6, <1>7, <2>2 DEF Orderly, Undecided
  <2> QED BY <1>1, <1>4, <2>1, <2>2 DEF Orderly, Undecided
<1>10. Local'
  BY <1>1, <1>3, <1>6, Names DEF Orderly, Local, InFlushPC
<1>11. Covered'
  <2>1. \A s \in Tokens, h \in Goroutines : In(h, s) => In(h, s)' BY <1>5
  <2>2. \A s \in Tokens, q \in Procs : Holds(q, s) => Holds(q, s)' \/ In(g, s)'
    BY <1>6, <1>7
  <2>3. ASSUME NEW s \in Tokens, life'[s].state = "VALIDATED"
        PROVE  \/ Free(s)' \/ \E q \in Procs : Holds(q, s)'
               \/ \E h \in Goroutines : Takes(h, s)' \/ In(h, s)'
    <3>1. \/ Free(s) \/ \E q \in Procs : Holds(q, s)
          \/ \E h \in Goroutines : Takes(h, s) \/ In(h, s)
      BY <1>1, <2>3 DEF Orderly, Covered
    <3> QED BY <1>1, <1>4, <1>6, <2>1, <2>2, <3>1
  <2>4. ASSUME NEW s \in Tokens, life'[s].state = "SELECTED", Selected(s) \notin posted'
        PROVE  \E h \in Goroutines : In(h, s)' \/ out'[h] = Selected(s)
    BY <1>1, <2>1, <2>4 DEF Orderly, Covered
  <2> QED BY <2>3, <2>4 DEF Covered
<1> QED BY <1>8, <1>9, <1>10, <1>11 DEF Orderly

\* The function of the timer takes what is in the batch.
LEMMA OrderlyTimer ==
  ASSUME Shape, Orderly, NEW p \in Procs, TimerFires(p)
  PROVE  Orderly'
<1> DEFINE g == <<p, "timer">>
<1>1. /\ g \in Goroutines /\ Role(g) = "timer" /\ pc[g] = "idle" /\ items[g] = <<>> /\ out[g] = NoEvent
      /\ UNCHANGED <<life, posted, settled, out, seen>>
      /\ batch'[p] = <<>> /\ \A q \in Procs \ {p} : batch'[q] = batch[q] /\ timer'[q] = timer[q]
  BY GoroutineFacts DEF TimerFires, busVars, Shape, TypeOK, GoShape, InFlushPC
<1>2. /\ \A h \in Goroutines \ {g} : pc'[h] = pc[h] /\ items'[h] = items[h] /\ job'[h] = job[h]
      /\ items'[g] = batch[p] /\ pc'[g] # "receive"
      /\ pc'[g] = "idle" => job'[g] = NoEvent
      /\ pc'[g] # "cas"
  <2>1. PICK x \in Tokens : TRUE /\ IF batch[p] = <<>>
           THEN UNCHANGED <<pc, job, items>>
           ELSE /\ items' = [items EXCEPT ![g] = batch[p]]
                /\ job' = [job EXCEPT ![g] = Validated(x)]
                /\ Goto(g, "rank")
    BY DEF TimerFires, Shape, TypeOK
  <2>2. CASE batch[p] = <<>> BY <1>1, <2>1, <2>2 DEF Orderly, Local
  <2>3. CASE batch[p] # <<>> BY <1>1, <2>1, <2>3 DEF Shape, TypeOK, Goto
  <2> QED BY <2>2, <2>3
<1>3. /\ \A h \in Goroutines, e \in Events : Claims(h, e)' <=> Claims(h, e)
      /\ \A h \in Goroutines, s \in Tokens : Takes(h, s)' <=> Takes(h, s)
  BY <1>1, <1>2 DEF Claims, Takes
<1>4. \A s \in Tokens : Free(s)' <=> Free(s)
  BY <1>1, <1>3, Names DEF Free
<1>5. /\ \A h \in Goroutines \ {g}, s \in Tokens : In(h, s)' <=> In(h, s)
      /\ \A h \in Goroutines \ {g} : Distinct(h)' <=> Distinct(h)
      /\ \A s \in Tokens : ~In(g, s)
  BY <1>1, <1>2 DEF In, Distinct
<1>6. Distinct(g)' /\ \A s \in Tokens : In(g, s)' <=> Holds(p, s)
  <2>1. batch[p] \in Batches BY DEF Shape, TypeOK
  <2>2. CASE batch[p] = <<>>
    <3>1. \A s \in Tokens : <<s>> # <<>> OBVIOUS
    <3> QED BY <1>2, <2>2, <3>1 DEF In, Distinct, Holds
  <2>3. CASE batch[p] # <<>>
    <3>1. PICK s \in Tokens : batch[p] = <<s>> BY <2>1, <2>3 DEF Batches
    <3>2. DOMAIN <<s>> = {1} /\ <<s>>[1] = s /\ \A x \in Tokens : <<s>> = <<x>> <=> x = s OBVIOUS
    <3> QED BY <1>2, <3>1, <3>2 DEF In, Distinct, Holds
  <2> QED BY <2>2, <2>3
<1>7. /\ \A q \in Procs \ {p}, s \in Tokens : Holds(q, s)' <=> Holds(q, s)
      /\ \A s \in Tokens : ~Holds(p, s)'
  <2>1. \A s \in Tokens : <<s>> # <<>> OBVIOUS
  <2> QED BY <1>1, <2>1 DEF Holds
<1>8. OnePlace'
  <2>1. \A h, k \in Goroutines, s \in Tokens : In(h, s)' /\ In(k, s)' => h = k
    BY <1>5, <1>6 DEF Orderly, OnePlace
  <2>2. \A h \in Goroutines : Distinct(h)'
    BY <1>5, <1>6 DEF Orderly, OnePlace
  <2>3. \A q, r \in Procs, s \in Tokens : Holds(q, s)' /\ Holds(r, s)' => q = r
    BY <1>7 DEF Orderly, OnePlace
  <2>4. \A h \in Goroutines, q \in Procs, s \in Tokens : In(h, s)' => ~Holds(q, s)'
    BY <1>5, <1>6, <1>7 DEF Orderly, OnePlace
  <2>5. \A h, k \in Goroutines, s \in Tokens : Takes(h, s)' => ~In(k, s)'
    BY <1>3, <1>5, <1>6 DEF Orderly, OnePlace
  <2>6. \A h \in Goroutines, q \in Procs, s \in Tokens : Takes(h, s)' => ~Holds(q, s)'
    BY <1>3, <1>7 DEF Orderly, OnePlace
  <2>7. /\ \A h \in Goroutines, s \in Tokens : Free(s)' => ~In(h, s)'
        /\ \A q \in Procs, s \in Tokens : Free(s)' => ~Holds(q, s)'
    BY <1>4, <1>5, <1>6, <1>7 DEF Orderly, OnePlace
  <2> QED BY <1>1, <1>3, <2>1, <2>2, <2>3, <2>4, <2>5, <2>6, <2>7 DEF Orderly, OnePlace
<1>9. Undecided'
  <2>1. ASSUME NEW h \in Goroutines, NEW s \in Tokens, ToDecide(h, s)'
        PROVE  life'[s].state = "VALIDATED"
    <3>1. CASE h = g
      BY <1>1, <1>6, <2>1, <3>1 DEF Orderly, Undecided, ToDecide
    <3>2. CASE h # g
      <4>1. ToDecide(h, s) BY <1>2, <1>5, <2>1, <3>2 DEF ToDecide
      <4> QED BY <1>1, <4>1 DEF Orderly, Undecided
    <3> QED BY <3>1, <3>2
  <2> QED BY <1>1, <1>3, <1>4, <1>7, <2>1 DEF Orderly, Undecided
<1>10. Local'
  BY <1>1, <1>2, Names DEF Orderly, Local, InFlushPC
<1>11. Covered'
  <2>1. \A s \in Tokens, h \in Goroutines : In(h, s) => In(h, s)' BY <1>5
  <2>2. \A s \in Tokens, q \in Procs : Holds(q, s) => Holds(q, s)' \/ In(g, s)'
    BY <1>6, <1>7
  <2> QED BY <1>1, <1>3, <1>4, <2>1, <2>2 DEF Orderly, Covered
<1> QED BY <1>8, <1>9, <1>10, <1>11 DEF Orderly

\* Exclusive holds when every token is on the bus and nowhere else, ...
LEMMA ExclusiveInit == Init => Exclusive
<1>1. SUFFICES ASSUME Init PROVE Orderly
  BY DEF Exclusive
<1>2. /\ \A g \in Goroutines, t \in Tokens : ~In(g, t) /\ ~Takes(g, t)
      /\ \A g \in Goroutines : Distinct(g)
      /\ \A g \in Goroutines, e \in Events : ~Claims(g, e)
  BY <1>1, Names DEF Init, In, Takes, Distinct, Claims
<1>3. \A p \in Procs, t \in Tokens : ~Holds(p, t)
  <2>1. \A t \in Tokens : <<t>> # <<>> OBVIOUS
  <2> QED BY <1>1, <2>1 DEF Init, Holds
<1>4. \A t \in Tokens : Free(t) <=> life[t].state = "VALIDATED"
  BY <1>1, <1>2, FirstRows, RejectedTypes, RowTypes, Names DEF Free
<1>5. OnePlace BY <1>2, <1>3 DEF OnePlace
<1>6. Undecided BY <1>2, <1>3, <1>4 DEF Undecided, ToDecide
<1>7. Local BY <1>1 DEF Init, Local, InFlushPC
<1>8. Covered
  <2>1. \A t \in Tokens : life[t].state # "SELECTED"
    BY <1>1, FirstRows, RejectedTypes, RowTypes
  <2> QED BY <1>4, <2>1 DEF Covered
<1> QED BY <1>5, <1>6, <1>7, <1>8 DEF Orderly

\* ... and every step keeps it: those that count as a fault end its promise.
LEMMA ExclusiveNext == Shape /\ Exclusive /\ [Next]_vars => Exclusive'
<1>1. SUFFICES ASSUME Shape, Exclusive, [Next]_vars, faults' = 0 PROVE Orderly'
  BY DEF Exclusive
<1>2. faults \in Nat
  BY <1>1, Constants DEF Shape, TypeOK
<1>3. CASE UNCHANGED vars
  <2>1. UNCHANGED <<life, posted, settled, batch, timer, late, pc, job, out, items, seen, faults>>
    BY <1>3 DEF vars, busVars, batchVars, goVars, flushVars
  <2>2. Orderly BY <1>1, <2>1 DEF Exclusive
  <2>3. OnePlace' BY <2>1, <2>2, SamePlaces DEF Orderly, OnePlace
  <2>4. Undecided' BY <2>1, <2>2, SamePlaces DEF Orderly, Undecided, ToDecide
  <2>5. Local' BY <2>1, <2>2 DEF Orderly, Local, InFlushPC
  <2>6. Covered' BY <2>1, <2>2, SamePlaces DEF Orderly, Covered
  <2> QED BY <2>3, <2>4, <2>5, <2>6 DEF Orderly
<1>4. ASSUME NEW g \in Goroutines, Deliver(g)
      PROVE  Orderly'
  <2>1. UNCHANGED faults BY <1>1, <1>2, <1>4 DEF Deliver
  <2> QED BY <1>1, <1>4, <2>1, OrderlyDeliver DEF Exclusive
<1>5. ASSUME NEW g \in Goroutines, FlushStep(g)
      PROVE  Orderly'
  <2>1. UNCHANGED faults
    BY <1>1, <1>2, <1>5 DEF FlushStep, ProcessBatch, ReadLifecycle, TransitionState,
                           InsertSelected, InsertOutput, EndRound
  <2> QED BY <1>1, <1>5, <2>1, OrderlyRank, OrderlyCas, OrderlyInsert, OrderlyOutput, OrderlyEnd
          DEF Exclusive, FlushStep
<1>6. ASSUME NEW g \in Goroutines, StatementFails(g)
      PROVE  Orderly'
  BY <1>1, <1>2, <1>6 DEF StatementFails
<1>7. ASSUME NEW p \in Procs, Worker(p)
      PROVE  Orderly'
  <2>1. UNCHANGED faults
    BY <1>7 DEF Worker, ReceiveHalted, AddToBatch, FillBatch, TimerFires, Allocate
  <2> QED BY <1>1, <1>7, <2>1, OrderlyReceive, OrderlyTimer, OrderlyAllocate DEF Exclusive, Worker
<1>8. ASSUME NEW p \in Procs, Crash(p)
      PROVE  Orderly'
  BY <1>1, <1>2, <1>8 DEF Crash
<1>9. ASSUME NEW t \in Tokens, Traded(t)
      PROVE  Orderly'
  <2>1. UNCHANGED faults BY <1>9 DEF Traded
  <2> QED BY <1>1, <1>9, <2>1, OrderlyTraded DEF Exclusive
<1> QED BY <1>1, <1>3, <1>4, <1>5, <1>6, <1>7, <1>8, <1>9, NextParts

\* Although an event is marked before its token has a verdict, no token is
\* forgotten as long as nothing fails, for any number of tokens and processes.
THEOREM NothingLost == Spec => []NothingForgotten
<1>1. Shape /\ Exclusive => NothingForgotten
  <2>1. SUFFICES ASSUME Shape, Orderly, NEW t \in Tokens
                 PROVE  /\ life[t].state = "VALIDATED" /\ Validated(t) \in settled =>
                             Waiting(t) \/ InFlush(t)
                        /\ life[t].state = "SELECTED" /\ Selected(t) \notin posted =>
                             InFlush(t) \/ \E g \in Goroutines : out[g] = Selected(t)
    BY DEF Exclusive, NothingForgotten
  <2>2. Free(t) \/ (\E g \in Goroutines : Takes(g, t)) => Validated(t) \notin settled
    <3>1. ASSUME NEW g \in Goroutines, Takes(g, t) PROVE Claims(g, Validated(t))
      BY <2>1, <3>1 DEF Takes, Claims, Shape, GoShape
    <3> QED BY <2>1, <3>1, Names DEF Free, Orderly, OnePlace
  <2>3. ASSUME NEW g \in Goroutines PROVE In(g, t) => InFlush(t)
    BY DEF In, InFlush
  <2>4. ASSUME NEW p \in Procs PROVE Holds(p, t) => Waiting(t)
    <3>1. <<t>> # <<>> OBVIOUS
    <3> QED BY <2>1, <3>1 DEF Orderly, Local, Holds, Waiting
  <2> QED BY <2>1, <2>2, <2>3, <2>4 DEF Orderly, Covered
<1> QED BY <1>1, ShapeInit, ShapeNext, ExclusiveInit, ExclusiveNext, PTL DEF Spec
==============================================================================
