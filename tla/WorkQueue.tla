------------------------------ MODULE WorkQueue ------------------------------
(***************************************************************************)
(* What the event bus promises to the stages that use it, with no claims,  *)
(* no timeouts, no workers and no retries: every event is absent, pending, *)
(* done or dead-lettered; an event is added as a root or because of an     *)
(* event that is already there; an event is done only when what it leads   *)
(* to is on the bus, or when its stage decided that it leads to nothing.   *)
(* EventBus implements this module.                                        *)
(***************************************************************************)
CONSTANTS
  Events,      \* event ids (content-addressed, so an event has one id)
  NoEvent,     \* stands for "no output"
  Roots,       \* the events a producer publishes with no cause
  OutputOf     \* the id of the event that a stage derives from its input

VARIABLES
  status,      \* what the bus knows of each event
  waived       \* the events a stage decided to end without an output

wqVars == <<status, waived>>

Init == /\ status = [e \in Events |-> "absent"]
        /\ waived = {}

\* An event enters the bus once, as a root or as the output of its cause.
Add(e) ==
  /\ status[e] = "absent"
  /\ \/ e \in Roots
     \/ \E cause \in Events : OutputOf[cause] = e /\ status[cause] # "absent"
  /\ status' = [status EXCEPT ![e] = "pending"]
  /\ UNCHANGED waived

\* A stage decides that the event leads to nothing.
Waive(e) ==
  /\ status[e] # "absent"
  /\ waived' = waived \union {e}
  /\ UNCHANGED status

\* The event is done: nothing of it is left to do.
Finish(e) ==
  /\ status[e] = "pending"
  /\ \/ e \in waived
     \/ OutputOf[e] # NoEvent /\ status[OutputOf[e]] # "absent"
  /\ status' = [status EXCEPT ![e] = "done"]
  /\ UNCHANGED waived

\* The event is given up. A worker that lost its claim may still give up an
\* event that another worker finished.
Bury(e) ==
  /\ status[e] \in {"pending", "done"}
  /\ status' = [status EXCEPT ![e] = "dead"]
  /\ UNCHANGED waived

\* Only a dead event is ever taken up again.
Reopen(e) ==
  /\ status[e] = "dead"
  /\ status' = [status EXCEPT ![e] = "pending"]
  /\ UNCHANGED waived

Next == \E e \in Events : Add(e) \/ Waive(e) \/ Finish(e) \/ Bury(e) \/ Reopen(e)

Spec == Init /\ [][Next]_wqVars
==============================================================================
