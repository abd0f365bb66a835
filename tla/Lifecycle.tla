------------------------------ MODULE Lifecycle ------------------------------
(***************************************************************************)
(* The life of a token, as shared/database/engines/postgres/lifecycle.go   *)
(* knows it: the states that occur, the transitions TransitionState lets   *)
(* through, and the compare-and-set it runs on a token_lifecycle row.      *)
(***************************************************************************)
EXTENDS Naturals

\* isValidTransition, as a relation.
ValidTransitions ==
  ({"DETECTED"} \X {"DQ_PASSED", "REJECTED", "DQ_SKIPPED"})
  \union ({"REJECTED"} \X {"DQ_PASSED", "DQ_SKIPPED"})
  \union ({"DQ_SKIPPED"} \X {"DQ_PASSED", "REJECTED"})
  \union ({"DQ_PASSED"} \X {"FEATURE_READY", "REJECTED"})
  \union ({"FEATURE_READY"} \X {"EDGE_DETECTED", "REJECTED"})
  \union ({"EDGE_DETECTED"} \X {"VALIDATED", "REJECTED"})
  \union ({"VALIDATED"} \X {"SELECTED", "REJECTED"})
  \union ({"SELECTED"} \X {"EXECUTED", "FAILED"})
  \union ({"EXECUTED"} \X {"POSITION_OPEN", "FAILED"})
  \union ({"POSITION_OPEN"} \X {"POSITION_CLOSED"})

LifecycleStates ==
  {"DETECTED", "REJECTED", "DQ_SKIPPED", "DQ_PASSED", "FEATURE_READY",
   "EDGE_DETECTED", "VALIDATED", "SELECTED", "EXECUTED", "POSITION_OPEN",
   "POSITION_CLOSED", "FAILED"}

\* A token_lifecycle row: current_state and state_version.
LifecycleRows == [state : LifecycleStates, version : Nat]

\* TransitionState succeeds: the topology allows it, and the row is still the
\* one the caller read.
Transits(row, seen, to) ==
  /\ <<seen.state, to>> \in ValidTransitions
  /\ row = seen

\* The row a successful transition leaves.
Advanced(row, to) == [state |-> to, version |-> row.version + 1]
==============================================================================
