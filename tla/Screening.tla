------------------------------ MODULE Screening ------------------------------
(***************************************************************************)
(* What the stages before selection promise: a token is screened by one    *)
(* run at a time. A run begins with a token that no other run has, takes   *)
(* it through the stages, and ends with a verdict of its own; a second     *)
(* look at the same token is a run that begins later.                      *)
(***************************************************************************)
EXTENDS Lifecycle

CONSTANTS
  Tokens,  \* the tokens
  Runs,    \* the runs that may screen a token
  NoRun    \* nobody screens the token

VARIABLES
  row,     \* the lifecycle row of each token
  holder   \* the run that screens it, or NoRun

\* The states of a token that a run has in its hands.
UnderWay == {"DQ_PASSED", "FEATURE_READY", "EDGE_DETECTED"}

Init ==
  /\ row = [t \in Tokens |-> [state |-> "DETECTED", version |-> 0]]
  /\ holder = [t \in Tokens |-> NoRun]

Moves(t, to) ==
  /\ <<row[t].state, to>> \in ValidTransitions
  /\ row' = [row EXCEPT ![t] = Advanced(@, to)]

\* A run takes a token that nobody has.
Begin(t, r) ==
  /\ holder[t] = NoRun
  /\ Moves(t, "DQ_PASSED")
  /\ holder' = [holder EXCEPT ![t] = r]

\* The run takes its token to the next stage.
Pass(t) ==
  /\ holder[t] # NoRun
  /\ \E to \in UnderWay : Moves(t, to)
  /\ UNCHANGED holder

\* The run ends with its verdict.
Conclude(t) ==
  /\ holder[t] # NoRun
  /\ Moves(t, "REJECTED") \/ Moves(t, "VALIDATED")
  /\ holder' = [holder EXCEPT ![t] = NoRun]

\* A token nobody has is turned away at the first stage, or moves on behind
\* the last one.
Outside(t) ==
  /\ holder[t] = NoRun
  /\ \E to \in LifecycleStates \ UnderWay : Moves(t, to)
  /\ UNCHANGED holder

Next ==
  \E t \in Tokens :
    (\E r \in Runs : Begin(t, r)) \/ Pass(t) \/ Conclude(t) \/ Outside(t)

Spec == Init /\ [][Next]_<<row, holder>>
==============================================================================
