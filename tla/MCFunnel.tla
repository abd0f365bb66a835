------------------------------ MODULE MCFunnel ------------------------------
(***************************************************************************)
(* Instances of Funnel for TLC.  What is said of behaviours without a      *)
(* fault is checked in full; once a fault has happened, at most Crew       *)
(* deliveries are at work at a time.                                       *)
(***************************************************************************)
EXTENDS Funnel

CONSTANT Crew

MCNext == Next /\ (faults' > 0 => Cardinality(Active') <= Crew)

\* The liveness property allows a behaviour with a fault anything, so that the
\* bound hides no counterexample.
MCFairSpec == Init /\ [][MCNext]_vars /\ Fairness
==============================================================================
