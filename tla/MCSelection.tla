----------------------------- MODULE MCSelection -----------------------------
(***************************************************************************)
(* Instances of Selection for TLC: two tokens with faults, or three        *)
(* without, as a late timer finds another batch only when a third token    *)
(* arrives.  What is said of behaviours without a fault is checked in      *)
(* full; once a fault has happened, at most Crew goroutines are at work at *)
(* a time.                                                                 *)
(***************************************************************************)
EXTENDS Selection

CONSTANTS t1, t2, t3, p1, dev, Crew

VARIABLE few  \* the third token was rejected before

mcVars == <<few, vars>>

\* Two tokens of one creator, and one whose creator is not known.
Creators == [t \in Tokens |-> IF t \in {t1, t2} THEN dev ELSE NoCreator]

MCInit ==
  /\ Init
  /\ settled = {} \/ settled = {Validated(t3)}
  /\ few = (settled # {})

\* Three tokens are dealt with by one process, without a fault.
At(p) == few \/ p = p1

MCNext ==
  /\ Next /\ UNCHANGED few
  /\ ~ few => faults' = 0 /\ \A g \in Goroutines : ~ At(g[1]) => pc'[g] = "idle"
  /\ faults' > 0 => Cardinality({g \in Goroutines : pc'[g] # "idle"}) <= Crew

\* Fairness, for the processes that there are. Every property of liveness allows a
\* behaviour with a fault anything, so that the bound hides no counterexample.
MCFairness ==
  \A p \in Procs : WF_vars(At(p) /\ Select(p)) /\ WF_vars(At(p) /\ Timer(p))

MCFairSpec == MCInit /\ [][MCNext]_mcVars /\ MCFairness
==============================================================================
