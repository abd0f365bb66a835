--------------------------- MODULE MCSystemControl ---------------------------
(***************************************************************************)
(* Instances of SystemControl for TLC.  Two controllers stand for two bot  *)
(* processes on one database.                                              *)
(***************************************************************************)
EXTENDS SystemControl, TLC

CONSTANTS c1, c2, ex1

\* The two controllers are interchangeable.
MCSymmetry == Permutations({c1, c2})

MCOperators == {"manual_telegram", "manual_dashboard"}
==============================================================================
