------------------------------ MODULE MCDecisions ------------------------------
(***************************************************************************)
(* Instances of Decisions for TLC.  Births at the virtual liquidity with   *)
(* all signals known or only the reserves, a graduation whose age nobody   *)
(* has recorded, and a rescan with much activity.                          *)
(***************************************************************************)
EXTENDS Decisions

CONSTANTS x1, x2, p1, p2

\* Raw signals, in tenths (prices in units of their own).
Signal(liquidity, activity, holders, price) ==
  [s \in Signals |-> CASE s = "liquidity" -> liquidity
                       [] s = "holders"   -> holders
                       [] s = "price"     -> price
                       [] OTHER           -> activity]

Birth ==
  [origin |-> "birth", usd |-> 4500, raw |-> Signal(84, 30, 10, 3), age |-> 1,
   flags |-> {"unverified"}, vouched |-> 0]

LargerBirth ==
  [origin |-> "birth", usd |-> 4700, raw |-> Signal(85, Unknown, Unknown, 3), age |-> 1,
   flags |-> {"unverified", "wash", "fakeLiquidity"}, vouched |-> 1]

Graduation ==
  [origin |-> "graduation", usd |-> 30000, raw |-> Signal(103, 60, 34, 5), age |-> 0,
   flags |-> {}, vouched |-> 2]

Rescan ==
  [origin |-> "rescan", usd |-> 9900, raw |-> Signal(92, 20, 20, 2), age |-> 1,
   flags |-> {"tax"}, vouched |-> 1]

MCKinds == {"birth", "larger birth", "graduation", "rescan"}

MCAbout ==
  [k \in MCKinds |-> CASE k = "birth"        -> Birth
                       [] k = "larger birth" -> LargerBirth
                       [] k = "graduation"   -> Graduation
                       [] k = "rescan"       -> Rescan]

\* The tokens before were a birth and a graduation, the second of those that
\* come is one or the other.
DecisionsStart ==
  /\ DecisionsInit
  /\ kind[p1] = "birth"
  /\ kind[p2] = "graduation"
  /\ kind[x2] \in {"birth", "graduation"}

MCHydrated == {<<>>, <<p1, p2, p1>>}
================================================================================
