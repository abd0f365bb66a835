------------------------------ MODULE MCEventBus ------------------------------
(***************************************************************************)
(* Instances of EventBus for TLC.  The root e1 leads to e2, which leads to *)
(* nothing, or to e4 where there is an e4; the root e3 is a second event   *)
(* of the first stage.  Every worker claims every event: two workers of a  *)
(* stage, as two processes of the bot have, and a listener where the       *)
(* configuration names one.                                                *)
(***************************************************************************)
EXTENDS EventBus

CONSTANTS e1, e2, e3, e4, w1, w2, w3

MCOutputOf == [e \in Events |-> CASE e = e1 -> e2
                                  [] e = e2 /\ e4 \in Events -> e4
                                  [] OTHER -> NoEvent]
MCHandles == [w \in Workers |-> Events \ Refused]
===============================================================================
