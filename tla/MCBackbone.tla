------------------------------ MODULE MCBackbone ------------------------------
(***************************************************************************)
(* The event bus, the row system_state, the stages that decide and the     *)
(* operator's console, which share nothing here: a behaviour is a          *)
(* behaviour of one of them, the others stay as they are.                  *)
(***************************************************************************)
EXTENDS MCEventBus, MCSystemControl, MCDecisions, MCConsole

VARIABLE service  \* the one that runs

backboneVars == <<service, vars, controlVars, decisionsVars, consoleVars>>

BackboneInit ==
  /\ service \in {"bus", "control", "decisions", "console"}
  /\ Init /\ ControlInit /\ DecisionsStart /\ ConsoleInit
  /\ service # "decisions" =>
       kind = [t \in Tokens \union Past |-> IF t = p2 THEN "graduation" ELSE "birth"] /\ baseline = <<>>

Runs(name) == service = name /\ UNCHANGED service

BackboneNext ==
  \/ Runs("bus") /\ Next /\ UNCHANGED <<controlVars, decisionsVars, consoleVars>>
  \/ Runs("control") /\ ControlNext /\ UNCHANGED <<vars, decisionsVars, consoleVars>>
  \/ Runs("decisions") /\ DecisionsNext /\ UNCHANGED <<vars, controlVars, consoleVars>>
  \/ Runs("console") /\ ConsoleNext /\ UNCHANGED <<vars, controlVars, decisionsVars>>

BackboneSpec == BackboneInit /\ [][BackboneNext]_backboneVars

\* What does not run keeps its initial values.
BackboneTypeOK ==
  /\ service = "bus" => TypeOK
  /\ service = "control" => ControlTypeOK
  /\ service = "decisions" => DecisionsTypeOK
  /\ service = "console" => ConsoleTypeOK
===============================================================================
