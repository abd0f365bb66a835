----------------------------- MODULE SystemControl -----------------------------
(***************************************************************************)
(* Who decides whether the bot may trade: the risk controller, which moves *)
(* the operational mode with the drawdown and with its appetite            *)
(* (sniper-bot/internal/workers/run_risk_controller.go,                    *)
(* internal/resource_control/halt.go), the operator's commands             *)
(* (internal/operator/commands.go), and the pre-check of the execution     *)
(* stage, over the singleton row system_state.                             *)
(*                                                                         *)
(* system_state is written by compare-and-set on state_version.  An        *)
(* operator command passes the version it has just read; the controller    *)
(* passes the version of its own last write, which it keeps in memory and  *)
(* which is 0 when its process starts.                                     *)
(*                                                                         *)
(* The drawdown is one of four bands cut by the thresholds resume,         *)
(* degraded and halt; the appetite metrics are left open.                  *)
(***************************************************************************)
EXTENDS Naturals

CONSTANTS
  Controllers,   \* goroutines that run RunRiskController, over all processes
  Operators,     \* sources of commands: "manual_telegram", "manual_dashboard"
  Requests,      \* modes the operators ask for
  Executors,     \* goroutines that run the execution stage
  MaxDrifts,     \* bound: changes of the drawdown band
  MaxWindows,    \* bound: adaptive windows that begin
  MaxCommands,   \* bound: operator commands
  MaxControlFaults      \* bound: failed statements and restarts

ASSUME ControlAssumption ==
  /\ Operators \subseteq {"manual_telegram", "manual_dashboard"}
  /\ Requests \subseteq {"STRICT", "BALANCED", "EXPLORATION", "VERY_EXPLORATION"}
  /\ Controllers \intersect Operators = {}
  /\ MaxDrifts \in Nat /\ MaxWindows \in Nat /\ MaxCommands \in Nat /\ MaxControlFaults \in Nat

VARIABLES
  row,        \* system_state: mode, last_transition_reason, state_version, window of updated_at
  drawdown,   \* the band ComputeDrawdown falls in
  window,     \* the adaptive window the clock is in
  step,         \* the statement each writer of system_state is at
  seen,       \* the row it has read
  target,     \* the mode it is about to write
  version,    \* stateVersion of a controller
  last,       \* adaptiveLast of a controller: the window it has moved in
  now,        \* the window of the tick under way
  gate,       \* executors that have passed the pre-check and not submitted yet
  drifts, commands, controlFaults,   \* bounded counters
  moves,      \* history: adaptive transitions per window
  late        \* history: submissions of each executor since the mode became HALTED

world    == <<drawdown, window>>
tick     == <<step, seen, target>>
memory   == <<version, last, now>>
counters == <<drifts, commands, controlFaults>>
controlVars == <<row, world, tick, memory, gate, counters, moves, late>>

Writers == Controllers \union Operators

AdaptiveModes == {"STRICT", "BALANCED", "EXPLORATION", "VERY_EXPLORATION"}
Modes   == AdaptiveModes \union {"DEGRADED", "HALTED"}
Reasons == {"", "drawdown", "adaptive"} \union Operators
Bands   == {"low", "mid", "degraded", "halt"}
Windows == 0..MaxWindows
Rows    == [mode : Modes, reason : Reasons, version : Nat, window : Windows]

\* The row the migration inserts.
InitialRow == [mode |-> "BALANCED", reason |-> "", version |-> 0, window |-> 0]

\* adaptiveLast of a controller that has just started.
NoWindow == MaxWindows + 1

ControlTypeOK ==
  /\ row \in Rows
  /\ drawdown \in Bands
  /\ window \in Windows
  /\ step \in [Writers -> {"idle", "check", "safety", "adaptive", "appetite", "read", "write"}]
  /\ seen \in [Writers -> Rows]
  /\ target \in [Writers -> Modes]
  /\ version \in [Controllers -> Nat]
  /\ last \in [Controllers -> Windows \union {NoWindow}]
  /\ now \in [Controllers -> Windows]
  /\ gate \subseteq Executors
  /\ drifts \in 0..MaxDrifts /\ commands \in 0..MaxCommands /\ controlFaults \in 0..MaxControlFaults
  /\ moves \in [Windows -> Nat]
  /\ late \in [Executors -> Nat]

ControlInit ==
  /\ row = InitialRow
  /\ drawdown = "low"
  /\ window = 0
  /\ step = [p \in Writers |-> "idle"]
  /\ seen = [p \in Writers |-> InitialRow]
  /\ target = [p \in Writers |-> "BALANCED"]
  /\ version = [c \in Controllers |-> 0]
  /\ last = [c \in Controllers |-> NoWindow]
  /\ now = [c \in Controllers |-> 0]
  /\ gate = {}
  /\ drifts = 0 /\ commands = 0 /\ controlFaults = 0
  /\ moves = [x \in Windows |-> 0]
  /\ late = [w \in Executors |-> 0]

\* Writer p is at statement s with row r read and mode m to write.
At(p, s, r, m) ==
  /\ step' = [step EXCEPT ![p] = s]
  /\ seen' = [seen EXCEPT ![p] = r]
  /\ target' = [target EXCEPT ![p] = m]

\* The tick or the command is over: what was local to it is gone.
Ends(p) == At(p, "idle", InitialRow, "BALANCED")

-------------------------------------------------------------------------------
(* system_state. *)

\* What a successful UpsertSystemState leaves.  (Every write starts a new count
\* of late submissions.)
Write(mode, reason) ==
  /\ row' = [mode |-> mode, reason |-> reason, version |-> row.version + 1, window |-> window]
  /\ late' = [w \in Executors |-> 0]

\* UpsertSystemState: UPDATE ... WHERE state_version = $10; no row: ErrStaleState.
UpsertSystemState(expected, mode, reason) ==
  expected = row.version /\ Write(mode, reason)

Stale(expected) ==
  /\ expected # row.version
  /\ UNCHANGED <<row, late>>

-------------------------------------------------------------------------------
(* The safety pass of the controller. *)

\* EvaluateMode.
EvaluateMode(mode, band) ==
  CASE band = "halt"     -> "HALTED"
    [] band = "degraded" -> "DEGRADED"
    [] band = "low"      -> IF mode \in {"HALTED", "DEGRADED"} THEN "BALANCED" ELSE mode
    [] band = "mid"      -> mode

\* The tick: GetSystemState. (The row is never without a mode: the cold start
\* of runRiskCheck has no row to start from.)
Check(c) ==
  /\ step[c] = "idle"
  /\ At(c, "check", row, target[c])
  /\ UNCHANGED <<row, world, memory, gate, counters, moves, late>>

\* The appetite pass begins, with the time it is now.
GoesOn(c) ==
  /\ At(c, "adaptive", InitialRow, "BALANCED")
  /\ now' = [now EXCEPT ![c] = window]

\* ComputeDrawdown and EvaluateMode: is a transition needed?
Decide(c) ==
  LET mode == EvaluateMode(seen[c].mode, drawdown)
  IN /\ step[c] = "check"
     /\ \/ mode # seen[c].mode /\ At(c, "safety", seen[c], mode) /\ UNCHANGED now
        \/ mode = seen[c].mode /\ GoesOn(c)
     /\ UNCHANGED <<row, world, version, last, gate, counters, moves, late>>

\* UpsertSystemState with the version of the controller's own last write. On
\* ErrStaleState the tick ends and the version stays what it is.
WriteSafety(c) ==
  /\ step[c] = "safety"
  /\ \/ /\ UpsertSystemState(version[c], target[c], "drawdown")
        /\ version' = [version EXCEPT ![c] = row.version + 1]
        /\ GoesOn(c)
     \/ Stale(version[c]) /\ Ends(c) /\ UNCHANGED <<version, now>>
  /\ UNCHANGED <<world, last, gate, counters, moves>>

-------------------------------------------------------------------------------
(* The appetite pass of the controller. *)

\* nextDowngrade and nextUpgrade: the neighbours, none at the ends.
Downgrade(mode) ==
  CASE mode = "VERY_EXPLORATION" -> {"EXPLORATION"}
    [] mode = "EXPLORATION"      -> {"BALANCED"}
    [] mode = "BALANCED"         -> {"STRICT"}
    [] OTHER                     -> {}

Upgrade(mode) ==
  CASE mode = "STRICT"      -> {"BALANCED"}
    [] mode = "BALANCED"    -> {"EXPLORATION"}
    [] mode = "EXPLORATION" -> {"VERY_EXPLORATION"}
    [] OTHER                -> {}

\* The conditions under which runAdaptiveRiskAppetite leaves the mode alone.
LeavesAlone(c) ==
  \/ row.mode \in {"DEGRADED", "HALTED"}
  \/ row.reason = "manual_telegram" /\ row.window = now[c]
  \/ last[c] = now[c]

\* GetSystemState again, and the decision: rugs tighten, starvation loosens.
Appetite(c) ==
  /\ step[c] = "adaptive"
  /\ \/ Ends(c)
     \/ /\ ~LeavesAlone(c)
        /\ \E mode \in Downgrade(row.mode) \union Upgrade(row.mode) : At(c, "appetite", row, mode)
  /\ UNCHANGED <<row, world, memory, gate, counters, moves, late>>

\* Slip: the version is resynchronised with the row that was read, and nothing
\* else: the fingerprint of a dashboard command is still not looked for.
WriteAppetiteResynced(c) ==
  /\ step[c] = "appetite"
  /\ \/ /\ UpsertSystemState(seen[c].version, target[c], "adaptive")
        /\ version' = [version EXCEPT ![c] = row.version + 1]
        /\ last' = [last EXCEPT ![c] = now[c]]
        /\ moves' = [moves EXCEPT ![now[c]] = @ + 1]
     \/ Stale(seen[c].version) /\ UNCHANGED <<version, last, moves>>
  /\ Ends(c)
  /\ UNCHANGED <<world, now, gate, counters>>

\* Slip: the window of the transition is not remembered.
WriteAppetiteForgets(c) ==
  /\ step[c] = "appetite"
  /\ \/ /\ UpsertSystemState(version[c], target[c], "adaptive")
        /\ version' = [version EXCEPT ![c] = row.version + 1]
        /\ UNCHANGED last
        /\ moves' = [moves EXCEPT ![now[c]] = @ + 1]
     \/ Stale(version[c]) /\ UNCHANGED <<version, last, moves>>
  /\ Ends(c)
  /\ UNCHANGED <<world, now, gate, counters>>

\* applyAdaptiveTransition: with the version of the controller's own last write,
\* at most one transition in a window.
WriteAppetite(c) ==
  /\ step[c] = "appetite"
  /\ \/ /\ UpsertSystemState(version[c], target[c], "adaptive")
        /\ version' = [version EXCEPT ![c] = row.version + 1]
        /\ last' = [last EXCEPT ![c] = now[c]]
        /\ moves' = [moves EXCEPT ![now[c]] = @ + 1]
     \/ Stale(version[c]) /\ UNCHANGED <<version, last, moves>>
  /\ Ends(c)
  /\ UNCHANGED <<world, now, gate, counters>>

-------------------------------------------------------------------------------
(* The operator. *)

\* A /mode command arrives at a source that is not busy with one.
Command(o) ==
  /\ step[o] = "idle"
  /\ commands < MaxCommands
  /\ commands' = commands + 1
  /\ \E mode \in Requests : At(o, "read", InitialRow, mode)
  /\ UNCHANGED <<row, world, memory, gate, drifts, controlFaults, moves, late>>

ReadMode(o) ==
  /\ step[o] = "read"
  /\ At(o, "write", row, target[o])
  /\ UNCHANGED <<row, world, memory, gate, counters, moves, late>>

\* ExecuteMode: on ErrStaleState Telegram answers with the error, the worker of
\* the dashboard's commands releases its claim and runs the command again.
WriteMode(o) ==
  /\ step[o] = "write"
  /\ \/ UpsertSystemState(seen[o].version, target[o], o) /\ Ends(o)
     \/ Stale(seen[o].version) /\ o = "manual_dashboard" /\ At(o, "read", InitialRow, target[o])
     \/ Stale(seen[o].version) /\ o = "manual_telegram" /\ Ends(o)
  /\ UNCHANGED <<world, memory, gate, counters, moves>>

-------------------------------------------------------------------------------
(* The execution stage. *)

\* The pre-check lets an allocation through unless the mode it reads is HALTED.
\* (The other switch, system_halt, is not read here: it is in Console.)
PassGate(w) ==
  /\ w \notin gate
  /\ row.mode # "HALTED"
  /\ gate' = gate \union {w}
  /\ UNCHANGED <<row, world, tick, memory, counters, moves, late>>

\* A GetSystemState that fails lets the allocation through, too.
PassGateUnread(w) ==
  /\ w \notin gate
  /\ controlFaults < MaxControlFaults
  /\ controlFaults' = controlFaults + 1
  /\ gate' = gate \union {w}
  /\ UNCHANGED <<row, world, tick, memory, drifts, commands, moves, late>>

\* Slip: the allocations that have been submitted stay let through.
SubmitAgain(w) ==
  /\ w \in gate
  /\ late' = [late EXCEPT ![w] = IF row.mode = "HALTED" THEN @ + 1 ELSE @]
  /\ late[w] < 5
  /\ UNCHANGED <<row, world, tick, memory, gate, counters, moves>>

\* The executor runs on the allocation that was let through.
Submit(w) ==
  /\ w \in gate
  /\ gate' = gate \ {w}
  /\ late' = [late EXCEPT ![w] = IF row.mode = "HALTED" THEN @ + 1 ELSE @]
  /\ UNCHANGED <<row, world, tick, memory, counters, moves>>

-------------------------------------------------------------------------------
(* The environment. *)

\* Profits and losses change the drawdown of the window.
Drift ==
  /\ drifts < MaxDrifts
  /\ drifts' = drifts + 1
  /\ drawdown' \in Bands \ {drawdown}
  /\ UNCHANGED <<row, window, tick, memory, gate, commands, controlFaults, moves, late>>

\* A new adaptive window begins.
NextWindow ==
  /\ window < MaxWindows
  /\ window' = window + 1
  /\ UNCHANGED <<row, drawdown, tick, memory, gate, counters, moves, late>>

\* A statement of the controller fails: the tick ends.
TickFails(c) ==
  /\ step[c] # "idle"
  /\ controlFaults < MaxControlFaults
  /\ controlFaults' = controlFaults + 1
  /\ Ends(c)
  /\ UNCHANGED <<row, world, memory, gate, drifts, commands, moves, late>>

\* A write of the controller is committed and its answer is lost: the tick ends
\* without the new version.
WriteUnanswered(c) ==
  /\ controlFaults < MaxControlFaults
  /\ controlFaults' = controlFaults + 1
  /\ \/ /\ step[c] = "safety"
        /\ UpsertSystemState(version[c], target[c], "drawdown")
        /\ UNCHANGED moves
     \/ /\ step[c] = "appetite"
        /\ UpsertSystemState(version[c], target[c], "adaptive")
        /\ moves' = [moves EXCEPT ![now[c]] = @ + 1]
  /\ Ends(c)
  /\ UNCHANGED <<world, memory, gate, drifts, commands>>

\* The process of a controller starts again.
Restart(c) ==
  /\ controlFaults < MaxControlFaults
  /\ controlFaults' = controlFaults + 1
  /\ Ends(c)
  /\ version' = [version EXCEPT ![c] = 0]
  /\ last' = [last EXCEPT ![c] = NoWindow]
  /\ UNCHANGED <<row, world, now, gate, drifts, commands, moves, late>>

-------------------------------------------------------------------------------
Tick(c) == Check(c) \/ Decide(c) \/ WriteSafety(c) \/ Appetite(c) \/ WriteAppetite(c)

ControlNext ==
  \/ \E c \in Controllers : Tick(c) \/ TickFails(c) \/ WriteUnanswered(c) \/ Restart(c)
  \/ \E o \in Operators : Command(o) \/ ReadMode(o) \/ WriteMode(o)
  \/ \E w \in Executors : PassGate(w) \/ PassGateUnread(w) \/ Submit(w)
  \/ Drift
  \/ NextWindow

ControlSpec == ControlInit /\ [][ControlNext]_controlVars

\* The ticker of every controller keeps firing and its statements return.
ControlFairSpec == ControlSpec /\ \A c \in Controllers : WF_controlVars(Tick(c))

-------------------------------------------------------------------------------
(* Safety. *)

\* No lost update: whoever writes system_state has decided on the row that it
\* replaces, although the controller compares a version it did not read.
WritersHaveRead ==
  [][row' # row =>
       \E p \in Writers : step[p] \in {"safety", "appetite", "write"} /\ step'[p] # step[p] /\ seen[p] = row]_controlVars

\* The appetite pass never lifts a safety mode: DEGRADED and HALTED are left by
\* the drawdown or by the operator, also when the mode changes between the
\* pass's read and its write.
AppetiteKeepsSafetyModes ==
  [][row.mode \in {"DEGRADED", "HALTED"} /\ row' # row => row'.reason # "adaptive"]_controlVars

\* The operator's choice survives the window it was made in, whichever source
\* it came from (the pass recognises only Telegram's).
OperatorOutlivesWindow ==
  [][row.reason \in Operators /\ row' # row /\ row'.reason = "adaptive" => row.window # window]_controlVars

\* One adaptive transition per window, over all controllers and restarts.
OneMovePerWindow == \A x \in Windows : moves[x] <= 1

\* What slips through a halt: every executor submits at most the allocation it
\* had let through before, and one more for each pre-check that could not read.
LateSubmissionsBounded == \A w \in Executors : late[w] <= 1 + controlFaults

(* Liveness. *)

\* RunRiskController promises that the drawdown moves the mode to HALTED,
\* whatever the operator did before and however often the process restarted.
DrawdownHalts == <>[](drawdown = "halt") => <>(row.mode = "HALTED")
================================================================================
