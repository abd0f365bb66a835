-------------------------------- MODULE Console --------------------------------
(***************************************************************************)
(* The operator's two ways to the bot: the Telegram poller                 *)
(* (sniper-bot/internal/telegram/poller.go, sniper-bot/cmd/telegram.go)    *)
(* and the dashboard (backend-dashboard/internal/api/commands), whose      *)
(* commands come over the event bus to the worker of the bot               *)
(* (sniper-bot/internal/workers/run_operator_commands.go).                 *)
(*                                                                         *)
(* Both end in the same functions (internal/operator/commands.go), which   *)
(* set system_halt and close positions.  (The mode they also set is the    *)
(* row of SystemControl; here a mode command only passes.)  A token has    *)
(* one position, and a target names the tokens its prefix matches.  Rows   *)
(* of positions are only added, so a position once listed as open stays    *)
(* listed, whatever closes it.                                             *)
(***************************************************************************)
EXTENDS Naturals, Sequences, FiniteSets

CONSTANTS
  Holdings,          \* tokens the bot may come to hold
  Users,             \* who writes to the bot and to the dashboard
  AllowedUserIDs,    \* of Telegram; {}: not configured
  AllowedOperators,  \* of the dashboard
  Messages,          \* what is sent to the Telegram bot
  Wishes,            \* what is asked of the dashboard
  MaxRequests,       \* bound: messages sent and commands accepted
  MaxChallenges,     \* bound: confirmation tokens issued
  MaxConsoleFaults   \* bound: failed statements, lost answers and restarts

\* The dashboard validates mode and target; Telegram has commands of its own.
DashboardCommands ==
  [type : {"mode", "kill", "resume", "force_close"}, by : Users, target : SUBSET Holdings]

Updates ==
  [chat : {"own", "foreign"}, by : Users, target : SUBSET Holdings,
   type : {"text", "status", "mode", "kill", "resume", "force_close", "enable_trading", "rescan"}]

ASSUME ConsoleAssumption ==
  /\ AllowedUserIDs \subseteq Users /\ AllowedOperators \subseteq Users
  /\ Messages \subseteq Updates /\ Wishes \subseteq DashboardCommands
  /\ MaxRequests \in Nat /\ MaxChallenges \in Nat /\ MaxConsoleFaults \in Nat

VARIABLES
  halted,      \* system_halt.halted
  bought,      \* history: tokens bought
  listed,      \* tokens GetOpenPositions lists: there is a row of theirs that is open
  trigger,     \* the rescan channel, of capacity 1, holds a trigger
  inbox,       \* Telegram: all messages sent; an index is an update_id
  forgotten,   \* Telegram: the updates up to this one are gone
  offset,      \* Poller.offset
  batch,       \* update_ids received and not dispatched yet
  enabling,    \* /enable_trading has read the halt and not cleared it yet
  dispatched,  \* history: how often each update was dispatched in this run
  reached,     \* history: updates dispatched in any run
  challenges,  \* history: what each confirmation token was issued for
  pending,     \* PendingStore.items: tokens, with whether their time is over
  emitting,    \* commands accepted and not inserted yet
  asked,       \* commands accepted so far; one is stamped with its number
  desk,        \* operator_command_event rows: stamp, command, token
  held,        \* stamps with a claim that has not timed out
  settled,     \* stamps of rows processed
  carried,     \* the row the worker has claimed, and how far it is
  consoleFaults

botVars       == <<halted, bought, listed, trigger>>
telegramVars  == <<inbox, forgotten, offset, batch, enabling, dispatched, reached>>
dashboardVars == <<challenges, pending, emitting, asked>>
deskVars      == <<desk, held, settled, carried>>
consoleVars   == <<botVars, telegramVars, dashboardVars, deskVars, consoleFaults>>

NoToken == 0
Entries   == [stamp : 1..MaxRequests, command : Wishes, token : 0..MaxChallenges]
NoRow   == [stage |-> "none"]

ConsoleTypeOK ==
  /\ halted \in BOOLEAN /\ trigger \in BOOLEAN /\ enabling \in BOOLEAN
  /\ listed \subseteq bought /\ bought \subseteq Holdings
  /\ inbox \in Seq(Messages) /\ Len(inbox) <= MaxRequests
  /\ forgotten \in 0..MaxRequests /\ offset \in 0..MaxRequests + 1
  /\ batch \in Seq(1..MaxRequests)
  /\ dispatched \in [1..MaxRequests -> Nat] /\ reached \subseteq DOMAIN inbox
  /\ challenges \in Seq(Wishes)
  /\ pending \subseteq [token : DOMAIN challenges, expired : BOOLEAN]
  /\ asked \in 0..MaxRequests
  /\ emitting \subseteq Entries /\ desk \subseteq Entries
  /\ held \subseteq 1..asked /\ settled \subseteq 1..asked
  /\ carried # NoRow => carried.stage \in {"execute", "release", "mark"} /\ carried.row \in desk
  /\ consoleFaults \in 0..MaxConsoleFaults

ConsoleInit ==
  /\ halted = FALSE /\ trigger = FALSE /\ enabling = FALSE
  /\ bought = {} /\ listed = {}
  /\ inbox = <<>> /\ forgotten = 0 /\ offset = 0 /\ batch = <<>>
  /\ dispatched = [u \in 1..MaxRequests |-> 0] /\ reached = {}
  /\ challenges = <<>> /\ pending = {} /\ emitting = {} /\ asked = 0
  /\ desk = {} /\ held = {} /\ settled = {} /\ carried = NoRow
  /\ consoleFaults = 0

Room == Len(inbox) + asked < MaxRequests

Fault == consoleFaults < MaxConsoleFaults /\ consoleFaults' = consoleFaults + 1

-------------------------------------------------------------------------------
(* What commands do. *)

\* ForceClosePositions finds what it can close: the target matches one token of
\* those listed, closed or not.
Matches(target) == Cardinality(listed \intersect target) = 1

\* It adds a row to say that the position has exited; the open one is listed on.
ForceCloses(target) == Matches(target) /\ UNCHANGED botVars

\* ExecuteKill and ExecuteResume: SetSystemHalt.
SetSystemHalt(halt) == halted' = halt /\ UNCHANGED <<bought, listed, trigger>>

\* ExecuteCommand of a command that does not fail of itself.
ExecuteCommand(c) ==
  \/ c.type = "mode" /\ UNCHANGED botVars
  \/ c.type = "kill" /\ SetSystemHalt(TRUE)
  \/ c.type = "resume" /\ SetSystemHalt(FALSE)
  \/ c.type = "force_close" /\ ForceCloses(c.target)

Fails(c) == c.type = "force_close" /\ ~Matches(c.target)

-------------------------------------------------------------------------------
(* The rest of the bot. *)

\* The execution stage buys: its pre-check reads the mode, never system_halt.
Buy(t) ==
  /\ t \notin bought
  /\ bought' = bought \union {t}
  /\ UNCHANGED <<halted, listed, trigger, telegramVars, dashboardVars, deskVars, consoleFaults>>

\* The opening stage stores the position.
Opens(t) ==
  /\ t \in bought \ listed
  /\ listed' = listed \union {t}
  /\ UNCHANGED <<halted, bought, trigger, telegramVars, dashboardVars, deskVars, consoleFaults>>

\* RunRescan takes the trigger, and those that came with it.
TriggeredRescan ==
  /\ trigger
  /\ trigger' = FALSE
  /\ UNCHANGED <<halted, bought, listed, telegramVars, dashboardVars, deskVars, consoleFaults>>

-------------------------------------------------------------------------------
(* Telegram. *)

Send ==
  /\ Room
  /\ \E m \in Messages : inbox' = Append(inbox, m)
  /\ UNCHANGED <<botVars, forgotten, offset, batch, enabling, dispatched, reached,
                 dashboardVars, deskVars, consoleFaults>>

\* getUpdates forgets what is older than the offset, and answers with the rest.
Forgets(before) == forgotten' = IF before > forgotten + 1 THEN before - 1 ELSE forgotten

Answer == [i \in 1..(Len(inbox) - forgotten') |-> forgotten' + i]

\* The loop of Run polls again when every update of the batch is dispatched.
BatchDone == batch = <<>> /\ ~enabling

\* Slip: the offset passes over one update too many.
PollBeyond ==
  /\ BatchDone
  /\ Forgets(offset)
  /\ batch' = Answer
  /\ offset' = IF Answer = <<>> THEN offset ELSE Len(inbox) + 2
  /\ UNCHANGED <<botVars, inbox, enabling, dispatched, reached, dashboardVars, deskVars, consoleFaults>>

\* poll: the offset passes over everything received.
Poll ==
  /\ BatchDone
  /\ Forgets(offset)
  /\ batch' = Answer
  /\ offset' = IF Answer = <<>> THEN offset ELSE Len(inbox) + 1
  /\ UNCHANGED <<botVars, inbox, enabling, dispatched, reached, dashboardVars, deskVars, consoleFaults>>

\* The answer is lost, cut off or no JSON: the offset stays.
PollLost ==
  /\ BatchDone /\ Fault
  /\ Forgets(offset)
  /\ UNCHANGED <<botVars, inbox, offset, batch, enabling, dispatched, reached, dashboardVars, deskVars>>

\* The head of the batch is dispatched, once, whatever comes of it.
Dispatched ==
  /\ batch # <<>> /\ ~enabling
  /\ batch' = Tail(batch)
  /\ dispatched' = [dispatched EXCEPT ![Head(batch)] = @ + 1]
  /\ reached' = reached \union {Head(batch)}
  /\ UNCHANGED <<inbox, forgotten, offset, dashboardVars, deskVars>>

\* dispatch and Handle: only messages of the chat, only commands, only of those
\* who are allowed. (With nobody configured, everybody may ask what changes nothing.)
Heard(m) ==
  /\ m.chat = "own" /\ m.type \notin {"text", "status"}
  /\ m.by \in AllowedUserIDs

\* buildRescanFn: a send that does not wait.
RequestsRescan(m) ==
  /\ m.type = "rescan"
  /\ trigger' = TRUE
  /\ UNCHANGED <<halted, bought, listed>>

\* buildEnableTradingFn: nothing while trading is enabled, nor, unless the
\* statistics cannot be read, before enough tokens were seen.
BeginsEnabling(m) ==
  /\ m.type = "enable_trading"
  /\ enabling' \in {FALSE, halted}

Dispatch ==
  /\ Dispatched
  /\ LET m == inbox[Head(batch)]
     IN \/ ~Heard(m) /\ UNCHANGED <<botVars, enabling>>
        \/ Heard(m) /\ ExecuteCommand(m) /\ UNCHANGED enabling
        \/ Heard(m) /\ Fails(m) /\ UNCHANGED <<botVars, enabling>>
        \/ Heard(m) /\ RequestsRescan(m) /\ UNCHANGED enabling
        \/ Heard(m) /\ BeginsEnabling(m) /\ UNCHANGED botVars
  /\ UNCHANGED consoleFaults

\* A statement of the command fails: the reply says so, the update is over.
DispatchFails == Dispatched /\ Fault /\ UNCHANGED <<botVars, enabling>>

\* The second statement of /enable_trading, whatever became of the halt meanwhile.
Enable ==
  /\ enabling
  /\ enabling' = FALSE
  /\ \/ SetSystemHalt(FALSE) /\ UNCHANGED consoleFaults
     \/ Fault /\ UNCHANGED botVars
  /\ UNCHANGED <<inbox, forgotten, offset, batch, dispatched, reached, dashboardVars, deskVars>>

-------------------------------------------------------------------------------
(* The dashboard. *)

\* IsDestructive: the commands that need a confirmation. (Not mode.)
IsDestructive(c) == c.type \in {"kill", "resume", "force_close"}

\* purgeExpiredLocked.
Purged == {p \in pending : ~p.expired}

\* authorizeIssuer.
Authorized(c) == c.by \in AllowedOperators

\* buildCommand: the command is stamped with the time it is
\* accepted at, and its id is derived from everything in it.
Accepted(c, token) ==
  /\ Authorized(c)
  /\ Room
  /\ asked' = asked + 1
  /\ emitting' = emitting \union {[stamp |-> asked + 1, command |-> c, token |-> token]}
  /\ UNCHANGED <<botVars, telegramVars, deskVars, consoleFaults>>

\* POST commands, destructive: Issue.
Challenge(c) ==
  /\ Authorized(c) /\ IsDestructive(c)
  /\ Len(challenges) < MaxChallenges
  /\ challenges' = Append(challenges, c)
  /\ pending' = Purged \union {[token |-> Len(challenges) + 1, expired |-> FALSE]}
  /\ UNCHANGED <<botVars, telegramVars, emitting, asked, deskVars, consoleFaults>>

\* POST commands, not destructive.
Order(c) ==
  /\ ~IsDestructive(c)
  /\ Accepted(c, NoToken)
  /\ UNCHANGED <<challenges, pending>>

Alive(t) == \E p \in Purged : p.token = t

Without(t) == {p \in Purged : p.token # t}

\* Slip: a token that was confirmed is left to its time.
ConfirmKeepsToken(t, c) ==
  /\ IsDestructive(c)
  /\ Alive(t)
  /\ c = challenges[t]
  /\ Accepted(c, t)
  /\ pending' = Purged
  /\ UNCHANGED challenges

\* POST commands/confirm: Redeem of a token that is for this command of this issuer.
Confirm(t, c) ==
  /\ IsDestructive(c)
  /\ Alive(t)
  /\ c = challenges[t]
  /\ Accepted(c, t)
  /\ pending' = Without(t)
  /\ UNCHANGED challenges

\* Redeem of one that is for another command or issuer: the token is gone, too.
ConfirmMismatch(t, c) ==
  /\ Authorized(c) /\ IsDestructive(c)
  /\ Alive(t)
  /\ c # challenges[t]
  /\ pending' = Without(t)
  /\ UNCHANGED <<botVars, telegramVars, challenges, emitting, asked, deskVars, consoleFaults>>

\* The minute of a token is over.
Expire(t) ==
  /\ [token |-> t, expired |-> FALSE] \in pending
  /\ pending' = Without(t) \union {[token |-> t, expired |-> TRUE]}
  /\ UNCHANGED <<botVars, telegramVars, challenges, emitting, asked, deskVars, consoleFaults>>

\* emitOperatorCommand: InsertEvent with the stamp as created_at.
EmitOperatorCommand(r) ==
  /\ r \in emitting
  /\ emitting' = emitting \ {r}
  /\ desk' = desk \union {r}
  /\ UNCHANGED <<botVars, telegramVars, challenges, pending, asked, held, settled, carried, consoleFaults>>

\* No active strategy version, or a failed statement: the token is not given back.
EmitFails(r) ==
  /\ r \in emitting /\ Fault
  /\ emitting' = emitting \ {r}
  /\ UNCHANGED <<botVars, telegramVars, challenges, pending, asked, deskVars>>

-------------------------------------------------------------------------------
(* The worker of the dashboard's commands. *)

Free(r) == r \in desk /\ r.stamp \notin held \union settled

\* ClaimNextEvent: the oldest.
Claim ==
  /\ carried = NoRow
  /\ \E r \in desk :
       /\ Free(r)
       /\ \A s \in desk : Free(s) => r.stamp <= s.stamp
       /\ carried' = [row |-> r, stage |-> "execute"]
       /\ held' = held \union {r.stamp}
  /\ UNCHANGED <<botVars, telegramVars, dashboardVars, desk, settled, consoleFaults>>

Goes(stage) == carried' = [carried EXCEPT !.stage = stage] /\ UNCHANGED <<desk, held, settled>>

\* processOperatorCommandEvent.
Execute ==
  /\ carried.stage = "execute"
  /\ \/ ExecuteCommand(carried.row.command) /\ Goes("mark") /\ UNCHANGED consoleFaults
     \/ Fails(carried.row.command) /\ Goes("release") /\ UNCHANGED <<botVars, consoleFaults>>
     \/ Fault /\ Goes("release") /\ UNCHANGED botVars
  /\ UNCHANGED <<telegramVars, dashboardVars>>

\* ReleaseEventClaim: no retry is counted, and none is waited for.
Release ==
  /\ carried.stage = "release"
  /\ \/ held' = held \ {carried.row.stamp} /\ UNCHANGED consoleFaults
     \/ Fault /\ UNCHANGED held
  /\ carried' = NoRow
  /\ UNCHANGED <<botVars, telegramVars, dashboardVars, desk, settled>>

\* MarkEventProcessed; when it fails, the claim is left to its timeout.
Mark ==
  /\ carried.stage = "mark"
  /\ \/ /\ settled' = settled \union {carried.row.stamp}
        /\ held' = held \ {carried.row.stamp}
        /\ UNCHANGED consoleFaults
     \/ Fault /\ UNCHANGED <<settled, held>>
  /\ carried' = NoRow
  /\ UNCHANGED <<botVars, telegramVars, dashboardVars, desk>>

\* The claim of a row nobody works at times out. (The worker takes far less.)
TimeOut ==
  /\ \E s \in held : /\ carried # NoRow => carried.row.stamp # s
                     /\ held' = held \ {s}
  /\ UNCHANGED <<botVars, telegramVars, dashboardVars, desk, settled, carried, consoleFaults>>

-------------------------------------------------------------------------------
(* Restarts: the offset, the trigger and the tokens are in memory only. *)

BotRestarts ==
  /\ Fault
  /\ trigger' = FALSE /\ enabling' = FALSE
  /\ offset' = 0 /\ batch' = <<>>
  /\ dispatched' = [u \in 1..MaxRequests |-> 0]
  /\ carried' = NoRow
  /\ UNCHANGED <<halted, bought, listed, inbox, forgotten, reached, dashboardVars, desk, held, settled>>

DashboardRestarts ==
  /\ Fault
  /\ pending' = {} /\ emitting' = {}
  /\ UNCHANGED <<botVars, telegramVars, challenges, asked, deskVars>>

CommandWorker == Claim \/ Execute \/ Release \/ Mark

ConsoleNext ==
  \/ \E t \in Holdings : Buy(t) \/ Opens(t)
  \/ TriggeredRescan
  \/ Send \/ Poll \/ PollLost \/ Dispatch \/ DispatchFails \/ Enable
  \/ \E c \in Wishes : Challenge(c) \/ Order(c)
  \/ \E c \in Wishes, t \in DOMAIN challenges : Confirm(t, c) \/ ConfirmMismatch(t, c)
  \/ \E t \in DOMAIN challenges : Expire(t)
  \/ \E r \in emitting : EmitOperatorCommand(r) \/ EmitFails(r)
  \/ CommandWorker
  \/ TimeOut
  \/ BotRestarts \/ DashboardRestarts

ConsoleSpec == ConsoleInit /\ [][ConsoleNext]_consoleVars

\* The worker's loop goes on, a claim left behind times out, and what was bought
\* is stored.
ConsoleFairSpec ==
  /\ ConsoleSpec
  /\ WF_consoleVars(CommandWorker) /\ WF_consoleVars(TimeOut)
  /\ WF_consoleVars(\E t \in Holdings : Opens(t))

-------------------------------------------------------------------------------
(* Safety. *)

\* A confirmation token is good for one command, the one it was issued for, of
\* the operator it was issued to: however the requests to confirm it are
\* repeated and mixed with restarts, at most one comes to the bus.
OncePerChallenge ==
  \A r, s \in desk \union emitting :
    IsDestructive(r.command) =>
      /\ r.token # NoToken /\ r.command = challenges[r.token]
      /\ r.token = s.token => r = s

\* Telegram forgets no update before the bot has dispatched it, over lost
\* answers and restarts, and one run of the bot dispatches none twice.
EveryUpdateHandled ==
  \A u \in 1..MaxRequests : (u <= forgotten => u \in reached) /\ dispatched[u] <= 1

\* What the contract of IsSystemHalted promises: nothing is bought under the
\* kill switch.
KillStopsSubmission == [][bought' # bought => ~halted]_consoleVars

(* Liveness. *)

\* Every command of the dashboard that is on the bus terminates: it is processed
\* in the end, also when one before it names what is not, or not alone, in the
\* list of positions (RunOperatorCommands).
EveryCommandTerminates ==
  \A s \in 1..MaxRequests : (\E r \in desk : r.stamp = s) ~> s \in settled
================================================================================
