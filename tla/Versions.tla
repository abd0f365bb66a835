------------------------------ MODULE Versions ------------------------------
(***************************************************************************)
(* The strategy versions: a process pins its configuration when it starts  *)
(* (orchestrator.go, versions.go), and three loops propose a version,      *)
(* promote it and roll it back (run_updater.go, run_ab_promoter.go,        *)
(* run_rollback_watchdog.go, learning.go, hardening.go).                   *)
(*                                                                         *)
(* Two columns say what is active: status, which the loops read, and the   *)
(* pair activated_at and deactivated_at, which ingestion, the rescan and   *)
(* the risk controller read.  The identifier of a version is the hash of   *)
(* its snapshot, so the same configuration is the same row.                *)
(*                                                                         *)
(* The updater decodes a snapshot as a flat map of numbers.  The snapshot  *)
(* of a configuration is nested and refused; only a version of Flat, and   *)
(* what the updater itself has proposed, can be developed further.         *)
(***************************************************************************)
EXTENDS Naturals, FiniteSets

CONSTANTS
  Releases,    \* processes of the bot
  Configs,     \* configurations, each with the version it hashes to
  Flat,        \* those whose snapshot is a flat map
  Proposals,   \* versions of the updater
  NoVersion,
  MaxBoots     \* bound: starts of a process

ASSUME VersionsAssumption ==
  /\ Flat \subseteq Configs
  /\ Configs \intersect Proposals = {}
  /\ NoVersion \notin Configs \union Proposals
  /\ MaxBoots \in Nat

VARIABLES
  strategy,   \* strategy_versions, by id
  release,    \* how far each process has come and the version it has pinned
  updater,    \* the proposal of each updater loop that is not a shadow yet
  promoter,   \* the candidate each promoter loop has decided to promote
  watchdog,   \* what each watchdog loop rolls back, and its next statement
  boots       \* starts so far

versionsVars == <<strategy, release, updater, promoter, watchdog, boots>>
loops == <<updater, promoter, watchdog>>

VersionIds == Configs \union Proposals
Statuses == {"draft", "shadow", "active", "deactivated", "rolled_back"}
Row == [status : Statuses, activated : BOOLEAN, deactivated : BOOLEAN,
        parent : VersionIds \union {NoVersion}]

Off == [at |-> "off", version |-> NoVersion]
NoRollback == [at |-> "watch", version |-> NoVersion]

VersionsTypeOK ==
  /\ DOMAIN strategy \subseteq VersionIds
  /\ \A v \in DOMAIN strategy : strategy[v] \in Row
  /\ \A p \in Releases : release[p].at \in {"off", "created", "pinned", "up", "down"}
  /\ {updater[p] : p \in Releases} \union {promoter[p] : p \in Releases}
       \subseteq DOMAIN strategy \union {NoVersion}
  /\ boots \in 0..MaxBoots

VersionsInit ==
  /\ strategy = [v \in {} |-> NoVersion]
  /\ release = [p \in Releases |-> Off]
  /\ updater = [p \in Releases |-> NoVersion]
  /\ promoter = [p \in Releases |-> NoVersion]
  /\ watchdog = [p \in Releases |-> NoRollback]
  /\ boots = 0

-------------------------------------------------------------------------------
(* The statements. *)

Having(status) == {v \in DOMAIN strategy : strategy[v].status = status}

\* GetActiveStrategyVersion returns the newest of these.
Currents == {v \in DOMAIN strategy : strategy[v].activated /\ ~ strategy[v].deactivated}

\* GetStrategyVersion and CreateStrategyVersion: the first insert stays.
CreateStrategyVersion(v, parent) ==
  strategy' = [w \in DOMAIN strategy \union {v} |->
    IF w \in DOMAIN strategy THEN strategy[w]
    ELSE [status |-> "draft", activated |-> FALSE, deactivated |-> FALSE, parent |-> parent]]

Deactivated(row) == [row EXCEPT !.status = "deactivated", !.deactivated = TRUE]

\* The rows of out end, v becomes active and keeps its deactivated_at.
Succeed(v, out) ==
  [w \in DOMAIN strategy |->
     LET row == IF w \in out THEN Deactivated(strategy[w]) ELSE strategy[w]
     IN  IF w = v THEN [row EXCEPT !.status = "active", !.activated = TRUE] ELSE row]

\* Slip: the versions before this one lose their status only.
ActivateStatusOnly(v) ==
  [w \in DOMAIN strategy |->
     IF w = v THEN [strategy[w] EXCEPT !.status = "active", !.activated = TRUE]
     ELSE IF w \in Currents THEN [strategy[w] EXCEPT !.status = "deactivated"]
     ELSE strategy[w]]

\* ActivateStrategyVersion finds the versions before this one by their times.
ActivateStrategyVersion(v) == Succeed(v, Currents \ {v})

\* The index that admits one row of status active.
OneActive(rows) == Cardinality({v \in DOMAIN rows : rows[v].status = "active"}) <= 1

\* PromoteStrategyVersion finds them by their status, the candidate included.
PromoteStrategyVersion(v) == Succeed(v, Having("active"))

LegalVersionTransition ==
  {<<"draft", "shadow">>, <<"draft", "deactivated">>,
   <<"shadow", "active">>, <<"shadow", "deactivated">>,
   <<"active", "rolled_back">>, <<"active", "deactivated">>}

\* SetStrategyVersionStatus: an illegal transition is an error.
SetStrategyVersionStatus(v, to) ==
  strategy' =
    IF <<strategy[v].status, to>> \notin LegalVersionTransition THEN strategy
    ELSE CASE to = "active" -> Succeed(v, Having("active") \ {v})
           [] to = "shadow" -> [strategy EXCEPT ![v].status = "shadow"]
           [] OTHER -> [strategy EXCEPT ![v].status = to, ![v].deactivated = TRUE]

-------------------------------------------------------------------------------
(* A start: create, activate, then ingestion asks for the active version. *)

BootCreate(p) ==
  /\ release[p].at = "off" /\ boots < MaxBoots
  /\ boots' = boots + 1
  /\ \E c \in Configs :
       /\ CreateStrategyVersion(c, NoVersion)
       /\ release' = [release EXCEPT ![p] = [at |-> "created", version |-> c]]
  /\ UNCHANGED loops

\* A row too many of status active rolls the transaction back and ends the start.
BootActivate(p) ==
  LET rows == ActivateStrategyVersion(release[p].version)
  IN /\ release[p].at = "created"
     /\ \/ /\ OneActive(rows)
           /\ strategy' = rows
           /\ release' = [release EXCEPT ![p].at = "pinned"]
        \/ /\ ~ OneActive(rows)
           /\ release' = [release EXCEPT ![p].at = "down"]
           /\ UNCHANGED strategy
     /\ UNCHANGED <<loops, boots>>

\* Without an active version ingestion does not start.
StartIngestion(p) ==
  /\ release[p].at = "pinned"
  /\ release' = [release EXCEPT ![p].at = IF Currents = {} THEN "down" ELSE "up"]
  /\ UNCHANGED <<strategy, loops, boots>>

\* The process stops, between two statements of a loop as well.
StopRelease(p) ==
  /\ release[p].at # "off"
  /\ release' = [release EXCEPT ![p] = Off]
  /\ updater' = [updater EXCEPT ![p] = NoVersion]
  /\ promoter' = [promoter EXCEPT ![p] = NoVersion]
  /\ watchdog' = [watchdog EXCEPT ![p] = NoRollback]
  /\ UNCHANGED <<strategy, boots>>

-------------------------------------------------------------------------------
(* The loops of learning. *)

Running(p) == release[p].at \in {"pinned", "up"}

\* An evaluation of enough samples has the active version developed.
ProposeVersion(p) ==
  /\ Running(p) /\ updater[p] = NoVersion
  /\ \E a \in Having("active") \intersect (Flat \union Proposals), v \in Proposals :
       /\ CreateStrategyVersion(v, a)
       /\ updater' = [updater EXCEPT ![p] = v]
  /\ UNCHANGED <<release, promoter, watchdog, boots>>

\* A version that is past draft stays; the event is released or processed.
ShadowProposal(p) ==
  /\ updater[p] # NoVersion
  /\ SetStrategyVersionStatus(updater[p], "shadow")
  /\ updater' = [updater EXCEPT ![p] = NoVersion]
  /\ UNCHANGED <<release, promoter, watchdog, boots>>

\* The shadow has run its window and beats the active version.
ShouldPromote(p) ==
  /\ Running(p) /\ promoter[p] = NoVersion
  /\ \E s \in Having("shadow") :
       /\ Having("active") \ {s} # {}
       /\ promoter' = [promoter EXCEPT ![p] = s]
  /\ UNCHANGED <<strategy, release, updater, watchdog, boots>>

\* The pipeline drains in time, or the candidate waits for the next tick.
Promote(p) ==
  /\ promoter[p] # NoVersion
  /\ strategy' \in {strategy, PromoteStrategyVersion(promoter[p])}
  /\ promoter' = [promoter EXCEPT ![p] = NoVersion]
  /\ UNCHANGED <<release, updater, watchdog, boots>>

\* The active version falls behind its parent.
ShouldRollback(p) ==
  /\ Running(p) /\ watchdog[p] = NoRollback
  /\ \E a \in Having("active") :
       /\ strategy[a].parent # NoVersion
       /\ watchdog' = [watchdog EXCEPT ![p] = [at |-> "mark", version |-> a]]
  /\ UNCHANGED <<strategy, release, updater, promoter, boots>>

\* The version is marked, then the parent restored, unless the mark is refused.
MarkRolledBack(p) ==
  LET v == watchdog[p].version
  IN /\ watchdog[p].at = "mark"
     /\ SetStrategyVersionStatus(v, "rolled_back")
     /\ watchdog' = [watchdog EXCEPT ![p] =
          IF strategy[v].status = "active" THEN [at |-> "restore", version |-> v]
          ELSE NoRollback]
     /\ UNCHANGED <<release, updater, promoter, boots>>

RestoreParent(p) ==
  /\ watchdog[p].at = "restore"
  /\ SetStrategyVersionStatus(strategy[watchdog[p].version].parent, "active")
  /\ watchdog' = [watchdog EXCEPT ![p] = NoRollback]
  /\ UNCHANGED <<release, updater, promoter, boots>>

VersionsNext ==
  \E p \in Releases :
    \/ BootCreate(p) \/ BootActivate(p) \/ StartIngestion(p) \/ StopRelease(p)
    \/ ProposeVersion(p) \/ ShadowProposal(p)
    \/ ShouldPromote(p) \/ Promote(p)
    \/ ShouldRollback(p) \/ MarkRolledBack(p) \/ RestoreParent(p)

VersionsSpec == VersionsInit /\ [][VersionsNext]_versionsVars

-------------------------------------------------------------------------------
(* Properties. *)

\* The two notions of active agree on the version that ingestion, the rescan and
\* the risk controller read: whatever order processes start, propose, promote
\* and roll back in, it is the one whose status says active, there are never two
\* of them, and once a version has been activated there is one, but for what the
\* statements cannot repair: a version has been rolled back and its parent, past
\* shadow, refused; or the active one is a version that came back and kept its
\* deactivated_at (GetActiveStrategyVersion, GetActiveStrategy).
CurrentIsActive ==
  /\ Currents \subseteq Having("active")
  /\ Cardinality(Currents) <= 1
  /\ Currents = {} =>
       \/ \A v \in DOMAIN strategy : ~ strategy[v].activated
       \/ Having("rolled_back") # {}
       \/ \E v \in Having("active") : strategy[v].deactivated
=============================================================================
