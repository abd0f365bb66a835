----------------------------- MODULE UpkeepProofs -----------------------------
(***************************************************************************)
(* Theorems about Versions and Probes, for any processes, tokens, caps and *)
(* bounds: the version that ingestion reads is the one whose status says   *)
(* active, and a token that the probes put off is not forgotten.           *)
(* Behaviours of MCUpkeep are behaviours of both.                          *)
(***************************************************************************)
EXTENDS MCUpkeep, FiniteSetTheorems, TLAPS

-------------------------------------------------------------------------------
(* The table of versions, as a value: what each statement keeps of it. *)

InForce(row) == row.activated /\ ~ row.deactivated

\* What none in force means: none has been, or one was taken back, or came back.
NoneInForce(rows) ==
  \/ \A v \in DOMAIN rows : ~ rows[v].activated
  \/ \E v \in DOMAIN rows : rows[v].status = "rolled_back"
  \/ \E v \in DOMAIN rows : rows[v].status = "active" /\ rows[v].deactivated

\* Every row has its parent in the table; one row at most is in force, and its
\* status says so. A draft has never been active.
RowsOK(rows) ==
  /\ rows \in [DOMAIN rows -> Row]
  /\ DOMAIN rows \subseteq VersionIds
  /\ \A v \in DOMAIN rows :
       /\ rows[v].parent \in DOMAIN rows \union {NoVersion}
       /\ InForce(rows[v]) => rows[v].status = "active"
       /\ rows[v].status = "draft" => ~ rows[v].activated
  /\ \A v, w \in DOMAIN rows : InForce(rows[v]) /\ InForce(rows[w]) => v = w
  /\ (\E v \in DOMAIN rows : InForce(rows[v])) \/ NoneInForce(rows)

\* Rows are not deleted, and keep their parents.
Keeps(rows) ==
  /\ DOMAIN strategy \subseteq DOMAIN rows
  /\ \A v \in DOMAIN strategy : rows[v].parent = strategy[v].parent

ReleaseOK ==
  /\ release \in [Releases -> [at : {"off", "created", "pinned", "up", "down"},
                               version : VersionIds \union {NoVersion}]]
  /\ \A p \in Releases : release[p].at = "created" => release[p].version \in DOMAIN strategy
UpdaterOK == updater \in [Releases -> DOMAIN strategy \union {NoVersion}]
PromoterOK == promoter \in [Releases -> DOMAIN strategy \union {NoVersion}]
\* What is to be rolled back has a parent to restore.
WatchdogOK ==
  /\ watchdog \in [Releases -> [at : {"watch", "mark", "restore"},
                                version : VersionIds \union {NoVersion}]]
  /\ \A p \in Releases : watchdog[p].at # "watch" =>
       /\ watchdog[p].version \in DOMAIN strategy
       /\ strategy[watchdog[p].version].parent # NoVersion
BootsOK == boots \in 0..MaxBoots

VersionsInv ==
  /\ RowsOK(strategy) /\ ReleaseOK /\ UpdaterOK /\ PromoterOK /\ WatchdogOK /\ BootsOK

LEMMA DeactivatedRow ==
  ASSUME NEW row \in Row
  PROVE  /\ Deactivated(row) \in Row /\ ~ InForce(Deactivated(row))
         /\ Deactivated(row).parent = row.parent
BY DEF Row, Statuses, Deactivated, InForce

\* A version takes over from at least every row in force but itself.
LEMMA SucceedKeeps ==
  ASSUME RowsOK(strategy), NEW v \in DOMAIN strategy, NEW out,
         Currents \ {v} \subseteq out
  PROVE  RowsOK(Succeed(v, out)) /\ Keeps(Succeed(v, out))
<1> DEFINE rows == Succeed(v, out)
           Base(w) == IF w \in out THEN Deactivated(strategy[w]) ELSE strategy[w]
           Row2(w) == IF w = v THEN [Base(w) EXCEPT !.status = "active", !.activated = TRUE]
                      ELSE Base(w)
<1>1. DOMAIN rows = DOMAIN strategy /\ \A w \in DOMAIN strategy : rows[w] = Row2(w)
  BY DEF Succeed
<1>2. \A w \in DOMAIN strategy : strategy[w] \in Row
  BY DEF RowsOK
<1>3. \A w \in DOMAIN strategy : Base(w) \in Row /\ Base(w).parent = strategy[w].parent
  BY <1>2, DeactivatedRow
<1>4. \A w \in DOMAIN strategy :
        /\ rows[w] \in Row /\ rows[w].parent = strategy[w].parent
        /\ rows[w].status = "draft" => ~ rows[w].activated
        /\ w = v => rows[w].status = "active" /\ rows[w].activated
  <2> SUFFICES ASSUME NEW w \in DOMAIN strategy
               PROVE  /\ rows[w] \in Row /\ rows[w].parent = strategy[w].parent
                      /\ rows[w].status = "draft" => ~ rows[w].activated
                      /\ w = v => rows[w].status = "active" /\ rows[w].activated
    OBVIOUS
  <2>1. PICK base : base = Base(w)
    OBVIOUS
  <2>2. /\ base \in Row /\ base.parent = strategy[w].parent
        /\ base.status = "draft" => ~ base.activated
    BY <2>1, <1>2, <1>3 DEF RowsOK, Deactivated, Row
  <2>3. CASE w = v
    <3>1. rows[w] = [base EXCEPT !.status = "active", !.activated = TRUE]
      BY <1>1, <2>1, <2>3
    <3> QED BY <3>1, <2>2 DEF Row, Statuses
  <2>4. CASE w # v
    <3>1. rows[w] = base
      BY <1>1, <2>1, <2>4
    <3> QED BY <3>1, <2>2, <2>4
  <2> QED BY <2>3, <2>4
<1>5. \A w \in DOMAIN strategy : w # v => ~ InForce(rows[w])
  <2> SUFFICES ASSUME NEW w \in DOMAIN strategy, w # v PROVE ~ InForce(rows[w])
    OBVIOUS
  <2>1. rows[w] = Base(w)
    BY <1>1
  <2>2. CASE w \in out
    BY <2>1, <2>2, <1>2, DeactivatedRow
  <2>3. CASE w \notin out
    BY <2>1, <2>3 DEF Currents, InForce
  <2> QED BY <2>2, <2>3
<1>6. rows \in [DOMAIN rows -> Row]
  BY <1>1, <1>4 DEF Succeed
<1> HIDE DEF rows
<1>7. InForce(rows[v]) \/ NoneInForce(rows)
  BY <1>1, <1>4 DEF InForce, NoneInForce, Row
<1>8. RowsOK(rows)
  BY <1>1, <1>4, <1>5, <1>6, <1>7 DEF RowsOK
<1>9. Keeps(rows)
  BY <1>1, <1>4 DEF Keeps
<1> QED BY <1>8, <1>9 DEF rows

LEMMA CreateKeeps ==
  ASSUME RowsOK(strategy), NEW v \in VersionIds,
         NEW parent \in DOMAIN strategy \union {NoVersion},
         CreateStrategyVersion(v, parent)
  PROVE  RowsOK(strategy') /\ Keeps(strategy') /\ v \in DOMAIN strategy'
<1> DEFINE fresh == [status |-> "draft", activated |-> FALSE, deactivated |-> FALSE,
                     parent |-> parent]
<1>1. /\ DOMAIN strategy' = DOMAIN strategy \union {v}
      /\ \A w \in DOMAIN strategy' :
           strategy'[w] = IF w \in DOMAIN strategy THEN strategy[w] ELSE fresh
      /\ strategy' = [w \in DOMAIN strategy' |-> strategy'[w]]
  BY DEF CreateStrategyVersion
<1>2. fresh \in Row /\ ~ InForce(fresh) /\ fresh.parent = parent
  BY DEF RowsOK, Row, Statuses, InForce
<1>3. \A w \in DOMAIN strategy' :
        \/ strategy'[w] = fresh /\ ~ fresh.activated
        \/ w \in DOMAIN strategy /\ strategy'[w] = strategy[w]
  BY <1>1
<1>4. \A w \in DOMAIN strategy : strategy'[w] = strategy[w]
  BY <1>1
<1> HIDE DEF fresh
<1>5. (\E w \in DOMAIN strategy' : InForce(strategy'[w])) \/ NoneInForce(strategy')
  <2>1. CASE \E w \in DOMAIN strategy : InForce(strategy[w])
    BY <1>1, <1>4, <2>1
  <2>2. CASE NoneInForce(strategy)
    BY <1>1, <1>3, <1>4, <2>2 DEF NoneInForce
  <2> QED BY <2>1, <2>2 DEF RowsOK
<1>6. \A w \in DOMAIN strategy' : strategy'[w].status = "draft" => ~ strategy'[w].activated
  BY <1>3 DEF RowsOK
<1> QED BY <1>1, <1>2, <1>5, <1>6 DEF RowsOK, Keeps

LEMMA SetStatusKeeps ==
  ASSUME RowsOK(strategy), NEW v \in DOMAIN strategy,
         NEW to \in {"shadow", "active", "rolled_back"},
         SetStrategyVersionStatus(v, to)
  PROVE  RowsOK(strategy') /\ Keeps(strategy')
<1>1. CASE strategy' = strategy
  BY <1>1 DEF Keeps
<1>2. CASE <<strategy[v].status, to>> \in LegalVersionTransition /\ to = "active"
  <2>1. strategy' = Succeed(v, Having("active") \ {v})
    BY <1>2 DEF SetStrategyVersionStatus
  <2>2. Currents \ {v} \subseteq Having("active") \ {v}
    BY DEF RowsOK, Currents, Having, InForce
  <2> QED BY <2>1, <2>2, SucceedKeeps
<1>3. CASE <<strategy[v].status, to>> \in LegalVersionTransition /\ to = "shadow"
  <2>1. strategy' = [strategy EXCEPT ![v].status = "shadow"] /\ strategy[v].status = "draft"
    BY <1>3 DEF SetStrategyVersionStatus, LegalVersionTransition
  <2>2. strategy[v] \in Row /\ ~ InForce(strategy[v]) /\ ~ strategy[v].activated
    BY <2>1 DEF RowsOK
  <2>3. /\ DOMAIN strategy' = DOMAIN strategy
        /\ strategy' = [w \in DOMAIN strategy |-> strategy'[w]]
        /\ \A w \in DOMAIN strategy : w # v => strategy'[w] = strategy[w]
        /\ strategy'[v] = [strategy[v] EXCEPT !.status = "shadow"]
    BY <2>1
  <2>4. /\ strategy'[v] \in Row /\ ~ InForce(strategy'[v]) /\ ~ strategy'[v].activated
        /\ strategy'[v].parent = strategy[v].parent /\ strategy'[v].status = "shadow"
    BY <2>2, <2>3 DEF Row, Statuses, InForce
  <2>5. (\E w \in DOMAIN strategy' : InForce(strategy'[w])) \/ NoneInForce(strategy')
    <3>1. CASE \E w \in DOMAIN strategy : InForce(strategy[w])
      BY <2>2, <2>3, <3>1
    <3>2. CASE NoneInForce(strategy)
      BY <2>1, <2>2, <2>3, <2>4, <3>2 DEF NoneInForce
    <3> QED BY <3>1, <3>2 DEF RowsOK
  <2> QED BY <2>3, <2>4, <2>5 DEF RowsOK, Keeps
<1>4. CASE <<strategy[v].status, to>> \in LegalVersionTransition /\ to = "rolled_back"
  <2>1. strategy' = [strategy EXCEPT ![v].status = to, ![v].deactivated = TRUE]
    BY <1>4 DEF SetStrategyVersionStatus
  <2>2. strategy[v] \in Row
    BY DEF RowsOK
  <2>3. /\ DOMAIN strategy' = DOMAIN strategy
        /\ strategy' = [w \in DOMAIN strategy |-> strategy'[w]]
        /\ \A w \in DOMAIN strategy : w # v => strategy'[w] = strategy[w]
        /\ strategy'[v] = [strategy[v] EXCEPT !.status = "rolled_back", !.deactivated = TRUE]
    BY <2>1, <1>4
  <2>4. /\ strategy'[v] \in Row /\ ~ InForce(strategy'[v]) /\ strategy'[v].parent = strategy[v].parent
        /\ strategy'[v].status = "rolled_back"
    BY <2>2, <2>3 DEF Row, Statuses, InForce
  <2>5. NoneInForce(strategy')
    BY <2>3, <2>4 DEF NoneInForce
  <2>6. \A w \in DOMAIN strategy :
          /\ strategy'[w] \in Row /\ strategy'[w].parent = strategy[w].parent
          /\ InForce(strategy'[w]) => InForce(strategy[w]) /\ strategy'[w] = strategy[w]
          /\ strategy'[w].status = "draft" => strategy'[w] = strategy[w]
    BY <2>3, <2>4 DEF RowsOK
  <2> QED BY <2>3, <2>5, <2>6 DEF RowsOK, Keeps
<1> QED BY <1>1, <1>2, <1>3, <1>4 DEF SetStrategyVersionStatus

\* A step that keeps the table leaves the loops it does not change as they are.
LEMMA VersionsFrame ==
  ASSUME VersionsInv, RowsOK(strategy'), Keeps(strategy')
  PROVE  /\ UNCHANGED release => ReleaseOK'
         /\ UNCHANGED updater => UpdaterOK'
         /\ UNCHANGED promoter => PromoterOK'
         /\ UNCHANGED watchdog => WatchdogOK'
         /\ UNCHANGED boots => BootsOK'
<1>1. UNCHANGED release => ReleaseOK'
  BY DEF VersionsInv, ReleaseOK, Keeps
<1>2. UNCHANGED updater => UpdaterOK'
  BY DEF VersionsInv, UpdaterOK, Keeps
<1>3. UNCHANGED promoter => PromoterOK'
  BY DEF VersionsInv, PromoterOK, Keeps
<1>4. UNCHANGED watchdog => WatchdogOK'
  BY DEF VersionsInv, WatchdogOK, Keeps
<1> QED BY <1>1, <1>2, <1>3, <1>4 DEF VersionsInv, BootsOK

LEMMA TableUnchanged ==
  ASSUME VersionsInv, UNCHANGED strategy
  PROVE  RowsOK(strategy') /\ Keeps(strategy')
BY DEF VersionsInv, Keeps

LEMMA VersionsInitial == VersionsInit => VersionsInv
BY VersionsAssumption DEF VersionsInit, VersionsInv, RowsOK, ReleaseOK, UpdaterOK, PromoterOK,
   WatchdogOK, BootsOK, Off, NoRollback, NoneInForce

-------------------------------------------------------------------------------
(* A start and a stop. *)

LEMMA BootCreateKeeps ==
  ASSUME VersionsInv, NEW p \in Releases, BootCreate(p) PROVE VersionsInv'
<1>1. PICK c \in Configs :
        /\ CreateStrategyVersion(c, NoVersion)
        /\ release' = [release EXCEPT ![p] = [at |-> "created", version |-> c]]
  BY DEF BootCreate
<1>2. RowsOK(strategy') /\ Keeps(strategy') /\ c \in DOMAIN strategy'
  BY <1>1, CreateKeeps DEF VersionsInv, VersionIds
<1>3. ReleaseOK'
  BY <1>1, <1>2 DEF VersionsInv, ReleaseOK, Keeps, VersionIds
<1>4. BootsOK'
  BY VersionsAssumption DEF VersionsInv, BootsOK, BootCreate
<1> QED BY <1>2, <1>3, <1>4, VersionsFrame DEF VersionsInv, BootCreate, loops

LEMMA BootActivateKeeps ==
  ASSUME VersionsInv, NEW p \in Releases, BootActivate(p) PROVE VersionsInv'
<1> DEFINE v == release[p].version
<1>1. v \in DOMAIN strategy
  BY DEF BootActivate, VersionsInv, ReleaseOK
<1>2. strategy' = strategy \/ strategy' = Succeed(v, Currents \ {v})
  BY DEF BootActivate, ActivateStrategyVersion
<1>3. RowsOK(strategy') /\ Keeps(strategy')
  BY <1>1, <1>2, SucceedKeeps, TableUnchanged DEF VersionsInv
<1>4. \E at \in {"pinned", "down"} : release' = [release EXCEPT ![p].at = at]
  BY DEF BootActivate
<1>5. ReleaseOK'
  BY <1>3, <1>4 DEF VersionsInv, ReleaseOK, Keeps
<1> QED BY <1>3, <1>5, VersionsFrame DEF VersionsInv, BootActivate, loops

LEMMA StartIngestionKeeps ==
  ASSUME VersionsInv, NEW p \in Releases, StartIngestion(p) PROVE VersionsInv'
<1>1. RowsOK(strategy') /\ Keeps(strategy')
  BY TableUnchanged DEF StartIngestion
<1>2. \E at \in {"up", "down"} : release' = [release EXCEPT ![p].at = at]
  BY DEF StartIngestion
<1>3. ReleaseOK'
  BY <1>1, <1>2 DEF VersionsInv, ReleaseOK, Keeps
<1> QED BY <1>1, <1>3, VersionsFrame DEF VersionsInv, StartIngestion, loops

LEMMA StopReleaseKeeps ==
  ASSUME VersionsInv, NEW p \in Releases, StopRelease(p) PROVE VersionsInv'
<1>1. RowsOK(strategy') /\ Keeps(strategy')
  BY TableUnchanged DEF StopRelease
<1>2. ReleaseOK'
  BY <1>1 DEF VersionsInv, ReleaseOK, Keeps, StopRelease, Off
<1>3. UpdaterOK' /\ PromoterOK'
  BY <1>1 DEF VersionsInv, UpdaterOK, PromoterOK, Keeps, StopRelease
<1>4. WatchdogOK'
  BY <1>1 DEF VersionsInv, WatchdogOK, Keeps, StopRelease, NoRollback
<1> QED BY <1>1, <1>2, <1>3, <1>4, VersionsFrame DEF VersionsInv, StopRelease

-------------------------------------------------------------------------------
(* The loops. *)

LEMMA ProposeVersionKeeps ==
  ASSUME VersionsInv, NEW p \in Releases, ProposeVersion(p) PROVE VersionsInv'
<1>1. PICK a \in Having("active"), v \in Proposals :
        CreateStrategyVersion(v, a) /\ updater' = [updater EXCEPT ![p] = v]
  BY DEF ProposeVersion
<1>2. RowsOK(strategy') /\ Keeps(strategy') /\ v \in DOMAIN strategy'
  BY <1>1, CreateKeeps DEF VersionsInv, VersionIds, Having
<1>3. UpdaterOK'
  BY <1>1, <1>2 DEF VersionsInv, UpdaterOK, Keeps
<1> QED BY <1>2, <1>3, VersionsFrame DEF VersionsInv, ProposeVersion

LEMMA ShadowProposalKeeps ==
  ASSUME VersionsInv, NEW p \in Releases, ShadowProposal(p) PROVE VersionsInv'
<1>1. RowsOK(strategy') /\ Keeps(strategy')
  BY SetStatusKeeps DEF ShadowProposal, VersionsInv, UpdaterOK
<1>2. UpdaterOK'
  BY <1>1 DEF VersionsInv, UpdaterOK, Keeps, ShadowProposal
<1> QED BY <1>1, <1>2, VersionsFrame DEF VersionsInv, ShadowProposal

LEMMA ShouldPromoteKeeps ==
  ASSUME VersionsInv, NEW p \in Releases, ShouldPromote(p) PROVE VersionsInv'
<1>1. RowsOK(strategy') /\ Keeps(strategy')
  BY TableUnchanged DEF ShouldPromote
<1>2. PromoterOK'
  BY <1>1 DEF VersionsInv, PromoterOK, Keeps, ShouldPromote, Having
<1> QED BY <1>1, <1>2, VersionsFrame DEF VersionsInv, ShouldPromote

LEMMA PromoteKeeps ==
  ASSUME VersionsInv, NEW p \in Releases, Promote(p) PROVE VersionsInv'
<1>1. promoter[p] \in DOMAIN strategy
  BY DEF Promote, VersionsInv, PromoterOK
<1>2. Currents \ {promoter[p]} \subseteq Having("active")
  BY DEF VersionsInv, RowsOK, Currents, Having, InForce
<1>3. strategy' = strategy \/ strategy' = Succeed(promoter[p], Having("active"))
  BY DEF Promote, PromoteStrategyVersion
<1>4. RowsOK(strategy') /\ Keeps(strategy')
  BY <1>1, <1>2, <1>3, SucceedKeeps, TableUnchanged DEF VersionsInv
<1>5. PromoterOK'
  BY <1>4 DEF VersionsInv, PromoterOK, Keeps, Promote
<1> QED BY <1>4, <1>5, VersionsFrame DEF VersionsInv, Promote

LEMMA ShouldRollbackKeeps ==
  ASSUME VersionsInv, NEW p \in Releases, ShouldRollback(p) PROVE VersionsInv'
<1>1. RowsOK(strategy') /\ Keeps(strategy')
  BY TableUnchanged DEF ShouldRollback
<1>2. PICK a \in DOMAIN strategy :
        /\ strategy[a].parent # NoVersion
        /\ watchdog' = [watchdog EXCEPT ![p] = [at |-> "mark", version |-> a]]
  BY DEF ShouldRollback, Having
<1>3. WatchdogOK'
  BY <1>1, <1>2 DEF VersionsInv, WatchdogOK, Keeps, ShouldRollback, RowsOK
<1> QED BY <1>1, <1>3, VersionsFrame DEF VersionsInv, ShouldRollback

LEMMA MarkRolledBackKeeps ==
  ASSUME VersionsInv, NEW p \in Releases, MarkRolledBack(p) PROVE VersionsInv'
<1> DEFINE v == watchdog[p].version
<1>1. v \in DOMAIN strategy /\ strategy[v].parent # NoVersion
  BY DEF MarkRolledBack, VersionsInv, WatchdogOK
<1>2. RowsOK(strategy') /\ Keeps(strategy')
  BY <1>1, SetStatusKeeps DEF MarkRolledBack, VersionsInv
<1>3. \/ watchdog' = [watchdog EXCEPT ![p] = [at |-> "restore", version |-> v]]
      \/ watchdog' = [watchdog EXCEPT ![p] = NoRollback]
  BY DEF MarkRolledBack
<1>4. WatchdogOK'
  BY <1>1, <1>2, <1>3 DEF VersionsInv, WatchdogOK, Keeps, RowsOK, NoRollback
<1> QED BY <1>2, <1>4, VersionsFrame DEF VersionsInv, MarkRolledBack

LEMMA RestoreParentKeeps ==
  ASSUME VersionsInv, NEW p \in Releases, RestoreParent(p) PROVE VersionsInv'
<1> DEFINE v == watchdog[p].version
<1>1. v \in DOMAIN strategy /\ strategy[v].parent # NoVersion
  BY DEF RestoreParent, VersionsInv, WatchdogOK
<1>2. strategy[v].parent \in DOMAIN strategy
  BY <1>1 DEF VersionsInv, RowsOK
<1>3. RowsOK(strategy') /\ Keeps(strategy')
  BY <1>2, SetStatusKeeps DEF RestoreParent, VersionsInv
<1>4. WatchdogOK'
  BY <1>3 DEF VersionsInv, WatchdogOK, Keeps, RestoreParent, NoRollback
<1> QED BY <1>3, <1>4, VersionsFrame DEF VersionsInv, RestoreParent

LEMMA VersionsStep == VersionsInv /\ [VersionsNext]_versionsVars => VersionsInv'
<1> SUFFICES ASSUME VersionsInv, [VersionsNext]_versionsVars PROVE VersionsInv'
  OBVIOUS
<1>1. CASE UNCHANGED versionsVars
  <2>1. RowsOK(strategy') /\ Keeps(strategy')
    BY <1>1, TableUnchanged DEF versionsVars
  <2> QED BY <1>1, <2>1, VersionsFrame DEF versionsVars, VersionsInv
<1>2. CASE VersionsNext
  <2>1. PICK p \in Releases :
          \/ BootCreate(p) \/ BootActivate(p) \/ StartIngestion(p) \/ StopRelease(p)
          \/ ProposeVersion(p) \/ ShadowProposal(p)
          \/ ShouldPromote(p) \/ Promote(p)
          \/ ShouldRollback(p) \/ MarkRolledBack(p) \/ RestoreParent(p)
    BY <1>2 DEF VersionsNext
  <2> QED BY <2>1, BootCreateKeeps, BootActivateKeeps, StartIngestionKeeps, StopReleaseKeeps,
             ProposeVersionKeeps, ShadowProposalKeeps, ShouldPromoteKeeps, PromoteKeeps,
             ShouldRollbackKeeps, MarkRolledBackKeeps, RestoreParentKeeps
<1> QED BY <1>1, <1>2

LEMMA VersionsInvImplies == VersionsInv => VersionsTypeOK /\ CurrentIsActive
<1> SUFFICES ASSUME VersionsInv PROVE VersionsTypeOK /\ CurrentIsActive
  OBVIOUS
<1>1. VersionsTypeOK
  BY DEF VersionsInv, RowsOK, ReleaseOK, UpdaterOK, PromoterOK, BootsOK, VersionsTypeOK
<1>2. Currents \subseteq Having("active") /\ \A v, w \in Currents : v = w
  BY DEF VersionsInv, RowsOK, Currents, Having, InForce
<1>3. ASSUME NEW v \in Currents PROVE Cardinality(Currents) <= 1
  <2>1. Currents = {v}
    BY <1>2
  <2>2. Cardinality({v}) = 1
    BY FS_Singleton
  <2> QED BY <2>1, <2>2
<1>4. Cardinality(Currents) <= 1
  BY <1>3, FS_EmptySet
<1>5. Currents = {} =>
        \/ \A v \in DOMAIN strategy : ~ strategy[v].activated
        \/ Having("rolled_back") # {}
        \/ \E v \in Having("active") : strategy[v].deactivated
  BY DEF VersionsInv, RowsOK, NoneInForce, InForce, Currents, Having
<1> QED BY <1>1, <1>2, <1>4, <1>5 DEF CurrentIsActive

\* The table of versions is well formed, and a loop that holds a version holds
\* one of the table (hardening.go, learning.go).
THEOREM VersionsTypeCorrect == VersionsSpec => []VersionsTypeOK
<1>1. VersionsInv => VersionsTypeOK
  BY VersionsInvImplies
<1> QED BY VersionsInitial, VersionsStep, <1>1, PTL DEF VersionsSpec

\* Whatever order processes start, propose, promote and roll back in, there is
\* never more than one version in force, its status says active, and there is
\* none after a first only if one was rolled back or came back.
THEOREM OneVersionInForce == VersionsSpec => []CurrentIsActive
<1>1. VersionsInv => CurrentIsActive
  BY VersionsInvImplies
<1> QED BY VersionsInitial, VersionsStep, <1>1, PTL DEF VersionsSpec

-------------------------------------------------------------------------------
(* The queue of the probes. *)

\* The token a row is kept for: the identifier says it, so it stays.
Owner(id) == IF id.scope = "token" THEN id.of ELSE id.of.token

Returned(id) == Retry("probe_pending_retry", Owner(id), id) \in raised

EventsOK ==
  /\ clock \in Times
  /\ answered \subseteq raised
  /\ \A e \in raised : e.token \in Tokens /\ e.kind \in RetryKinds \union {"ingest", "rescan_15m"}
  /\ \A a \in enriched : a.event \in raised /\ a.flags \subseteq {"duplicate", "copycat"}
  /\ account \in [Tokens -> {"clear", "owed", "written_off"}]
  /\ mishaps \in 0..ProbeFaults

WithinCaps(b) ==
  /\ CreditCap > 0 => b.credits <= CreditCap
  /\ FreshCap > 0 => b.fresh <= FreshCap
  /\ RescanCap > 0 => b.rescan <= RescanCap
BudgetsOK ==
  /\ cache \in [Bots -> SUBSET {NameOf[t] : t \in Tokens}]
  /\ budget \in [Bots -> [start : Times, credits : Nat, fresh : Nat, rescan : Nat]]
  /\ \A p \in Bots : WithinCaps(budget[p])

Stages == {"idle", "budget", "defer", "incomplete", "emit", "settle"}
ProbingOK ==
  /\ probing \in [Bots -> [event : raised \union {NoRequest}, at : Stages,
                           flags : SUBSET {"duplicate", "copycat"}]]
  /\ \A p, q \in Bots : probing[p].at # "idle" =>
       /\ probing[p].event \in raised \ answered
       /\ probing[q].at # "idle" /\ probing[q].event = probing[p].event => p = q

\* A row that waits has attempts left.
PendingRow == [status : {"pending", "claimed", "completed", "expired"},
               attempts : 0..MaxAttempts, source : raised, due : Nat, since : Times]
QueueOK ==
  /\ queue \in [DOMAIN queue -> PendingRow]
  /\ \A id \in DOMAIN queue :
       /\ queue[id].status = "pending" => queue[id].attempts < MaxAttempts
       /\ queue[id].source.token = Owner(id)

DrainOK ==
  /\ drain \in [Bots -> [at : {"rest", "expired", "claimed"},
                         rows : SUBSET DOMAIN queue, sent : SUBSET DOMAIN queue]]
  /\ \A p \in Bots : \A id \in drain[p].sent : Returned(id) /\ drain[p].at = "claimed"

\* A claimed row has one drain at most that is to re-emit it. A row that waits has
\* none, and neither of them has been re-emitted.
Held(p, id) == drain[p].at = "claimed" /\ id \in drain[p].rows
HoldersOK ==
  /\ \A e \in raised : e.kind = "probe_pending_retry" => e.row \in DOMAIN queue
  /\ \A id \in DOMAIN queue : queue[id].status = "pending" =>
       ~ Returned(id) /\ \A p \in Bots : ~ Held(p, id)
  /\ \A p, q \in Bots, id \in DOMAIN queue :
       Held(p, id) => ~ Returned(id) /\ (Held(q, id) => p = q)

\* What brings a token back: an event that no worker is about to mark, or a row.
Live == {e \in raised \ answered :
           \A p \in Bots : ~ (probing[p].at = "settle" /\ probing[p].event = e)}
Expiring(id) == \E p \in Bots : drain[p].at = "expired" /\ id \in drain[p].rows
Awaited(id) ==
  \/ queue[id].status = "pending"
  \/ queue[id].status = "claimed" /\ ~ Returned(id)
  \/ Expiring(id)
Brought(t) ==
  \/ \E e \in Live : e.token = t
  \/ \E id \in DOMAIN queue : Owner(id) = t /\ Awaited(id)
AccountKept == \A t \in Tokens : account[t] = "owed" => Brought(t)

ProbesInv ==
  /\ EventsOK /\ BudgetsOK /\ ProbingOK /\ QueueOK /\ DrainOK /\ HoldersOK /\ AccountKept

LEMMA ProbesInitial == ProbesInit => ProbesInv
<1> SUFFICES ASSUME ProbesInit PROVE ProbesInv
  OBVIOUS
<1>0. {MaxClock, ProbeFaults, CreditCap, FreshCap, RescanCap} \subseteq Nat
  BY ProbesAssumption
<1>1. EventsOK
  BY <1>0 DEF ProbesInit, EventsOK, Times
<1>2. BudgetsOK
  BY <1>0 DEF ProbesInit, BudgetsOK, EmptyBudget, Times, WithinCaps
<1>3. ProbingOK
  BY DEF ProbesInit, ProbingOK, NotProbing, Stages
<1>4. QueueOK
  BY DEF ProbesInit, QueueOK
<1>5. DrainOK
  BY DEF ProbesInit, DrainOK, Resting
<1>6. HoldersOK
  BY DEF ProbesInit, HoldersOK
<1>7. AccountKept
  BY DEF ProbesInit, AccountKept
<1> QED BY <1>1, <1>2, <1>3, <1>4, <1>5, <1>6, <1>7 DEF ProbesInv

\* Events and rows are not deleted; what a step does not change stays in order.
LEMMA ProbesFrame ==
  ASSUME ProbesInv, raised \subseteq raised', DOMAIN queue \subseteq DOMAIN queue'
  PROVE  /\ UNCHANGED <<cache, budget>> => BudgetsOK'
         /\ UNCHANGED <<probing, answered>> => ProbingOK'
         /\ UNCHANGED queue => QueueOK'
         /\ UNCHANGED drain => DrainOK'
<1>1. UNCHANGED <<cache, budget>> => BudgetsOK'
  BY DEF ProbesInv, BudgetsOK, WithinCaps
<1>2. UNCHANGED <<probing, answered>> => ProbingOK'
  BY DEF ProbesInv, ProbingOK
<1>3. UNCHANGED queue => QueueOK'
  <2> SUFFICES ASSUME UNCHANGED queue PROVE QueueOK'
    OBVIOUS
  <2>1. QueueOK
    BY DEF ProbesInv
  <2>2. queue' \in [DOMAIN queue' -> PendingRow']
    BY <2>1 DEF QueueOK, PendingRow
  <2> QED BY <2>1, <2>2 DEF QueueOK
<1>4. UNCHANGED drain => DrainOK'
  BY DEF ProbesInv, DrainOK, Returned
<1> QED BY <1>1, <1>2, <1>3, <1>4

\* A step of the stage: neither the rows nor the drains, nor a retry.
LEMMA HoldersFrame ==
  ASSUME ProbesInv, UNCHANGED <<queue, drain>>, raised \subseteq raised',
         \A e \in raised' : e \in raised \/ e.kind # "probe_pending_retry"
  PROVE  /\ HoldersOK'
         /\ \A id \in DOMAIN queue : Awaited(id) => Awaited(id)'
<1>1. \A id : Returned(id)' <=> Returned(id)
  BY DEF Returned, Retry
<1>2. \A p, id : Held(p, id)' <=> Held(p, id)
  BY DEF Held
<1>3. HoldersOK'
  BY <1>1, <1>2 DEF HoldersOK, ProbesInv
<1> QED BY <1>1, <1>3 DEF Awaited, Expiring

\* Who is owed a probe and what brings a token back.
LEMMA AccountFrame ==
  ASSUME ProbesInv, Live \subseteq Live', DOMAIN queue \subseteq DOMAIN queue',
         \A id \in DOMAIN queue : Awaited(id) => Awaited(id)'
  PROVE  /\ \A t \in Tokens : Brought(t) => Brought(t)'
         /\ (\A t \in Tokens : account'[t] = "owed" => account[t] = "owed") => AccountKept'
<1>1. \A t \in Tokens : Brought(t) => Brought(t)'
  BY DEF Brought
<1> QED BY <1>1 DEF AccountKept, ProbesInv

LEMMA LiveFrame ==
  ASSUME ProbesInv, raised \subseteq raised', UNCHANGED answered,
         \A q \in Bots : probing'[q].at = "settle" => probing'[q] = probing[q]
  PROVE  Live \subseteq Live'
BY DEF Live

\* A new event is live.
LEMMA LiveNew ==
  ASSUME ProbesInv, NEW e \in raised', e \notin raised, UNCHANGED <<answered, probing>>
  PROVE  e \in Live'
<1>1. e \notin answered' /\ \A p \in Bots : probing'[p].at = "settle" => probing'[p].event # e
  BY DEF ProbesInv, EventsOK, ProbingOK
<1> QED BY <1>1 DEF Live

-------------------------------------------------------------------------------
(* The probes stage. *)

LEMMA RaiseKeeps ==
  ASSUME ProbesInv, NEW t \in Tokens, Raise(t) PROVE ProbesInv'
<1>1. raised' = raised \union {Root(t)} \/ raised' = raised \union {Rescan(t)}
  BY DEF Raise
<1>2. EventsOK'
  BY <1>1 DEF ProbesInv, EventsOK, Raise, Root, Rescan
<1>3. HoldersOK' /\ \A id \in DOMAIN queue : Awaited(id) => Awaited(id)'
  BY <1>1, HoldersFrame DEF Raise, Root, Rescan
<1>4. AccountKept'
  BY <1>1, <1>3, LiveFrame, AccountFrame DEF Raise
<1> QED BY <1>1, <1>2, <1>3, <1>4, ProbesFrame DEF Raise, ProbesInv

LEMMA TakeKeeps ==
  ASSUME ProbesInv, NEW p \in Bots, Take(p) PROVE ProbesInv'
<1>1. PICK e \in raised, seen \in BOOLEAN :
        /\ cache' = [cache EXCEPT ![p] = @ \union ({NameOf[e.token]} \ {NoName})]
        /\ probing' = [probing EXCEPT ![p] =
             [event |-> e, at |-> IF Flags(p, e.token, seen) = {} THEN "budget" ELSE "emit",
              flags |-> Flags(p, e.token, seen)]]
  BY DEF Take
<1>2. Flags(p, e.token, seen) \subseteq {"duplicate", "copycat"}
  BY DEF Flags
<1>3. BudgetsOK'
  BY <1>1 DEF ProbesInv, BudgetsOK, WithinCaps, Take, EventsOK
<1>4. ProbingOK'
  BY <1>1, <1>2 DEF ProbesInv, ProbingOK, Stages, Take
<1>5. \A q \in Bots : probing'[q].at = "settle" => probing'[q] = probing[q]
  BY <1>1 DEF ProbesInv, ProbingOK
<1>6. EventsOK'
  BY DEF Take, ProbesInv, EventsOK
<1>7. HoldersOK' /\ AccountKept'
  BY <1>5, HoldersFrame, LiveFrame, AccountFrame DEF Take
<1> QED BY <1>3, <1>4, <1>6, <1>7, ProbesFrame DEF Take, ProbesInv

LEMMA WindowOK ==
  ASSUME ProbesInv, NEW p \in Bots
  PROVE  /\ Window(p) \in [start : Times, credits : Nat, fresh : Nat, rescan : Nat]
         /\ WithinCaps(Window(p))
<1>1. CASE clock - budget[p].start >= Hour
  BY <1>1, ProbesAssumption DEF Window, EmptyBudget, WithinCaps, ProbesInv, EventsOK
<1>2. CASE ~ (clock - budget[p].start >= Hour)
  BY <1>2 DEF Window, ProbesInv, BudgetsOK
<1> QED BY <1>1, <1>2

LEMMA SpentOK ==
  ASSUME ProbesInv, NEW p \in Bots, NEW rescan \in BOOLEAN, Affordable(p, rescan)
  PROVE  /\ Spent(p, rescan) \in [start : Times, credits : Nat, fresh : Nat, rescan : Nat]
         /\ WithinCaps(Spent(p, rescan))
<1>1. PICK old : old = Window(p)
  OBVIOUS
<1>2. /\ old \in [start : Times, credits : Nat, fresh : Nat, rescan : Nat]
      /\ WithinCaps(old)
  BY <1>1, WindowOK
<1>3. /\ CreditCap > 0 => old.credits + ProbeCost <= CreditCap
      /\ rescan /\ RescanCap > 0 => old.rescan + 1 <= RescanCap
      /\ ~ rescan /\ FreshCap > 0 => old.fresh + 1 <= FreshCap
  BY <1>1, <1>2, ProbesAssumption DEF Affordable, Below
<1>4. PICK new : new = Spent(p, rescan)
  OBVIOUS
<1>5. /\ new \in [start : Times, credits : Nat, fresh : Nat, rescan : Nat]
      /\ WithinCaps(new)
  <2>1. CASE rescan
    <3>1. new = [start |-> old.start, credits |-> old.credits + ProbeCost,
                 fresh |-> old.fresh, rescan |-> old.rescan + 1]
      BY <1>1, <1>2, <1>4, <2>1 DEF Spent
    <3> QED BY <1>2, <1>3, <2>1, <3>1, ProbesAssumption DEF WithinCaps
  <2>2. CASE ~ rescan
    <3>1. new = [start |-> old.start, credits |-> old.credits + ProbeCost,
                 fresh |-> old.fresh + 1, rescan |-> old.rescan]
      BY <1>1, <1>2, <1>4, <2>2 DEF Spent
    <3> QED BY <1>2, <1>3, <2>2, <3>1, ProbesAssumption DEF WithinCaps
  <2> QED BY <2>1, <2>2
<1> QED BY <1>4, <1>5

LEMMA OthersConsumeKeeps ==
  ASSUME ProbesInv, NEW p \in Bots, OthersConsume(p) PROVE ProbesInv'
<1>1. PICK b \in [start : Times, credits : Nat, fresh : Nat, rescan : Nat] :
        budget' = [budget EXCEPT ![p] = b] /\ WithinCaps(b)
  BY SpentOK DEF OthersConsume
<1>2. BudgetsOK'
  BY <1>1 DEF ProbesInv, BudgetsOK, OthersConsume
<1>3. EventsOK'
  BY DEF OthersConsume, ProbesInv, EventsOK
<1>4. HoldersOK' /\ AccountKept'
  BY HoldersFrame, LiveFrame, AccountFrame DEF OthersConsume
<1> QED BY <1>2, <1>3, <1>4, ProbesFrame DEF OthersConsume, ProbesInv

\* A token that is refused has its event in hand.
LEMMA TryConsumeKeeps ==
  ASSUME ProbesInv, NEW p \in Bots, TryConsume(p) PROVE ProbesInv'
<1> DEFINE e == probing[p].event
           w == Window(p)
           rescan == IsRescan(e)
           spent == Spent(p, rescan)
<1>0. probing[p].at = "budget" /\ e \in raised /\ rescan \in BOOLEAN
  BY DEF TryConsume, Consume, ProbesInv, ProbingOK, IsRescan
<1>1. /\ \/ UNCHANGED budget
         \/ Affordable(p, rescan) /\ budget' = [budget EXCEPT ![p] = spent]
         \/ budget' = [budget EXCEPT ![p] = w]
      /\ \E at \in {"emit", "incomplete", "defer"} : probing' = [probing EXCEPT ![p].at = at]
      /\ UNCHANGED account \/ account' = [account EXCEPT ![e.token] = "owed"]
      /\ UNCHANGED <<clock, raised, answered, enriched, cache, queue, drain, mishaps>>
  BY DEF TryConsume, Consume, Continue
<1>2. ASSUME Affordable(p, rescan)
      PROVE  /\ spent \in [start : Times, credits : Nat, fresh : Nat, rescan : Nat]
             /\ WithinCaps(spent)
  BY <1>0, <1>2, SpentOK
<1>3. BudgetsOK'
  <2>1. CASE UNCHANGED budget
    BY <1>1, <2>1, ProbesFrame
  <2>2. CASE ~ UNCHANGED budget
    <3>1. PICK b \in [start : Times, credits : Nat, fresh : Nat, rescan : Nat] :
            budget' = [budget EXCEPT ![p] = b] /\ WithinCaps(b)
      BY <1>1, <1>2, <2>2, WindowOK
    <3> QED BY <1>1, <3>1 DEF ProbesInv, BudgetsOK
  <2> QED BY <2>1, <2>2
<1>4. ProbingOK'
  <2>1. PICK at \in {"emit", "incomplete", "defer"} : probing' = [probing EXCEPT ![p].at = at]
    BY <1>1
  <2>2. UNCHANGED <<raised, answered>>
    BY <1>1
  <2> QED BY <1>0, <2>1, <2>2 DEF ProbesInv, ProbingOK, Stages
<1>5. \A q \in Bots : probing'[q].at = "settle" => probing'[q] = probing[q]
  BY <1>1 DEF ProbesInv, ProbingOK
<1>6. EventsOK'
  BY <1>0, <1>1 DEF ProbesInv, EventsOK
<1>7. HoldersOK' /\ (\A t \in Tokens : Brought(t) => Brought(t)') /\ Live \subseteq Live'
  BY <1>1, <1>5, HoldersFrame, LiveFrame, AccountFrame
<1>8. e \in Live'
  BY <1>0, <1>1 DEF ProbesInv, ProbingOK, Live
<1>9. AccountKept'
  <2> SUFFICES ASSUME NEW t \in Tokens, account'[t] = "owed" PROVE Brought(t)'
    BY DEF AccountKept
  <2>1. CASE t = e.token
    BY <1>8, <2>1 DEF Brought
  <2>2. CASE t # e.token
    BY <1>1, <1>7, <2>2 DEF ProbesInv, EventsOK, AccountKept
  <2> QED BY <2>1, <2>2
<1> QED BY <1>1, <1>3, <1>4, <1>6, <1>7, <1>9, ProbesFrame DEF ProbesInv

\* A row is put off or renewed for the event it is named after, unless it has
\* been taken up.
LEMMA EnqueueKeeps ==
  ASSUME ProbesInv, NEW id, NEW e \in raised, NEW due \in Nat, Owner(id) = e.token,
         EnqueueProbePending(id, e, due), UNCHANGED <<raised, clock>>
  PROVE  /\ QueueOK' /\ DOMAIN queue' = DOMAIN queue \union {id}
         /\ \A i \in DOMAIN queue : queue'[i].status = queue[i].status
         /\ TakenUp(id) \/ queue'[id].status = "pending"
<1> DEFINE fresh == [status |-> "pending", attempts |-> 0, source |-> e, due |-> due,
                     since |-> clock]
<1>0. QueueOK /\ clock \in Times /\ PendingRow' = PendingRow
  BY DEF ProbesInv, EventsOK, PendingRow
<1>1. CASE id \notin DOMAIN queue
  <2>1. queue' = [i \in DOMAIN queue \union {id} |-> IF i = id THEN fresh ELSE queue[i]]
    BY <1>1 DEF EnqueueProbePending
  <2>2. fresh \in PendingRow /\ fresh.status = "pending" /\ fresh.attempts < MaxAttempts
        /\ fresh.source.token = Owner(id)
    BY <1>0, ProbesAssumption DEF PendingRow
  <2> HIDE DEF fresh
  <2> QED BY <1>0, <1>1, <2>1, <2>2 DEF QueueOK
<1>2. CASE id \in DOMAIN queue /\ queue[id].status = "pending"
  <2>1. queue' = [queue EXCEPT ![id].source = e, ![id].due = due, ![id].since = clock]
    BY <1>2 DEF EnqueueProbePending
  <2>2. PICK row : row = [queue[id] EXCEPT !.source = e, !.due = due, !.since = clock]
    OBVIOUS
  <2>3. /\ DOMAIN queue' = DOMAIN queue
        /\ queue' = [i \in DOMAIN queue |-> IF i = id THEN row ELSE queue[i]]
    BY <2>1, <2>2, <1>2
  <2>4. queue[id] \in PendingRow /\ queue[id].attempts < MaxAttempts
    BY <1>0, <1>2 DEF QueueOK
  <2>5. row \in PendingRow /\ row.status = "pending" /\ row.attempts < MaxAttempts
        /\ row.source.token = Owner(id)
    BY <1>0, <1>2, <2>2, <2>4 DEF PendingRow
  <2> QED BY <1>0, <1>2, <2>3, <2>5 DEF QueueOK
<1>3. CASE id \in DOMAIN queue /\ queue[id].status # "pending"
  <2>1. queue' = queue
    BY <1>3 DEF EnqueueProbePending
  <2> QED BY <1>0, <1>3, <2>1 DEF QueueOK, TakenUp
<1> QED BY <1>1, <1>2, <1>3

\* A row that is new is nobody's and has not been re-emitted.
LEMMA DeferKeeps ==
  ASSUME ProbesInv, NEW p \in Bots, Defer(p) PROVE ProbesInv'
<1> DEFINE e == probing[p].event
           due == NextBoundary(p)
           scoped == probing[p].at = "defer"
           id == IF scoped THEN BudgetId(e.token, due) ELSE EventId(e, due)
           refused == IF scoped THEN {e.token} ELSE {}
<1>1. /\ probing[p].at \in {"defer", "incomplete"}
      /\ probing' = [probing EXCEPT ![p].at = IF scoped THEN "settle" ELSE "emit"]
      /\ \/ /\ EnqueueProbePending(id, e, due)
            /\ WriteOff(IF TakenUp(id) THEN refused ELSE {})
            /\ UNCHANGED mishaps
         \/ /\ mishaps < ProbeFaults /\ mishaps' = mishaps + 1
            /\ WriteOff(refused) /\ UNCHANGED queue
      /\ UNCHANGED <<clock, raised, answered, enriched, cache, budget, drain>>
  BY DEF Defer, Continue
<1>2. e \in raised /\ e.token \in Tokens /\ Owner(id) = e.token
  BY <1>1 DEF ProbesInv, ProbingOK, EventsOK, Owner, BudgetId, EventId
<1>3. due \in Nat
  BY ProbesAssumption DEF NextBoundary, ProbesInv, BudgetsOK, Times
<1>4. ProbingOK'
  BY <1>1 DEF ProbesInv, ProbingOK, Stages
<1>5. /\ account' \in [Tokens -> {"clear", "owed", "written_off"}]
      /\ \A t \in Tokens : account'[t] = "owed" => account[t] = "owed"
      /\ scoped /\ account'[e.token] = "owed" =>
           EnqueueProbePending(id, e, due) /\ ~ TakenUp(id)
  <2> HIDE DEF e, id, due
  <2>1. CASE WriteOff(IF TakenUp(id) THEN refused ELSE {}) /\ EnqueueProbePending(id, e, due)
    BY <1>2, <2>1 DEF WriteOff, ProbesInv, EventsOK
  <2>2. CASE WriteOff(refused)
    BY <1>2, <2>2 DEF WriteOff, ProbesInv, EventsOK
  <2> QED BY <1>1, <2>1, <2>2
<1>6. EventsOK'
  BY <1>1, <1>5, ProbesAssumption DEF ProbesInv, EventsOK
<1>7. /\ QueueOK' /\ DOMAIN queue \subseteq DOMAIN queue'
      /\ DOMAIN queue' \subseteq DOMAIN queue \union {id}
      /\ \A i \in DOMAIN queue : queue'[i].status = queue[i].status
      /\ scoped /\ account'[e.token] = "owed" =>
           id \in DOMAIN queue' /\ queue'[id].status = "pending"
  <2> HIDE DEF id, e, scoped, due, refused
  <2>1. CASE EnqueueProbePending(id, e, due)
    BY <1>1, <1>2, <1>3, <1>5, <2>1, EnqueueKeeps
  <2>2. CASE UNCHANGED queue /\ ~ EnqueueProbePending(id, e, due)
    BY <1>1, <1>5, <2>2, ProbesFrame
  <2> QED BY <1>1, <2>1, <2>2
<1> HIDE DEF id, due
<1>8. BudgetsOK' /\ DrainOK'
  BY <1>1, <1>7, ProbesFrame
<1>9. \A i : (Returned(i)' <=> Returned(i)) /\ \A q : Held(q, i)' <=> Held(q, i)
  BY <1>1 DEF Returned, Held
<1>10. HoldersOK'
  <2>1. \A i : i \notin DOMAIN queue => ~ Returned(i) /\ \A q \in Bots : ~ Held(q, i)
    BY DEF ProbesInv, HoldersOK, DrainOK, Returned, Retry, Held
  <2> QED BY <1>1, <1>7, <1>9, <2>1 DEF ProbesInv, HoldersOK
<1>11. \A i \in DOMAIN queue : Awaited(i) => Awaited(i)'
  BY <1>1, <1>7, <1>9 DEF Awaited, Expiring
<1>12. \A f \in Live : (scoped /\ f = e) \/ f \in Live'
  BY <1>1 DEF Live, ProbesInv, ProbingOK
<1>13. AccountKept'
  <2> SUFFICES ASSUME NEW t \in Tokens, account'[t] = "owed" PROVE Brought(t)'
    BY DEF AccountKept
  <2>1. CASE scoped /\ t = e.token
    BY <1>2, <1>7, <2>1 DEF Brought, Awaited
  <2>2. CASE ~ (scoped /\ t = e.token)
    <3>1. Brought(t)
      BY <1>5 DEF ProbesInv, AccountKept
    <3> QED BY <1>7, <1>11, <1>12, <2>2, <3>1 DEF Brought
  <2> QED BY <2>1, <2>2
<1> QED BY <1>4, <1>6, <1>7, <1>8, <1>10, <1>13 DEF ProbesInv

\* An answer clears the account of its token.
LEMMA EmitEnrichedKeeps ==
  ASSUME ProbesInv, NEW p \in Bots, EmitEnriched(p) PROVE ProbesInv'
<1>1. /\ probing[p].at = "emit" /\ probing' = [probing EXCEPT ![p].at = "settle"]
      /\ account' = [account EXCEPT ![probing[p].event.token] = "clear"]
      /\ UNCHANGED <<clock, raised, answered, cache, budget, queue, drain, mishaps>>
  BY DEF EmitEnriched, Continue
<1>2. PICK e \in raised : e = probing[p].event
  BY <1>1 DEF ProbesInv, ProbingOK
<1>3. \A a \in enriched' \ enriched :
        a.event = e /\ a.flags \subseteq {"duplicate", "copycat"}
  <2>1. CASE enriched' = enriched
    BY <2>1
  <2>2. CASE enriched' = enriched \union {[event |-> e, flags |-> probing[p].flags]}
    <3>1. probing[p].flags \subseteq {"duplicate", "copycat"}
      BY DEF ProbesInv, ProbingOK
    <3>2. PICK new : new = [event |-> e, flags |-> probing[p].flags]
      OBVIOUS
    <3> QED BY <2>2, <3>1, <3>2
  <2> QED BY <1>2, <2>1, <2>2 DEF EmitEnriched
<1>4. EventsOK'
  BY <1>1, <1>2, <1>3 DEF ProbesInv, EventsOK
<1>5. ProbingOK'
  BY <1>1 DEF ProbesInv, ProbingOK, Stages
<1>6. BudgetsOK' /\ QueueOK' /\ DrainOK'
  BY <1>1, ProbesFrame
<1>7. HoldersOK' /\ \A id \in DOMAIN queue : Awaited(id) => Awaited(id)'
  BY <1>1, HoldersFrame
<1>8. \A f \in Live : f = e \/ f \in Live'
  BY <1>1, <1>2 DEF Live, ProbesInv, ProbingOK
<1>9. AccountKept'
  <2> SUFFICES ASSUME NEW t \in Tokens, account'[t] = "owed" PROVE Brought(t)'
    BY DEF AccountKept
  <2>1. t # e.token /\ account[t] = "owed"
    BY <1>1, <1>2 DEF ProbesInv, EventsOK
  <2>2. Brought(t)
    BY <2>1 DEF ProbesInv, AccountKept
  <2> QED BY <1>1, <1>7, <1>8, <2>1, <2>2 DEF Brought
<1> QED BY <1>4, <1>5, <1>6, <1>7, <1>9 DEF ProbesInv

LEMMA SettleRequestKeeps ==
  ASSUME ProbesInv, NEW p \in Bots, SettleRequest(p) PROVE ProbesInv'
<1>1. /\ probing[p].at = "settle" /\ probing' = [probing EXCEPT ![p] = NotProbing]
      /\ answered' = answered \union {probing[p].event}
      /\ UNCHANGED <<clock, raised, enriched, cache, budget, queue, drain, account, mishaps>>
  BY DEF SettleRequest
<1>2. PICK e \in raised : e = probing[p].event
  BY <1>1 DEF ProbesInv, ProbingOK
<1>3. EventsOK'
  BY <1>1, <1>2 DEF ProbesInv, EventsOK
<1>4. ProbingOK'
  BY <1>1 DEF ProbesInv, ProbingOK, Stages, NotProbing
<1>5. BudgetsOK' /\ QueueOK' /\ DrainOK'
  BY <1>1, ProbesFrame
<1>6. HoldersOK' /\ \A id \in DOMAIN queue : Awaited(id) => Awaited(id)'
  BY <1>1, HoldersFrame
<1>7. Live \subseteq Live'
  BY <1>1 DEF Live, ProbesInv, ProbingOK, NotProbing
<1>8. AccountKept'
  BY <1>1, <1>6, <1>7, AccountFrame
<1> QED BY <1>3, <1>4, <1>5, <1>6, <1>8 DEF ProbesInv

LEMMA RequestFailsKeeps ==
  ASSUME ProbesInv, NEW p \in Bots, RequestFails(p) PROVE ProbesInv'
<1>1. ProbingOK'
  BY DEF RequestFails, ProbesInv, ProbingOK, Stages, NotProbing
<1>2. EventsOK'
  BY ProbesAssumption DEF RequestFails, ProbesInv, EventsOK
<1>3. \A q \in Bots : probing'[q].at = "settle" => probing'[q] = probing[q]
  BY DEF RequestFails, ProbesInv, ProbingOK, NotProbing
<1>4. HoldersOK' /\ AccountKept'
  BY <1>3, HoldersFrame, LiveFrame, AccountFrame DEF RequestFails
<1> QED BY <1>1, <1>2, <1>4, ProbesFrame DEF RequestFails, ProbesInv

-------------------------------------------------------------------------------
(* The drain. *)

LEMMA DrainsKeeps ==
  ASSUME ProbesInv, NEW p \in Bots, NEW at \in {"expired", "claimed"},
         NEW rows \in SUBSET DOMAIN queue, NEW sent \in SUBSET DOMAIN queue,
         Drains(p, at, rows, sent), raised \subseteq raised',
         DOMAIN queue' = DOMAIN queue,
         \A id \in sent : Returned(id)' /\ at = "claimed"
  PROVE  /\ DrainOK'
         /\ drain'[p].at = "expired" => at = "expired"
         /\ at = "expired" => drain'[p].at = "expired"
         /\ drain'[p].rows \subseteq rows
         /\ at = "expired" => drain'[p].rows = rows
         /\ \A q \in Bots : q # p => drain'[q] = drain[q]
<1>1. PICK d : /\ drain' = [drain EXCEPT ![p] = d]
               /\ \/ d = Resting /\ at = "claimed"
                  \/ d = [at |-> at, rows |-> rows, sent |-> sent]
  BY DEF Drains
<1>2. /\ d \in [at : {"rest", "expired", "claimed"},
                rows : SUBSET DOMAIN queue, sent : SUBSET DOMAIN queue]
      /\ \A id \in d.sent : Returned(id)' /\ d.at = "claimed"
  BY <1>1 DEF Resting
<1>3. \A id : Returned(id) => Returned(id)'
  BY DEF Returned
<1>4. drain'[p] = d /\ \A q \in Bots : q # p => drain'[q] = drain[q]
  BY <1>1 DEF ProbesInv, DrainOK
<1>5. DrainOK'
  BY <1>1, <1>2, <1>3 DEF ProbesInv, DrainOK
<1> QED BY <1>1, <1>4, <1>5 DEF Resting

\* Rows whose status changes: to pending only with attempts left.
LEMMA RowsKeep ==
  ASSUME ProbesInv, raised \subseteq raised',
         DOMAIN queue' = DOMAIN queue,
         queue' = [id \in DOMAIN queue |-> queue'[id]],
         \A id \in DOMAIN queue :
           /\ queue'[id].source = queue[id].source
           /\ queue'[id] \in PendingRow
           /\ queue'[id].status = "pending" => queue'[id].attempts < MaxAttempts
  PROVE  QueueOK'
<1>1. \A row \in PendingRow : row \in PendingRow'
  BY DEF PendingRow
<1> QED BY <1>1 DEF ProbesInv, QueueOK

LEMMA ExpireStaleKeeps ==
  ASSUME ProbesInv, NEW p \in Bots, ExpireStaleProbePendingRows(p) PROVE ProbesInv'
<1> DEFINE stale == {id \in DOMAIN queue : Stale(id)}
<1>1. /\ queue' = [id \in DOMAIN queue |->
           IF id \in stale THEN [queue[id] EXCEPT !.status = "expired"] ELSE queue[id]]
      /\ Drains(p, "expired", stale, {}) /\ drain[p] = Resting
      /\ UNCHANGED <<clock, raised, answered, enriched, cache, budget, probing, account, mishaps>>
  BY DEF ExpireStaleProbePendingRows
<1>2. DOMAIN queue' = DOMAIN queue /\ queue' = [id \in DOMAIN queue |-> queue'[id]]
  BY <1>1
<1>3. \A id \in DOMAIN queue :
        queue[id] \in PendingRow
        /\ (queue[id].status = "pending" => queue[id].attempts < MaxAttempts)
  BY DEF ProbesInv, QueueOK
<1>4. QueueOK'
  BY <1>1, <1>2, <1>3, RowsKeep DEF PendingRow
<1>5. /\ \A id \in DOMAIN queue : id \notin stale => queue'[id] = queue[id]
      /\ \A id \in stale : queue'[id].status = "expired"
  BY <1>1, <1>3 DEF PendingRow
<1>6. PICK rows \in SUBSET DOMAIN queue : rows = stale
  OBVIOUS
<1> HIDE DEF stale
<1>7. /\ DrainOK' /\ drain'[p].at = "expired" /\ drain'[p].rows = rows
      /\ \A q \in Bots : q # p => drain'[q] = drain[q]
  BY <1>1, <1>2, <1>6, DrainsKeeps
<1>8. \A id : Returned(id)' <=> Returned(id)
  BY <1>1 DEF Returned
<1>9. HoldersOK'
  <2>1. \A q \in Bots, id \in DOMAIN queue : Held(q, id)' => Held(q, id)
    BY <1>7 DEF Held
  <2> QED BY <1>1, <1>2, <1>5, <1>8, <2>1 DEF ProbesInv, HoldersOK
<1>10. \A id \in DOMAIN queue : Awaited(id) => Awaited(id)'
  BY <1>1, <1>5, <1>6, <1>7, <1>8 DEF Awaited, Expiring, Resting
<1>11. AccountKept'
  BY <1>1, <1>2, <1>10, LiveFrame, AccountFrame
<1>12. EventsOK'
  BY <1>1 DEF ProbesInv, EventsOK
<1> QED BY <1>1, <1>2, <1>4, <1>7, <1>9, <1>11, <1>12, ProbesFrame DEF ProbesInv

LEMMA ClaimDueKeeps ==
  ASSUME ProbesInv, NEW p \in Bots, ClaimDueProbePending(p) PROVE ProbesInv'
<1> DEFINE dues == {id \in DOMAIN queue : DueRow(id)}
<1>1. /\ queue' = [id \in DOMAIN queue |->
           IF id \in dues THEN [queue[id] EXCEPT !.status = "claimed", !.attempts = @ + 1]
           ELSE queue[id]]
      /\ Drains(p, "claimed", dues, {}) /\ drain[p].at = "expired" /\ drain[p].rows = {}
      /\ UNCHANGED <<clock, raised, answered, enriched, cache, budget, probing, account, mishaps>>
  BY DEF ClaimDueProbePending
<1>2. DOMAIN queue' = DOMAIN queue /\ queue' = [id \in DOMAIN queue |-> queue'[id]]
  BY <1>1
<1>3. \A id \in DOMAIN queue :
        queue[id] \in PendingRow
        /\ (queue[id].status = "pending" => queue[id].attempts < MaxAttempts)
  BY DEF ProbesInv, QueueOK
<1>4. ASSUME NEW id \in DOMAIN queue
      PROVE  /\ queue'[id].source = queue[id].source
             /\ queue'[id] \in PendingRow
             /\ queue'[id].status = "pending" => queue'[id].attempts < MaxAttempts
             /\ id \in dues => queue[id].status = "pending" /\ queue'[id].status = "claimed"
             /\ id \notin dues => queue'[id] = queue[id]
  <2>1. PICK row \in PendingRow : row = queue[id]
    BY <1>3
  <2>2. CASE id \in dues
    <3>1. row.status = "pending" /\ row.attempts + 1 \in 0..MaxAttempts
      BY <1>3, <2>1, <2>2, ProbesAssumption DEF DueRow, PendingRow
    <3>2. queue'[id] = [row EXCEPT !.status = "claimed", !.attempts = @ + 1]
      BY <1>1, <2>1, <2>2
    <3> QED BY <2>1, <2>2, <3>1, <3>2 DEF PendingRow
  <2>3. CASE id \notin dues
    BY <1>1, <1>3, <2>3
  <2> QED BY <2>2, <2>3
<1>5. QueueOK'
  <2>1. \A id \in DOMAIN queue :
          /\ queue'[id].source = queue[id].source
          /\ queue'[id] \in PendingRow
          /\ queue'[id].status = "pending" => queue'[id].attempts < MaxAttempts
    BY <1>4
  <2>2. raised \subseteq raised'
    BY <1>1
  <2> QED BY <1>2, <2>1, <2>2, RowsKeep
<1>6. PICK rows \in SUBSET DOMAIN queue : rows = dues
  OBVIOUS
<1>7. \A id \in DOMAIN queue :
        /\ id \in rows => queue[id].status = "pending" /\ queue'[id].status = "claimed"
        /\ id \notin rows => queue'[id] = queue[id]
  BY <1>4, <1>6
<1>8. /\ DrainOK' /\ drain'[p].at # "expired" /\ drain'[p].rows \subseteq rows
      /\ \A q \in Bots : q # p => drain'[q] = drain[q]
  BY <1>1, <1>2, <1>6, DrainsKeeps
<1> HIDE DEF dues
<1>9. \A id : Returned(id)' <=> Returned(id)
  BY <1>1 DEF Returned
<1>10. HoldersOK'
  <2>1. \A q \in Bots, id \in DOMAIN queue : Held(q, id)' =>
          \/ q # p /\ Held(q, id)
          \/ q = p /\ id \in rows
    BY <1>8 DEF Held
  <2>2. \A id \in rows : ~ Returned(id) /\ \A q \in Bots : ~ Held(q, id)
    BY <1>7 DEF ProbesInv, HoldersOK
  <2>3. \A q1, q2 \in Bots, id \in DOMAIN queue :
          Held(q1, id)' => ~ Returned(id) /\ (Held(q2, id)' => q1 = q2)
    BY <2>1, <2>2 DEF ProbesInv, HoldersOK
  <2>4. \A id \in DOMAIN queue : queue'[id].status = "pending" =>
          ~ Returned(id) /\ \A q \in Bots : ~ Held(q, id)'
    BY <1>7, <2>1 DEF ProbesInv, HoldersOK
  <2> QED BY <1>1, <1>2, <1>9, <2>3, <2>4 DEF ProbesInv, HoldersOK
<1>11. \A id \in DOMAIN queue : Awaited(id) => Awaited(id)'
  <2>1. \A id \in DOMAIN queue : Expiring(id) => Expiring(id)'
    BY <1>1, <1>8 DEF Expiring
  <2>2. \A id \in rows : ~ Returned(id)
    BY <1>7 DEF ProbesInv, HoldersOK
  <2> QED BY <1>7, <1>9, <2>1, <2>2 DEF Awaited
<1>12. AccountKept'
  BY <1>1, <1>2, <1>11, LiveFrame, AccountFrame
<1>13. EventsOK'
  BY <1>1 DEF ProbesInv, EventsOK
<1> QED BY <1>1, <1>2, <1>5, <1>8, <1>10, <1>12, <1>13, ProbesFrame DEF ProbesInv

\* The last retry of a row is a new event, or its token is written off.
LEMMA ReemitExhaustedKeeps ==
  ASSUME ProbesInv, NEW id \in DOMAIN queue, ReemitExhausted(id),
         UNCHANGED <<clock, answered, enriched, probing>>, mishaps' \in 0..ProbeFaults
  PROVE  /\ EventsOK' /\ raised \subseteq raised'
         /\ \A e \in raised' : e \in raised \/ e.kind # "probe_pending_retry"
         /\ \A t \in Tokens : account'[t] = "owed" => account[t] = "owed"
         /\ account'[Owner(id)] = "owed" => \E e \in Live' : e.token = Owner(id)
<1> DEFINE e == Retry("probe_exhausted_retry", Owner(id), id)
<1>1. /\ Retried("probe_exhausted_retry", id) = e /\ raised' = raised \union {e}
      /\ Owner(id) \in Tokens
      /\ WriteOff(IF e \in raised THEN {Owner(id)} ELSE {})
  BY DEF ReemitExhausted, Retried, Reemit, ProbesInv, QueueOK, PendingRow, EventsOK
<1>2. e.kind = "probe_exhausted_retry" /\ e.token = Owner(id)
  BY DEF Retry
<1> HIDE DEF e
<1>3. /\ account' \in [Tokens -> {"clear", "owed", "written_off"}]
      /\ \A t \in Tokens : account'[t] = "owed" => account[t] = "owed"
      /\ account'[Owner(id)] = "owed" => e \notin raised
  BY <1>1 DEF WriteOff, ProbesInv, EventsOK
<1>4. EventsOK'
  BY <1>1, <1>2, <1>3 DEF ProbesInv, EventsOK, RetryKinds
<1>5. e \notin raised => e \in Live'
  BY <1>1, LiveNew
<1> QED BY <1>1, <1>2, <1>3, <1>4, <1>5

\* What a step on one row does to the other tokens.
LEMMA OthersKept ==
  ASSUME ProbesInv, NEW id \in DOMAIN queue, Live \subseteq Live',
         DOMAIN queue' = DOMAIN queue,
         \A i \in DOMAIN queue : i # id /\ Awaited(i) => Awaited(i)',
         \A t \in Tokens : account'[t] = "owed" => account[t] = "owed",
         account'[Owner(id)] = "owed" =>
           (\E e \in Live' : e.token = Owner(id)) \/ (Awaited(id) => Awaited(id)')
  PROVE  AccountKept'
<1> SUFFICES ASSUME NEW t \in Tokens, account'[t] = "owed" PROVE Brought(t)'
  BY DEF AccountKept
<1>1. Brought(t)
  BY DEF ProbesInv, AccountKept
<1>2. CASE \E e \in Live : e.token = t
  BY <1>2 DEF Brought
<1>3. ASSUME NEW i \in DOMAIN queue, Owner(i) = t, Awaited(i) PROVE Brought(t)'
  BY <1>3 DEF Brought
<1> QED BY <1>1, <1>2, <1>3 DEF Brought

LEMMA EmitExhaustedKeeps ==
  ASSUME ProbesInv, NEW p \in Bots, NEW id \in DOMAIN queue, EmitExhausted(p, id)
  PROVE  ProbesInv'
<1>1. /\ Drains(p, "expired", drain[p].rows \ {id}, {}) /\ drain[p].at = "expired"
      /\ \/ ReemitExhausted(id) /\ UNCHANGED mishaps
         \/ /\ mishaps < ProbeFaults /\ mishaps' = mishaps + 1
            /\ WriteOff({queue[id].source.token}) /\ UNCHANGED raised
      /\ UNCHANGED <<clock, answered, enriched, cache, budget, probing, queue>>
  BY DEF EmitExhausted
<1>2. /\ EventsOK' /\ raised \subseteq raised'
      /\ \A e \in raised' : e \in raised \/ e.kind # "probe_pending_retry"
      /\ \A t \in Tokens : account'[t] = "owed" => account[t] = "owed"
      /\ account'[Owner(id)] = "owed" => \E e \in Live' : e.token = Owner(id)
  <2>1. CASE ReemitExhausted(id) /\ UNCHANGED mishaps
    BY <1>1, <2>1, ReemitExhaustedKeeps DEF ProbesInv, EventsOK
  <2>2. CASE /\ mishaps < ProbeFaults /\ mishaps' = mishaps + 1
             /\ WriteOff({queue[id].source.token}) /\ UNCHANGED raised
    <3>1. queue[id].source.token = Owner(id) /\ Owner(id) \in Tokens
      BY DEF ProbesInv, QueueOK, PendingRow, EventsOK
    <3>2. /\ account' \in [Tokens -> {"clear", "owed", "written_off"}]
          /\ \A t \in Tokens : account'[t] = "owed" => account[t] = "owed"
          /\ account'[Owner(id)] # "owed"
      BY <2>2, <3>1 DEF WriteOff, ProbesInv, EventsOK
    <3> QED BY <1>1, <2>2, <3>2, ProbesAssumption DEF ProbesInv, EventsOK
  <2> QED BY <1>1, <2>1, <2>2
<1>3. PICK rows \in SUBSET DOMAIN queue : rows = drain[p].rows \ {id}
  BY DEF ProbesInv, DrainOK
<1>4. /\ DrainOK' /\ drain'[p].at = "expired" /\ drain'[p].rows = rows
      /\ \A q \in Bots : q # p => drain'[q] = drain[q]
  BY <1>1, <1>2, <1>3, DrainsKeeps
<1>5. \A i : Returned(i)' <=> Returned(i)
  BY <1>2 DEF Returned, Retry
<1>6. HoldersOK'
  <2>1. \A q \in Bots, i \in DOMAIN queue : Held(q, i)' => Held(q, i)
    BY <1>4 DEF Held
  <2> QED BY <1>1, <1>2, <1>5, <2>1 DEF ProbesInv, HoldersOK
<1>7. \A i \in DOMAIN queue : i # id /\ Awaited(i) => Awaited(i)'
  BY <1>1, <1>3, <1>4, <1>5 DEF Awaited, Expiring
<1>8. Live \subseteq Live'
  BY <1>1, <1>2, LiveFrame
<1>9. AccountKept'
  BY <1>1, <1>2, <1>7, <1>8, OthersKept
<1> QED BY <1>1, <1>2, <1>4, <1>6, <1>9, ProbesFrame DEF ProbesInv

\* A row that is held has not been re-emitted: its retry is a new event.
LEMMA EmitPendingKeeps ==
  ASSUME ProbesInv, NEW p \in Bots, NEW id \in DOMAIN queue, EmitPending(p, id)
  PROVE  ProbesInv'
<1>1. /\ UNCHANGED <<clock, answered, enriched, cache, budget, probing>>
      /\ Held(p, id) /\ ~ Returned(id) /\ queue[id].status # "pending"
      /\ \A q \in Bots : q # p => ~ Held(q, id)
  BY DEF EmitPending, Held, ProbesInv, HoldersOK
<1>2. PICK rows \in SUBSET DOMAIN queue : rows = drain[p].rows \ {id}
  BY DEF ProbesInv, DrainOK
<1>3. queue[id].source.token = Owner(id) /\ Owner(id) \in Tokens
  BY DEF ProbesInv, QueueOK, PendingRow, EventsOK
<1>4. CASE /\ Reemit("probe_pending_retry", id)
           /\ Drains(p, "claimed", drain[p].rows \ {id}, {id})
           /\ UNCHANGED <<queue, account, mishaps>>
  <2> DEFINE e == Retry("probe_pending_retry", Owner(id), id)
  <2>1. raised' = raised \union {e} /\ e \notin raised
    BY <1>1, <1>4, <1>3 DEF Reemit, Retried, Returned
  <2>2. e.kind = "probe_pending_retry" /\ e.token = Owner(id) /\ e.row = id
    BY DEF Retry
  <2>3. Returned(id)' /\ \A i : i # id => (Returned(i)' <=> Returned(i))
    BY <2>1 DEF Returned, Retry
  <2> HIDE DEF e
  <2>4. EventsOK'
    BY <1>1, <1>4, <1>3, <2>1, <2>2 DEF ProbesInv, EventsOK, RetryKinds
  <2>5. /\ DrainOK' /\ drain'[p].at # "expired" /\ drain'[p].rows \subseteq rows
        /\ \A q \in Bots : q # p => drain'[q] = drain[q]
    BY <1>4, <1>2, <2>1, <2>3, DrainsKeeps
  <2>6. HoldersOK'
    <3>1. \A q \in Bots, i \in DOMAIN queue : Held(q, i)' => Held(q, i) /\ i # id
      BY <1>1, <1>2, <2>5 DEF Held
    <3> QED BY <1>1, <1>4, <2>1, <2>2, <2>3, <3>1 DEF ProbesInv, HoldersOK
  <2>7. \A i \in DOMAIN queue : i # id /\ Awaited(i) => Awaited(i)'
    BY <1>1, <1>4, <2>3, <2>5 DEF Awaited, Expiring, Held
  <2>8. Live \subseteq Live' /\ e \in Live'
    BY <1>1, <2>1, LiveFrame, LiveNew
  <2>9. AccountKept'
    BY <1>4, <2>2, <2>7, <2>8, OthersKept
  <2> QED BY <1>1, <1>4, <2>1, <2>4, <2>5, <2>6, <2>9, ProbesFrame DEF ProbesInv
<1>5. CASE /\ mishaps < ProbeFaults /\ mishaps' = mishaps + 1
           /\ FailProbePending(id)
           /\ Drains(p, "claimed", drain[p].rows \ {id}, {})
  <2> DEFINE spent == queue[id].attempts >= MaxAttempts
  <2>1. /\ EventsOK' /\ raised \subseteq raised'
        /\ \A e \in raised' : e \in raised \/ e.kind # "probe_pending_retry"
        /\ \A t \in Tokens : account'[t] = "owed" => account[t] = "owed"
        /\ spent /\ account'[Owner(id)] = "owed" => \E e \in Live' : e.token = Owner(id)
    <3>0. mishaps' \in 0..ProbeFaults
      BY <1>5, ProbesAssumption DEF ProbesInv, EventsOK
    <3>1. CASE ReemitExhausted(id)
      BY <1>1, <3>0, <3>1, ReemitExhaustedKeeps
    <3>2. CASE WriteOff(IF spent THEN {Owner(id)} ELSE {}) /\ UNCHANGED raised
      <4>1. /\ account' \in [Tokens -> {"clear", "owed", "written_off"}]
            /\ \A t \in Tokens : account'[t] = "owed" => account[t] = "owed"
            /\ spent => account'[Owner(id)] # "owed"
        BY <1>3, <3>2 DEF WriteOff, ProbesInv, EventsOK
      <4> QED BY <1>1, <3>0, <3>2, <4>1 DEF ProbesInv, EventsOK
    <3> QED BY <1>5, <1>3, <3>1, <3>2 DEF FailProbePending
  <2>2. /\ DOMAIN queue' = DOMAIN queue /\ QueueOK'
        /\ \A i \in DOMAIN queue : i # id => queue'[i] = queue[i]
        /\ ~ spent => queue'[id] = queue[id] \/ queue'[id].status = "pending"
    <3>1. CASE UNCHANGED queue
      BY <1>1, <2>1, <3>1, ProbesFrame
    <3>2. CASE queue' = [queue EXCEPT ![id].status =
                           IF queue[id].attempts >= MaxAttempts THEN "expired" ELSE "pending"]
      <4>1. /\ queue \in [DOMAIN queue -> PendingRow]
            /\ \A i \in DOMAIN queue :
                 queue[i].status = "pending" => queue[i].attempts < MaxAttempts
        BY DEF ProbesInv, QueueOK
      <4>2. queue[id].attempts < MaxAttempts \/ queue[id].attempts >= MaxAttempts
        BY <4>1, ProbesAssumption DEF PendingRow
      <4>3. /\ DOMAIN queue' = DOMAIN queue /\ queue' = [i \in DOMAIN queue |-> queue'[i]]
            /\ \A i \in DOMAIN queue :
                 /\ queue'[i].source = queue[i].source
                 /\ queue'[i] \in PendingRow
                 /\ queue'[i].status = "pending" => queue'[i].attempts < MaxAttempts
            /\ \A i \in DOMAIN queue : i # id => queue'[i] = queue[i]
            /\ ~ spent => queue'[id].status = "pending"
        BY <3>2, <4>1, <4>2 DEF PendingRow
      <4> QED BY <2>1, <4>3, RowsKeep
    <3> QED BY <1>5, <3>1, <3>2 DEF FailProbePending
  <2>3. /\ DrainOK' /\ drain'[p].at # "expired" /\ drain'[p].rows \subseteq rows
        /\ \A q \in Bots : q # p => drain'[q] = drain[q]
    <3>1. raised \subseteq raised' /\ DOMAIN queue' = DOMAIN queue
      BY <2>1, <2>2
    <3>2. Drains(p, "claimed", rows, {})
      BY <1>5, <1>2
    <3> QED BY <3>1, <3>2, DrainsKeeps
  <2>4. \A i : Returned(i)' <=> Returned(i)
    BY <2>1 DEF Returned, Retry
  <2>5. HoldersOK'
    <3>1. \A q \in Bots, i \in DOMAIN queue : Held(q, i)' => Held(q, i) /\ i # id
      BY <1>1, <1>2, <2>3 DEF Held
    <3> QED BY <1>1, <2>1, <2>2, <2>4, <3>1 DEF ProbesInv, HoldersOK
  <2>6. \A i \in DOMAIN queue : Expiring(i) => Expiring(i)'
    BY <1>1, <2>3 DEF Expiring, Held
  <2>7. /\ \A i \in DOMAIN queue : i # id /\ Awaited(i) => Awaited(i)'
        /\ ~ spent /\ Awaited(id) => Awaited(id)'
    BY <2>2, <2>4, <2>6 DEF Awaited
  <2>8. Live \subseteq Live'
    BY <1>1, <2>1, LiveFrame
  <2> HIDE DEF spent
  <2>9. AccountKept'
    BY <2>1, <2>2, <2>7, <2>8, OthersKept
  <2> QED BY <1>1, <2>1, <2>2, <2>3, <2>5, <2>9, ProbesFrame DEF ProbesInv
<1> QED BY <1>4, <1>5 DEF EmitPending

LEMMA CompleteKeeps ==
  ASSUME ProbesInv, NEW p \in Bots, NEW id \in DOMAIN queue, CompleteProbePending(p, id)
  PROVE  ProbesInv'
<1>1. /\ Returned(id) /\ drain[p].rows \in SUBSET DOMAIN queue /\ drain[p].at = "claimed"
      /\ UNCHANGED <<clock, raised, answered, enriched, cache, budget, probing, account>>
      /\ Drains(p, "claimed", drain[p].rows, {})
  BY DEF CompleteProbePending, ProbesInv, DrainOK
<1>2. EventsOK'
  BY <1>1, ProbesAssumption DEF CompleteProbePending, ProbesInv, EventsOK
<1>3. /\ DOMAIN queue' = DOMAIN queue /\ QueueOK'
      /\ \A i \in DOMAIN queue : i # id => queue'[i] = queue[i]
      /\ queue'[id] = queue[id] \/ queue'[id].status = "completed"
  <2>1. CASE UNCHANGED queue
    BY <1>1, <2>1, ProbesFrame
  <2>2. CASE queue' = [queue EXCEPT ![id].status = "completed"]
    <3>1. /\ queue \in [DOMAIN queue -> PendingRow]
          /\ \A i \in DOMAIN queue :
               queue[i].status = "pending" => queue[i].attempts < MaxAttempts
      BY DEF ProbesInv, QueueOK
    <3>2. /\ DOMAIN queue' = DOMAIN queue /\ queue' = [i \in DOMAIN queue |-> queue'[i]]
          /\ \A i \in DOMAIN queue :
               /\ queue'[i].source = queue[i].source
               /\ queue'[i] \in PendingRow
               /\ queue'[i].status = "pending" => queue'[i].attempts < MaxAttempts
          /\ \A i \in DOMAIN queue : i # id => queue'[i] = queue[i]
          /\ queue'[id].status = "completed"
      BY <2>2, <3>1 DEF PendingRow
    <3> QED BY <1>1, <3>2, RowsKeep
  <2> QED BY <2>1, <2>2 DEF CompleteProbePending
<1>4. /\ DrainOK' /\ drain'[p].at # "expired" /\ drain'[p].rows \subseteq drain[p].rows
      /\ \A q \in Bots : q # p => drain'[q] = drain[q]
  BY <1>1, <1>3, DrainsKeeps
<1>5. \A i : Returned(i)' <=> Returned(i)
  BY <1>1 DEF Returned
<1>6. HoldersOK'
  <2>1. \A q \in Bots, i \in DOMAIN queue : Held(q, i)' => Held(q, i)
    BY <1>1, <1>4 DEF Held
  <2> QED BY <1>1, <1>3, <1>5, <2>1 DEF ProbesInv, HoldersOK
<1>7. \A i \in DOMAIN queue : Awaited(i) => Awaited(i)'
  <2>1. \A i \in DOMAIN queue : Expiring(i) => Expiring(i)'
    BY <1>1, <1>4 DEF Expiring
  <2>2. queue[id].status # "pending"
    BY <1>1 DEF ProbesInv, HoldersOK
  <2> QED BY <1>1, <1>3, <1>5, <2>1, <2>2 DEF Awaited
<1>8. AccountKept'
  BY <1>1, <1>3, <1>7, LiveFrame, AccountFrame
<1> QED BY <1>1, <1>2, <1>3, <1>4, <1>6, <1>8, ProbesFrame DEF ProbesInv

-------------------------------------------------------------------------------
(* The clock and the process. *)

LEMMA StopBotKeeps ==
  ASSUME ProbesInv, NEW p \in Bots, StopBot(p) PROVE ProbesInv'
<1> DEFINE lost == IF drain[p].at = "expired"
                   THEN {queue[id].source.token : id \in drain[p].rows} ELSE {}
<1>1. /\ account' = [t \in Tokens |-> IF t \in lost THEN "written_off" ELSE account[t]]
      /\ drain' = [drain EXCEPT ![p] = Resting]
      /\ UNCHANGED <<clock, raised, answered, enriched, queue>>
  BY DEF StopBot, WriteOff
<1>2. \A i \in DOMAIN queue : drain[p].at = "expired" /\ i \in drain[p].rows => Owner(i) \in lost
  BY DEF ProbesInv, QueueOK
<1> HIDE DEF lost
<1>3. /\ account' \in [Tokens -> {"clear", "owed", "written_off"}]
      /\ \A t \in Tokens : account'[t] = "owed" => account[t] = "owed" /\ t \notin lost
  BY <1>1 DEF ProbesInv, EventsOK
<1>4. EventsOK'
  BY <1>1, <1>3, ProbesAssumption DEF StopBot, ProbesInv, EventsOK
<1>5. BudgetsOK'
  BY ProbesAssumption DEF StopBot, ProbesInv, EventsOK, BudgetsOK, EmptyBudget, WithinCaps
<1>6. ProbingOK'
  BY DEF StopBot, ProbesInv, ProbingOK, Stages, NotProbing
<1>7. DrainOK'
  BY DEF StopBot, ProbesInv, DrainOK, Resting, Returned
<1>8. \A q \in Bots : drain'[q] = Resting \/ drain'[q] = drain[q]
  BY <1>1 DEF ProbesInv, DrainOK
<1>9. \A i : Returned(i)' <=> Returned(i)
  BY <1>1 DEF Returned
<1>10. HoldersOK'
  <2>1. \A q \in Bots, i \in DOMAIN queue : Held(q, i)' => Held(q, i)
    BY <1>8 DEF Held, Resting
  <2> QED BY <1>1, <1>9, <2>1 DEF ProbesInv, HoldersOK
<1>11. \A i \in DOMAIN queue : Awaited(i) => Awaited(i)' \/ Owner(i) \in lost
  <2>1. \A q \in Bots : q # p => drain'[q] = drain[q]
    BY <1>1 DEF ProbesInv, DrainOK
  <2>2. \A i \in DOMAIN queue : Expiring(i) => Expiring(i)' \/ Owner(i) \in lost
    BY <1>2, <2>1 DEF Expiring
  <2> QED BY <1>1, <1>9, <2>2 DEF Awaited
<1>12. \A q \in Bots : probing'[q].at = "settle" => probing'[q] = probing[q]
  BY DEF StopBot, ProbesInv, ProbingOK, NotProbing
<1>13. Live \subseteq Live'
  BY <1>1, <1>12, LiveFrame
<1>14. AccountKept'
  <2> SUFFICES ASSUME NEW t \in Tokens, account'[t] = "owed" PROVE Brought(t)'
    BY DEF AccountKept
  <2>1. Brought(t) /\ t \notin lost
    BY <1>3 DEF ProbesInv, AccountKept
  <2> QED BY <1>1, <1>11, <1>13, <2>1 DEF Brought
<1> QED BY <1>1, <1>4, <1>5, <1>6, <1>7, <1>10, <1>14, ProbesFrame DEF ProbesInv

LEMMA PassTimeKeeps == ASSUME ProbesInv, PassTime PROVE ProbesInv'
<1>1. EventsOK'
  BY ProbesAssumption DEF PassTime, ProbesInv, EventsOK, Times
<1>2. HoldersOK' /\ AccountKept'
  BY HoldersFrame, LiveFrame, AccountFrame DEF PassTime
<1> QED BY <1>1, <1>2, ProbesFrame DEF PassTime, ProbesInv

LEMMA ProbesStep == ProbesInv /\ [ProbesNext]_probesVars => ProbesInv'
<1> SUFFICES ASSUME ProbesInv, [ProbesNext]_probesVars PROVE ProbesInv'
  OBVIOUS
<1>1. CASE UNCHANGED probesVars
  <2>1. EventsOK'
    BY <1>1 DEF probesVars, ProbesInv, EventsOK
  <2>2. HoldersOK' /\ AccountKept'
    BY <1>1, HoldersFrame, LiveFrame, AccountFrame DEF probesVars
  <2> QED BY <1>1, <2>1, <2>2, ProbesFrame DEF probesVars, ProbesInv
<1>2. CASE \E t \in Tokens : Raise(t)
  BY <1>2, RaiseKeeps
<1>3. ASSUME NEW p \in Bots, ProbeStep(p) \/ OthersConsume(p) \/ RequestFails(p)
      PROVE  ProbesInv'
  BY <1>3, OthersConsumeKeeps, TakeKeeps, TryConsumeKeeps, DeferKeeps, EmitEnrichedKeeps, SettleRequestKeeps,
     RequestFailsKeeps DEF ProbeStep
<1>4. ASSUME NEW p \in Bots, DrainStep(p) PROVE ProbesInv'
  <2>1. drain[p].rows \union drain[p].sent \subseteq DOMAIN queue
    BY DEF ProbesInv, DrainOK
  <2> QED BY <1>4, <2>1, ExpireStaleKeeps, ClaimDueKeeps, EmitExhaustedKeeps, EmitPendingKeeps,
             CompleteKeeps DEF DrainStep
<1>5. CASE \E p \in Bots : StopBot(p)
  BY <1>5, StopBotKeeps
<1>6. CASE PassTime
  BY <1>6, PassTimeKeeps
<1> QED BY <1>1, <1>2, <1>3, <1>4, <1>5, <1>6 DEF ProbesNext

LEMMA ProbesInvImplies == ProbesInv => ProbesTypeOK /\ NoDeferralForgotten
<1> SUFFICES ASSUME ProbesInv PROVE ProbesTypeOK /\ NoDeferralForgotten
  OBVIOUS
<1>1. ASSUME NEW p \in Bots
      PROVE  /\ cache[p] \subseteq {NameOf[t] : t \in Tokens}
             /\ budget[p].start \in Times
             /\ CreditCap > 0 => budget[p].credits \in 0..CreditCap
             /\ FreshCap > 0 => budget[p].fresh \in 0..FreshCap
             /\ RescanCap > 0 => budget[p].rescan \in 0..RescanCap
             /\ probing[p].at # "idle" => probing[p].event \in raised
             /\ drain[p].rows \union drain[p].sent \subseteq DOMAIN queue
  <2>1. budget[p] \in [start : Times, credits : Nat, fresh : Nat, rescan : Nat]
        /\ WithinCaps(budget[p]) /\ cache[p] \subseteq {NameOf[t] : t \in Tokens}
    BY DEF ProbesInv, BudgetsOK
  <2>2. /\ CreditCap > 0 => budget[p].credits \in 0..CreditCap
        /\ FreshCap > 0 => budget[p].fresh \in 0..FreshCap
        /\ RescanCap > 0 => budget[p].rescan \in 0..RescanCap
    BY <2>1, ProbesAssumption DEF WithinCaps
  <2> QED BY <2>1, <2>2 DEF ProbesInv, ProbingOK, DrainOK
<1>2. ProbesTypeOK
  BY <1>1 DEF ProbesInv, EventsOK, QueueOK, PendingRow, ProbesTypeOK
<1>3. \A id \in DOMAIN queue :
        /\ queue[id].source.token = Owner(id)
        /\ Outstanding(id) <=> Awaited(id)
  BY DEF ProbesInv, QueueOK, Outstanding, Awaited, Expiring, Retried, Returned
<1>4. NoDeferralForgotten
  <2> SUFFICES ASSUME NEW t \in Tokens, account[t] = "owed"
               PROVE  \/ \E e \in raised \ answered : e.token = t
                      \/ \E id \in DOMAIN queue :
                           queue[id].source.token = t /\ Outstanding(id)
    BY DEF NoDeferralForgotten
  <2>1. Brought(t)
    BY DEF ProbesInv, AccountKept
  <2> QED BY <1>3, <2>1 DEF Brought, Live
<1> QED BY <1>2, <1>4

\* The queue, the budgets and the workers are well formed: no budget passes a
\* cap and no row its attempts (probe_budget.go, probe_pending.go).
THEOREM ProbesTypeCorrect == ProbesSpec => []ProbesTypeOK
<1>1. ProbesInv => ProbesTypeOK
  BY ProbesInvImplies
<1> QED BY ProbesInitial, ProbesStep, <1>1, PTL DEF ProbesSpec

\* A token that is refused a probe is not forgotten, for any caps, processes and
\* clocks: something brings it back unless it is written off, by a failed
\* statement, a stop after an expiry, or a row of its hour that had been taken up
\* (run_market_probes.go, run_probe_pending.go).
THEOREM DeferredTokensKept == ProbesSpec => []NoDeferralForgotten
<1>1. ProbesInv => NoDeferralForgotten
  BY ProbesInvImplies
<1> QED BY ProbesInitial, ProbesStep, <1>1, PTL DEF ProbesSpec

-------------------------------------------------------------------------------
(* The two of them. *)

LEMMA UpkeepParts == UpkeepSpec => ProbesSpec /\ VersionsSpec
<1>1. UpkeepInit => ProbesInit /\ VersionsInit
  BY DEF UpkeepInit
<1>2. [UpkeepNext]_upkeepVars => [ProbesNext]_probesVars /\ [VersionsNext]_versionsVars
  BY DEF UpkeepNext, upkeepVars
<1> QED BY <1>1, <1>2, PTL DEF UpkeepSpec, ProbesSpec, VersionsSpec

\* Whichever of the two runs, all variables keep their types.
THEOREM UpkeepTypeCorrect == UpkeepSpec => []UpkeepTypeOK
<1>1. ProbesTypeOK /\ VersionsTypeOK => UpkeepTypeOK
  BY DEF UpkeepTypeOK
<1> QED BY <1>1, UpkeepParts, ProbesTypeCorrect, VersionsTypeCorrect, PTL
=============================================================================
