------------------------------ MODULE MCUpkeep ------------------------------
(***************************************************************************)
(* The queue of the probes and the strategy versions, which share nothing: *)
(* a behaviour is a behaviour of one of them, the other stays as it is.    *)
(* The probes meet one token, with or without a name.                      *)
(***************************************************************************)
EXTENDS Probes, Versions

CONSTANTS t1, t2, moon

VARIABLE service  \* the one that runs

upkeepVars == <<service, probesVars, versionsVars>>

\* The rescans of a token with a name find it taken.
Names == [t \in Tokens |-> IF t = t1 THEN moon ELSE NoName]

UpkeepInit == service \in {"probes", "versions"} /\ ProbesInit /\ VersionsInit

Nameless(events) == \A e \in events : NameOf[e.token] = NoName

Runs(name) == service = name /\ UNCHANGED service

UpkeepNext ==
  \/ /\ Runs("probes") /\ ProbesNext /\ UNCHANGED versionsVars
     /\ \A e, f \in raised' : e.token = f.token
     /\ \A t \in Tokens : Raise(t) => clock < Hour
     /\ \A p \in Bots : OthersConsume(p) => probing[p] = NotProbing /\ Nameless(raised)
  \/ Runs("versions") /\ VersionsNext /\ UNCHANGED probesVars

\* The fairness of the probes, while they are what runs.
UpkeepFairness ==
  /\ \A p \in Bots : /\ WF_probesVars(service = "probes" /\ ProbeStep(p))
                     /\ WF_probesVars(service = "probes" /\ DrainStep(p))
  /\ WF_probesVars(service = "probes" /\ PassTime)

UpkeepSpec == UpkeepInit /\ [][UpkeepNext]_upkeepVars /\ UpkeepFairness

UpkeepTypeOK == ProbesTypeOK /\ VersionsTypeOK
=============================================================================
