------------------------------ MODULE MCIntake ------------------------------
(***************************************************************************)
(* Ingestion, the market data of a token and the baselines, which share    *)
(* nothing: a behaviour is a behaviour of one of them, the others stay as  *)
(* they are.  Of ingestion it is one of the webhooks with the recovery of  *)
(* their gaps, or one of the first slot, in which only a family that is    *)
(* followed launches: two families meet nowhere.                           *)
(***************************************************************************)
EXTENDS Ingestion, MCMarket, Baselines

CONSTANTS l1, l2, l3, l4, amm, clmm, wsol

VARIABLE service  \* the one that runs

intakeVars == <<service, ingestionVars, marketVars, baselinesVars>>

\* A webhook family with two launches, the later ones, and one whose transactions
\* are fetched.
LaunchTable == [l \in Launches |->
  CASE l = l1 -> [slot |-> 2, place |-> 1, family |-> amm, base |-> wsol, quote |-> "p1",
                  creator |-> "factory", serial |-> TRUE]
    [] l = l2 -> [slot |-> 3, place |-> 1, family |-> amm, base |-> "p2", quote |-> wsol,
                  creator |-> "", serial |-> FALSE]
    [] l = l3 -> [slot |-> 1, place |-> 1, family |-> clmm, base |-> wsol, quote |-> "p3",
                  creator |-> "wallet", serial |-> TRUE]
    [] OTHER  -> [slot |-> 1, place |-> 1, family |-> clmm, base |-> "p4", quote |-> wsol,
                  creator |-> "", serial |-> FALSE]]

Routes == [f \in Families |-> IF f = amm THEN "webhook" ELSE "fetch"]

IntakeInit ==
  /\ service \in {"webhooks", "followed", "market", "baselines"}
  /\ IngestionInit /\ MarketInit /\ BaselinesInit
  /\ service # "market" => truth = Honest("PumpFunCreate")

Runs(name) == service = name /\ UNCHANGED service

\* Nobody hears of these launches.
Lost(L) == \A l \in L : notice'[l] \in {"ahead", "over"}

IntakeNext ==
  \/ /\ Runs("webhooks") /\ IngestionNext /\ UNCHANGED <<marketVars, baselinesVars>>
     /\ Lost({l \in Launches : FamilyOf(l) \notin Webhooks})
  \/ /\ Runs("followed") /\ IngestionNext /\ UNCHANGED <<marketVars, baselinesVars>>
     /\ slot' = 1
  \/ /\ Runs("market") /\ MarketNext /\ UNCHANGED <<ingestionVars, baselinesVars>>
     /\ passes' > 1 => truth \in Returning
  \/ Runs("baselines") /\ BaselinesNext /\ UNCHANGED <<ingestionVars, marketVars>>

\* The fairness of each, while it is what runs.
IntakeFairness ==
  /\ \A f \in Webhooks : WF_ingestionVars(service = "webhooks" /\ GapStep(f))
  /\ WF_baselinesVars(service = "baselines" /\ FlushStep)

IntakeSpec == IntakeInit /\ [][IntakeNext]_intakeVars /\ IntakeFairness

IntakeTypeOK == IngestionTypeOK /\ MarketTypeOK /\ BaselinesTypeOK
=============================================================================
