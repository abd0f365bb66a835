------------------------------- MODULE MCTrade -------------------------------
(***************************************************************************)
(* Instances for TLC of Trade, of Pricing and of Submission.  Pricing      *)
(* shares nothing with Trade, which leaves open what its exits are decided *)
(* by; Submission looks into one step of Trade, whose outcomes Trade       *)
(* leaves open as well.  A behaviour is a behaviour of one of them, the    *)
(* others stay as they are; the two executors of Submission, which share   *)
(* no wallet, have services of their own.  The workers run every stage, as *)
(* the goroutines of two bot processes do; nothing tells them apart.       *)
(***************************************************************************)
EXTENDS Trade, Pricing, Submission, TLC

CONSTANTS o1, o2, Crew

VARIABLE service  \* the one that runs

deskVars == <<service, vars, pricingVars, submissionVars>>

ProcessesAreAlike == Permutations(Workers) \union Permutations(Pollers)

MCTiers == {[trigger |-> 3, trail |-> 1]}

\* A wallet for each executor.
MCWalletOf == [o \in SubmittedOrders |-> IF o \in SolanaOrders THEN "solana" ELSE "evm"]

Runs(name) == service = name /\ UNCHANGED service

DeskInit ==
  /\ service \in {"trade", "pricing", "solana", "evm"}
  /\ Init /\ PricingInit /\ SubmissionInit
  /\ service # "pricing" => feed = "usd" /\ account = "foreign"

SubmissionOf(orders) ==
  SubmissionNext /\ \A o \in SubmittedOrders \ orders : order'[o] = order[o]

\* Once a fault has happened at most Crew goroutines are at work at a time. With
\* three callers of one cache, the second of the others has nothing to add. Another
\* position in the list only takes time: once the position is open, that of the calls
\* of others is not mixed with it. A closed one is not followed much past its time.
DeskNext ==
  \/ /\ Runs("trade") /\ Next /\ UNCHANGED <<pricingVars, submissionVars>>
     /\ faults' > 0 => Cardinality({p \in Procs : pc'[p] # "idle"}) <= Crew
  \/ /\ Runs("pricing") /\ PricingNext /\ UNCHANGED <<vars, submissionVars>>
     /\ feed = "pool" => asked'[o2].at = "idle"
     /\ position'.status = "open" /\ (cycle'.others > 0 \/ asked'[Poll].at = "other")
          => asked'[o1].at = "idle"
     /\ cycle'.others < MaxListed /\ (exits' # {} => position'.age <= MaxHold + 1)
  \/ /\ \/ Runs("solana") /\ SubmissionOf(SolanaOrders)
        \/ Runs("evm") /\ SubmissionOf(EvmOrders)
     /\ UNCHANGED <<vars, pricingVars>>

DeskSpec == DeskInit /\ [][DeskNext]_deskVars

DeskTypeOK == TypeOK /\ PricingTypeOK /\ SubmissionTypeOK
==============================================================================
