----------------------------- MODULE MCDelivery -----------------------------
(***************************************************************************)
(* The bus, whose stages may outlive their claims, and the RPC client,     *)
(* which share nothing: a behaviour is a behaviour of one of them, the     *)
(* other stays as it is.                                                   *)
(***************************************************************************)
EXTENDS MCEventBus, Endpoints

VARIABLE service  \* the one that runs

deliveryVars == <<service, vars, endpointsVars>>

\* Only what runs is tried at every start it may have.
DeliveryInit ==
  /\ service \in {"bus", "subscriptions", "calls"}
  /\ Init /\ EndpointsInit
  /\ service # "subscriptions" => \A p \in Programs : program[p] = NotRunning
  /\ service = "bus" => \A s \in Slot : health[s] = "serves"

Runs(name) == service = name /\ UNCHANGED service

DeliveryNext ==
  \/ Runs("bus") /\ Next /\ UNCHANGED endpointsVars
  \/ Runs("subscriptions") /\ SubscriptionsNext /\ UNCHANGED vars
  \/ Runs("calls") /\ CallsNext /\ UNCHANGED vars

\* The fairness of the bus and of the client, each while it is what runs.
DeliveryFairness ==
  /\ \A w \in Workers : WF_vars(service = "bus" /\ WorkerStep(w))
  /\ \A e \in Events : WF_vars(service = "bus" /\ ClaimExpires(e))
  /\ \A p \in Programs : WF_endpointsVars(service = "subscriptions" /\ LoopStep(p))
  /\ WF_endpointsVars(service = "subscriptions" /\ CooldownEnds)
  /\ \A c \in Callers : WF_endpointsVars(service = "calls" /\ CallStep(c))
  /\ WF_endpointsVars(service = "calls" /\ Tick)

DeliverySpec == DeliveryInit /\ [][DeliveryNext]_deliveryVars /\ DeliveryFairness
=============================================================================
