------------------------------ MODULE Endpoints ------------------------------
(***************************************************************************)
(* The Solana RPC client and those who keep it connected: the endpoints a  *)
(* subscription is opened at, the rotation between them, and the calls     *)
(* (internal/rpc: solana_rpc.go, solana_dialect.go, solana_exec.go, ws.go; *)
(* runProgramLoop and runSubscribeLoop of ingestion_solana.go).            *)
(*                                                                         *)
(* The endpoints of one client are the slots 0..Slots-1; it has as many    *)
(* for subscriptions as for calls.  An endpoint is a Condition: what it    *)
(* answers for as long as the run takes, and every combination is tried.   *)
(* The programs share wsIdx, the cooldowns and the failure counts, and     *)
(* work on them without a lock.                                            *)
(***************************************************************************)
EXTENDS Integers, SequencesExt

CONSTANTS
  Slots,          \* endpoints of each kind
  Programs,       \* programs that may be configured
  Callers,        \* goroutines that call over HTTP
  FailThreshold,  \* consecutive_ws_failures_threshold
  Room,           \* places in the channel of a subscription
  MaxTries        \* bound: attempts of a program that nextDelay tells apart

ASSUME EndpointsAssumption ==
  /\ {Slots, FailThreshold, Room, MaxTries} \subseteq Nat \ {0}

\* "refuses": the dial fails.  "drops": it is cut before the subscription is
\* answered.  "limits": HTTP 429, or a code that IsRateLimited knows.
Conditions == {"serves", "refuses", "drops", "limits"}

VARIABLES
  health,      \* the condition of each endpoint
  wsIdx,       \* the endpoint that is tried first
  cooling,     \* the endpoints in cooldown, the one that ends soonest first
  wsFails,     \* wsFailCounts
  program,     \* the loop of each program
  httpIdx,     \* httpIdx modulo the endpoints
  caller,      \* the call of each caller
  ticket       \* a tick of txRateLimiter lies ready

subscriptionVars == <<wsIdx, cooling, wsFails, program>>
callVars == <<httpIdx, caller, ticket>>
endpointsVars == <<health, subscriptionVars, callVars>>

Slot == 0..Slots - 1

\* wsIdx counts up for good and is used modulo the endpoints, but recordWSEOFFailure
\* compares it with a slot. From Slots on only the remainder matters.
Index == 0..2 * Slots - 1
Advance(i) == IF i + 1 = 2 * Slots THEN Slots ELSE i + 1

\* What an answer without a value means: there is no such record, an empty list, or
\* the blank value of the type.
Nullable == {"getTransaction", "getAccountInfo", "getAsset", "getSignatureStatuses"}
Lists == {"getMultipleAccounts", "getTokenLargestAccounts", "getSignaturesForAddress"}
Blanks == {"getLatestBlockhash", "getSlot", "sendTransaction"}

\* A supply that is no number is an error, an account that is none counts as zero.
Sums == {"getTokenSupply", "getProgramAccounts"}
Methods == Nullable \union Lists \union Blanks \union Sums

\* NotRunning: disabled, or the process is stopped. The others are in the backoff of their
\* loop, dialling, about to count a failure or to rotate after it, or reading.
NoSlot == -1
NotRunning == [at |-> "off", slot |-> NoSlot, tries |-> 0, queue |-> 0]
Idle == [at |-> "idle", slot |-> 0, result |-> "none"]

EndpointsTypeOK ==
  /\ health \in [Slot -> Conditions]
  /\ wsIdx \in Index
  /\ \A i \in 1..Len(cooling) : cooling[i] \in Slot
  /\ wsFails \in [Slot -> 0..FailThreshold]
  /\ \A p \in Programs :
       program[p] \in [at : {"off", "rest", "dial", "count", "promote", "rotate", "read"},
                       slot : Slot \union {NoSlot}, tries : 0..MaxTries, queue : 0..Room]
  /\ httpIdx \in Slot
  /\ \A c \in Callers :
       caller[c] \in [at : Methods \union {"idle"}, slot : Slot,
                      result : {"none", "value", "blank", "error"}]
  /\ ticket \in BOOLEAN

\* NewSolanaClient and Start: a disabled program, or one with a webhook, has no loop.
EndpointsInit ==
  /\ health \in [Slot -> Conditions]
  /\ wsIdx = 0 /\ httpIdx = 0
  /\ cooling = <<>>
  /\ wsFails = [s \in Slot |-> 0]
  /\ program \in [Programs -> {NotRunning, [NotRunning EXCEPT !.at = "rest"]}]
  /\ caller = [c \in Callers |-> Idle]
  /\ ticket = FALSE

-------------------------------------------------------------------------------
(* The choice of an endpoint. *)

Cooled(s) == s \in {cooling[i] : i \in 1..Len(cooling)}

\* The first endpoint from wsIdx on that is not in cooldown, or the one whose
\* cooldown ends soonest.
ActiveWSEntry ==
  IF \A s \in Slot : Cooled(s) THEN Head(cooling)
  ELSE LET free == {i \in Slot : ~ Cooled((wsIdx + i) % Slots)}
       IN  (wsIdx + CHOOSE i \in free : \A j \in free : i <= j) % Slots

\* A cooldown that is renewed ends last.
MarkWSRateLimited(s) == cooling' = Append(Remove(cooling, s), s)

ResetWSFailCount(s) == wsFails' = [wsFails EXCEPT ![s] = 0]

-------------------------------------------------------------------------------
(* The loop of a program. *)

Step(p, at) == program' = [program EXCEPT ![p].at = at]

\* runProgramLoop: an attempt has failed or a subscription has ended. Only the end
\* of the process leaves runSubscribeLoop without an error: tries never goes back.
Fail(p) ==
  program' = [program EXCEPT
    ![p] = [@ EXCEPT !.at = "rest", !.queue = 0,
                     !.tries = IF @ < MaxTries THEN @ + 1 ELSE @]]

\* The delay of nextDelay is over.
Dial(p) ==
  /\ program[p].at = "rest"
  /\ program' = [program EXCEPT ![p].at = "dial", ![p].slot = ActiveWSEntry]
  /\ UNCHANGED <<health, wsIdx, cooling, wsFails, callVars>>

\* What becomes of a subscription at its endpoint, to logs or to transactions.
Answered(p) ==
  LET s == program[p].slot
  IN \/ health[s] = "refuses" /\ Fail(p) /\ UNCHANGED <<cooling, wsFails>>
     \/ health[s] = "limits" /\ MarkWSRateLimited(s) /\ Fail(p) /\ UNCHANGED wsFails
     \/ /\ health[s] = "drops"
        /\ Step(p, IF Slots > 1 THEN "count" ELSE "rotate")
        /\ UNCHANGED <<cooling, wsFails>>
     \/ health[s] = "serves" /\ ResetWSFailCount(s) /\ Step(p, "read") /\ UNCHANGED cooling

\* SubscribeLogs or SubscribeTransactions, at the endpoint that was captured.
Subscribe(p) ==
  /\ program[p].at = "dial"
  /\ Answered(p)
  /\ UNCHANGED <<health, wsIdx, callVars>>

\* recordWSEOFFailure counts, at the threshold promotes the next endpoint, and
\* otherwise rotates by one. Others work on the same numbers in between.
CountFailure(p) ==
  LET s == program[p].slot
      count == wsFails[s] + 1
  IN /\ program[p].at = "count"
     /\ wsFails' = [wsFails EXCEPT ![s] = IF count > FailThreshold THEN @ ELSE count]
     /\ Step(p, IF count >= FailThreshold THEN "promote" ELSE "rotate")
     /\ UNCHANGED <<health, wsIdx, cooling, callVars>>

\* Slip: who finds that wsIdx is not its slot leaves it.
PromoteEndpointOrLeave(p) ==
  LET s == program[p].slot
  IN /\ program[p].at = "promote"
     /\ IF wsIdx = s THEN wsIdx' = s + 1 /\ ResetWSFailCount(s)
        ELSE UNCHANGED <<wsIdx, wsFails>>
     /\ Fail(p)
     /\ UNCHANGED <<health, cooling, callVars>>

\* CompareAndSwap of wsIdx, which is the slot only until it has gone round once.
PromoteEndpoint(p) ==
  LET s == program[p].slot
  IN /\ program[p].at = "promote"
     /\ IF wsIdx = s THEN wsIdx' = s + 1 /\ ResetWSFailCount(s) /\ Fail(p)
        ELSE Step(p, "rotate") /\ UNCHANGED <<wsIdx, wsFails>>
     /\ UNCHANGED <<health, cooling, callVars>>

Rotate(p) ==
  /\ program[p].at = "rotate"
  /\ wsIdx' = Advance(wsIdx)
  /\ Fail(p)
  /\ UNCHANGED <<health, cooling, wsFails, callVars>>

\* A frame of the stream. A ping is answered and a pong passed over, and so is a
\* notification of another subscription; the reader waits while the channel is full.
ReadJSON(p) ==
  /\ program[p].at = "read" /\ program[p].queue < Room
  /\ \E frame \in {"notification", "control", "other"} :
       program' = [program EXCEPT ![p].queue = IF frame = "notification" THEN @ + 1 ELSE @]
  /\ UNCHANGED <<health, wsIdx, cooling, wsFails, callVars>>

\* runSubscribeLoop takes a notification.
TakeNotification(p) ==
  /\ program[p].queue > 0
  /\ program' = [program EXCEPT ![p].queue = @ - 1]
  /\ UNCHANGED <<health, wsIdx, cooling, wsFails, callVars>>

\* A close frame, a frame that is too large or no JSON, a deadline or a failed
\* ping: the connection and its channel are closed.
StreamEnds(p) ==
  /\ program[p].at = "read"
  /\ Fail(p)
  /\ UNCHANGED <<health, wsIdx, cooling, wsFails, callVars>>

\* max_ms of the backoff is not above circuit_open_cooldown_ms: a cooldown outlives
\* the delay of the program that met the limit.
CooldownEnds ==
  /\ cooling # <<>>
  /\ \A p \in Programs : program[p].at = "rest" => program[p].slot # Head(cooling)
  /\ cooling' = Tail(cooling)
  /\ UNCHANGED <<health, wsIdx, wsFails, program, callVars>>

\* Stop: the context of the loops is cancelled.
StopPrograms ==
  /\ \E p \in Programs : program[p].at # "off"
  /\ program' = [p \in Programs |-> NotRunning]
  /\ UNCHANGED <<health, wsIdx, cooling, wsFails, callVars>>

-------------------------------------------------------------------------------
(* The calls. *)

\* The answer to a call, as its method understands the body.
Result(method, body) ==
  CASE body = "value" -> "value"
    [] body = "null" -> IF method \in Nullable THEN "none" ELSE "blank"
    [] body = "odd" -> IF method = "getProgramAccounts" THEN "value" ELSE "error"

\* A ticker of buildRateLimiter drops what nobody waits for.
Tick ==
  /\ ~ ticket
  /\ ticket' = TRUE
  /\ UNCHANGED <<health, subscriptionVars, httpIdx, caller>>

\* GetTransaction waits for a tick, the other calls go out at once.
Call(c) ==
  /\ caller[c].at = "idle"
  /\ \E method \in Methods :
       /\ method = "getTransaction" => ticket
       /\ ticket' = (ticket /\ method # "getTransaction")
       /\ caller' = [caller EXCEPT ![c] = [at |-> method, slot |-> httpIdx, result |-> "none"]]
  /\ UNCHANGED <<health, subscriptionVars, httpIdx>>

\* httpRPC: only the answer that says so rotates, whoever has rotated meanwhile.
HttpRPC(c) ==
  LET condition == health[caller[c].slot]
  IN /\ caller[c].at # "idle"
     /\ \E body \in {"value", "null", "odd"} :
          caller' = [caller EXCEPT ![c] = [Idle EXCEPT !.result =
            IF condition = "serves" THEN Result(caller[c].at, body) ELSE "error"]]
     /\ httpIdx' = IF condition = "limits" THEN (httpIdx + 1) % Slots ELSE httpIdx
     /\ UNCHANGED <<health, subscriptionVars, ticket>>

-------------------------------------------------------------------------------
(* The client at work. *)

LoopStep(p) == Dial(p) \/ Subscribe(p) \/ CountFailure(p) \/ PromoteEndpoint(p) \/ Rotate(p)

SubscriptionsNext ==
  \/ CooldownEnds \/ StopPrograms
  \/ \E p \in Programs : LoopStep(p) \/ ReadJSON(p) \/ TakeNotification(p) \/ StreamEnds(p)

CallStep(c) == Call(c) \/ HttpRPC(c)

CallsNext == Tick \/ \E c \in Callers : CallStep(c)

EndpointsNext == SubscriptionsNext \/ CallsNext

\* The loops of the programs never rest for good, those who call come back with
\* their tickers, and time passes.
EndpointsFairness ==
  /\ \A p \in Programs : WF_endpointsVars(LoopStep(p))
  /\ \A c \in Callers : WF_endpointsVars(CallStep(c))
  /\ WF_endpointsVars(CooldownEnds) /\ WF_endpointsVars(Tick)

EndpointsSpec == EndpointsInit /\ [][EndpointsNext]_endpointsVars /\ EndpointsFairness

-------------------------------------------------------------------------------
(* Properties. *)

\* One endpoint serves, none refuses (a failed dial does not rotate) and at most one
\* limits: two cooldowns take turns for good when the delays are as long as they are.
CanServe ==
  /\ \E s \in Slot : health[s] = "serves"
  /\ \A s \in Slot : health[s] # "refuses"
  /\ \A s, t \in Slot : health[s] = "limits" /\ health[t] = "limits" => s = t

Alone(p) == \A q \in Programs \ {p} : program[q].at \in {"off", "read"}

\* Failover finds the endpoint that serves (activeWSEntry, recordWSEOFFailure,
\* httpRPC): a program that subscribes while no other does comes to its stream again
\* and again, whichever endpoints drop it and however cooldown, rotation and promotion
\* mix, and a lone caller comes to the endpoint that does not limit it. With others
\* it need not: two failures at one endpoint rotate twice.
FailoverFindsService ==
  /\ \A p \in Programs :
       CanServe /\ <>[]Alone(p) => []<>(program[p].at \in {"read", "off"})
  /\ \A c \in Callers :
       (/\ \E s \in Slot : health[s] = "serves"
        /\ \A s \in Slot : health[s] \in {"serves", "limits"}
        /\ <>[](\A d \in Callers \ {c} : caller[d].at = "idle")
        /\ []<>(caller[c].at # "idle"))
       => []<>(caller[c].at # "idle" /\ health[caller[c].slot] = "serves")
=============================================================================
