------------------------------ MODULE DeskProofs ------------------------------
(***************************************************************************)
(* Theorems about what a trade is made of: the executors and the chains    *)
(* (Submission), for any orders, wallets, send attempts, blocks and forks; *)
(* the prices and the exits of a position (Pricing), for any callers,      *)
(* prices, windows and times.                                              *)
(*                                                                         *)
(* For the executors the argument is that a transaction some node holds    *)
(* carries the last key its order has signed with, and that its executor   *)
(* has left the loop that signs: a blockhash is renewed only where the     *)
(* node did not take the transaction.  One order has therefore one         *)
(* transaction outside, which waits or is in a block and never both, and   *)
(* what was read of it in a final block stays so.                          *)
(*                                                                         *)
(* For the prices it is that a value is never older than its stamp by more *)
(* than a call, and for the exits that polls follow each other without a   *)
(* unit between them.                                                      *)
(*                                                                         *)
(* Behaviours of MCTrade are behaviours of both, and of Trade.             *)
(***************************************************************************)
EXTENDS MCTrade, TradeProofs, FiniteSetTheorems, TLAPS

-------------------------------------------------------------------------------
(* The inductive invariant. *)

\* The executor may still sign.
Early == {"start", "send", "expired"}

\* The executor has returned or stopped.
Over == {"record", "done", "stopped"}

Outside == pool \union DOMAIN blocks

SubmissionShape ==
  /\ order \in [SubmittedOrders -> [at : Stops, key : Int, attempt : Nat]]
  /\ outcome \in [SubmittedOrders -> Ends \union {"none"}]
  /\ nonces \in [Wallets -> Nat]
  /\ Outside \subseteq SubmittedOrders \X Int
  /\ \A tx \in DOMAIN blocks : blocks[tx] \in Fates
  /\ forks \in Nat

\* What some node holds of an order is what the order was signed with last.
LastSigned(tx) == order[tx[1]].at \notin Early /\ tx = Sent(tx[1])

\* How an outcome and the chain go together.
Tells(o) ==
  /\ outcome[o] # "none" => order[o].at \in Over
  /\ outcome[o] = "refused" => \A tx \in Outside : tx[1] # o
  /\ o \in SolanaOrders /\ outcome[o] = "confirmed" =>
       Sent(o) \in DOMAIN blocks /\ blocks[Sent(o)] = [commitment |-> "confirmed", err |-> FALSE]
  /\ outcome[o] = "reverted" /\ forks = 0 => Sent(o) \in DOMAIN blocks /\ blocks[Sent(o)].err

SubmissionInv ==
  /\ SubmissionShape
  /\ pool \intersect DOMAIN blocks = {}
  /\ \A tx \in Outside : LastSigned(tx)
  /\ \A o \in SubmittedOrders : Tells(o)

-------------------------------------------------------------------------------
(* Steps. *)

LEMMA InitEstablishes == SubmissionInit => SubmissionInv
<1> SUFFICES ASSUME SubmissionInit PROVE SubmissionInv
  OBVIOUS
<1>1. pool = {} /\ DOMAIN blocks = {}
  BY DEF SubmissionInit
<1>2. SubmissionShape
  BY <1>1 DEF SubmissionShape, SubmissionInit, Outside, AtStart, Stops, Ends
<1>3. \A o \in SubmittedOrders : Tells(o)
  BY <1>1 DEF SubmissionInit, Tells
<1> QED
  BY <1>1, <1>2, <1>3 DEF SubmissionInv, Outside

\* A step of the executor of o: no node takes anything but the transaction that o
\* has just signed, and then the executor has left the loop.
Moves(o) ==
  /\ \E next \in [at : Stops, key : Int, attempt : Nat] :
       /\ order' = [order EXCEPT ![o] = next]
       /\ order[o].at \notin Early => next.at \notin Early /\ next.key = order[o].key
  /\ \E end \in Ends \union {"none"} : outcome' = [outcome EXCEPT ![o] = end]
  /\ nonces' \in [Wallets -> Nat]
  /\ UNCHANGED <<blocks, forks>>
  /\ \/ UNCHANGED pool
     \/ /\ order[o].at = "send" /\ order'[o].at \notin Early
        /\ order'[o].key = order[o].key
        /\ Taken(Sent(o))

LEMMA MovesKeep ==
  ASSUME SubmissionInv, NEW o \in SubmittedOrders, Moves(o), Tells(o)'
  PROVE  SubmissionInv'
<1>1. PICK next \in [at : Stops, key : Int, attempt : Nat] :
        /\ order' = [order EXCEPT ![o] = next]
        /\ order[o].at \notin Early => next.at \notin Early /\ next.key = order[o].key
  BY DEF Moves
<1>2. PICK end \in Ends \union {"none"} : outcome' = [outcome EXCEPT ![o] = end]
  BY DEF Moves
<1>3. blocks' = blocks /\ forks' = forks /\ nonces' \in [Wallets -> Nat]
  BY DEF Moves
<1>4. order'[o] = next /\ \A p \in SubmittedOrders \ {o} : order'[p] = order[p] /\ Sent(p)' = Sent(p)
  BY <1>1 DEF SubmissionInv, SubmissionShape, Sent
<1>5. Sent(o) \in SubmittedOrders \X Int /\ Sent(o)[1] = o
  BY DEF SubmissionInv, SubmissionShape, Sent
<1>6. pool' = pool \/ /\ order[o].at = "send" /\ next.at \notin Early /\ next.key = order[o].key
                      /\ Sent(o) \notin DOMAIN blocks
                      /\ pool' = pool \union {Sent(o)}
  BY <1>4 DEF Moves, Taken
<1>7. SubmissionShape'
  BY <1>1, <1>2, <1>3, <1>5, <1>6 DEF SubmissionInv, SubmissionShape, Outside
<1>8. pool' \intersect DOMAIN blocks' = {}
  BY <1>3, <1>6 DEF SubmissionInv
<1>9. ASSUME NEW tx \in Outside' PROVE LastSigned(tx)'
  <2>1. CASE tx \in Outside
    <3>1. tx[1] \in SubmittedOrders /\ LastSigned(tx)
      BY <2>1 DEF SubmissionInv, SubmissionShape
    <3>2. CASE tx[1] = o
      BY <3>1, <3>2, <1>1, <1>4 DEF LastSigned, Sent
    <3> QED
      BY <3>1, <3>2, <1>4 DEF LastSigned, Sent
  <2>2. CASE tx \notin Outside
    <3>1. tx = Sent(o) /\ next.at \notin Early /\ next.key = order[o].key
      BY <2>2, <1>3, <1>6 DEF Outside
    <3> QED
      BY <3>1, <1>4, <1>5 DEF LastSigned, Sent
  <2> QED
    BY <2>1, <2>2
<1>10. ASSUME NEW p \in SubmittedOrders PROVE Tells(p)'
  <2>1. CASE p = o
    BY <2>1
  <2>2. CASE p # o
    <3>1. outcome'[p] = outcome[p] /\ order'[p] = order[p] /\ Sent(p)' = Sent(p)
      BY <2>2, <1>2, <1>4 DEF SubmissionInv, SubmissionShape
    <3>2. \A tx \in Outside' : tx \in Outside \/ tx[1] # p
      BY <2>2, <1>3, <1>5, <1>6 DEF Outside
    <3>3. Tells(p)
      BY DEF SubmissionInv
    <3> QED
      BY <3>1, <3>2, <3>3, <1>3 DEF Tells
  <2> QED
    BY <2>1, <2>2
<1> QED
  BY <1>7, <1>8, <1>9, <1>10 DEF SubmissionInv

LEMMA GoesFacts ==
  ASSUME SubmissionInv, NEW o \in SubmittedOrders, NEW at \in Stops, Goes(o, at)
  PROVE  \E next \in [at : Stops, key : Int, attempt : Nat] :
           /\ order' = [order EXCEPT ![o] = next]
           /\ next.at = at /\ next.key = order[o].key
<1> DEFINE next == [at |-> at, key |-> order[o].key, attempt |-> order[o].attempt]
<1>1. order[o] \in [at : Stops, key : Int, attempt : Nat]
  BY DEF SubmissionInv, SubmissionShape
<1>2. [order[o] EXCEPT !.at = at] = next
  BY <1>1
<1>4. order' = [order EXCEPT ![o] = next]
  BY <1>2 DEF Goes
<1>3. next \in [at : Stops, key : Int, attempt : Nat]
  BY <1>1
<1> QED
  BY <1>3, <1>4

\* Nothing but the place of the executor and the outcome of its order moves.
LEMMA StandsStill ==
  ASSUME SubmissionInv, NEW o \in SubmittedOrders, NEW at \in Stops \ Early, NEW end \in Ends \union {"none"},
         Goes(o, at), outcome' = [outcome EXCEPT ![o] = end], UNCHANGED <<blocks, forks>>,
         nonces' \in [Wallets -> Nat],
         \/ UNCHANGED pool
         \/ order[o].at = "send" /\ Taken(Sent(o))
  PROVE  /\ Moves(o)
         /\ outcome'[o] = end /\ order'[o].at = at /\ Sent(o)' = Sent(o)
<1>1. PICK next \in [at : Stops, key : Int, attempt : Nat] :
        /\ order' = [order EXCEPT ![o] = next]
        /\ next.at = at /\ next.key = order[o].key
  BY GoesFacts
<1>2. order'[o] = next
  BY <1>1 DEF SubmissionInv, SubmissionShape
<1>3. Moves(o)
  BY <1>1, <1>2 DEF Moves
<1> QED
  BY <1>1, <1>2, <1>3 DEF SubmissionInv, SubmissionShape, Sent

\* The executor of Solana. Only an answer that the node did not take the transaction
\* goes back into the loop.
LEMMA SendMoves ==
  ASSUME SubmissionInv, NEW o \in SubmittedOrders, SendTransaction(o)
  PROVE  Moves(o) /\ Tells(o)'
<1>1. /\ o \in SolanaOrders /\ order[o].at = "send"
      /\ order[o] \in [at : Stops, key : Int, attempt : Nat]
      /\ outcome[o] = "none"
      /\ UNCHANGED <<blocks, forks>> /\ nonces' \in [Wallets -> Nat]
  BY DEF SendTransaction, SubmissionInv, SubmissionShape, Tells, Over
<1>2. PICK answer \in {"signature", "lost", "blank", "expired", "error"} :
        /\ SendAnswered(o, answer)
        /\ \/ answer \in {"signature", "lost", "blank"} /\ Taken(Sent(o))
           \/ answer \in {"expired", "error", "lost", "blank"} /\ UNCHANGED pool
  BY DEF SendTransaction
<1>3. \A tx \in Outside : tx[1] # o
  BY <1>1 DEF SubmissionInv, LastSigned, Early
<1>4. CASE answer = "signature"
  <2>1. Goes(o, "poll") /\ outcome' = outcome
    BY <1>2, <1>4 DEF SendAnswered, IsBlockhashExpired
  <2>2. outcome' = [outcome EXCEPT ![o] = "none"]
    BY <1>1, <2>1 DEF SubmissionInv, SubmissionShape
  <2>3. Moves(o) /\ outcome'[o] = "none"
    BY <1>1, <1>2, <1>4, <2>1, <2>2, StandsStill DEF Stops, Early
  <2> QED
    BY <2>3 DEF Tells
<1>5. CASE answer = "expired" /\ order[o].attempt < MaxSendAttempts
  <2>1. Goes(o, "expired") /\ outcome' = outcome
    BY <1>2, <1>5 DEF SendAnswered, IsBlockhashExpired
  <2>2. outcome' = [outcome EXCEPT ![o] = "none"] /\ UNCHANGED pool
    BY <1>1, <1>2, <1>5, <2>1 DEF SubmissionInv, SubmissionShape
  <2>3. PICK next \in [at : Stops, key : Int, attempt : Nat] :
          order' = [order EXCEPT ![o] = next] /\ next.at = "expired"
    BY <2>1, GoesFacts DEF Stops
  <2>4. Moves(o)
    BY <1>1, <2>2, <2>3 DEF Moves, Early
  <2> QED
    BY <1>1, <2>1, <2>4 DEF Tells
<1>6. CASE answer # "signature" /\ ~(answer = "expired" /\ order[o].attempt < MaxSendAttempts)
  <2>1. Returns(o, IF answer \in {"lost", "blank"} THEN "unanswered" ELSE "refused")
    BY <1>2, <1>6 DEF SendAnswered, IsBlockhashExpired
  <2> DEFINE end == IF answer \in {"lost", "blank"} THEN "unanswered" ELSE "refused"
  <2>2. Goes(o, "record") /\ outcome' = [outcome EXCEPT ![o] = end]
    BY <1>1, <2>1 DEF Returns
  <2>3. end \in Ends \union {"none"} /\ (UNCHANGED pool \/ Taken(Sent(o)))
    BY <1>2 DEF Ends
  <2>4. Moves(o) /\ outcome'[o] = end /\ order'[o].at = "record"
    BY <1>1, <2>2, <2>3, StandsStill DEF Stops, Early
  <2>7. end = "refused" => UNCHANGED pool
    BY <1>2, <1>6
  <2>8. Tells(o)'
    BY <1>1, <1>3, <2>4, <2>7 DEF Tells, Over, Outside
  <2> QED
    BY <2>4, <2>8
<1> QED
  BY <1>2, <1>4, <1>5, <1>6

\* The fate of a transaction is read where it is, and a final one stays so.
LEMMA ConfirmMoves ==
  ASSUME SubmissionInv, NEW o \in SubmittedOrders, ConfirmSignature(o) \/ PollReceipt(o)
  PROVE  Moves(o) /\ Tells(o)'
<1>1. /\ order[o].at = "poll" /\ outcome[o] = "none"
      /\ UNCHANGED <<pool, blocks, forks>> /\ nonces' \in [Wallets -> Nat]
  BY DEF ConfirmSignature, PollReceipt, chainVars, SubmissionInv, SubmissionShape, Tells, Over
<1>2. PICK end \in Ends :
        /\ Returns(o, end)
        /\ end \in {"confirmed", "reverted"} => Sent(o) \in DOMAIN blocks
        /\ end = "reverted" => blocks[Sent(o)].err
        /\ end = "confirmed" /\ o \in SolanaOrders => IsConfirmed(blocks[Sent(o)]) /\ ~blocks[Sent(o)].err
        /\ end # "refused"
  <2>1. CASE ConfirmSignature(o)
    BY <2>1 DEF ConfirmSignature, Ends
  <2>2. CASE PollReceipt(o)
    <3>1. o \notin SolanaOrders
      BY <2>2, SubmissionAssumption DEF PollReceipt
    <3> QED
      BY <2>2, <3>1 DEF PollReceipt, Ends
  <2> QED
    BY <2>1, <2>2
<1>3. PICK at \in {"record", "done"} : Goes(o, at) /\ outcome' = [outcome EXCEPT ![o] = end]
  BY <1>2 DEF Returns
<1>4. /\ Moves(o)
      /\ outcome'[o] = end /\ order'[o].at = at /\ Sent(o)' = Sent(o)
  BY <1>1, <1>3, StandsStill DEF Stops, Early
<1>5. end = "confirmed" /\ o \in SolanaOrders =>
        blocks[Sent(o)] = [commitment |-> "confirmed", err |-> FALSE]
  <2> SUFFICES ASSUME end = "confirmed" /\ o \in SolanaOrders
               PROVE  blocks[Sent(o)] = [commitment |-> "confirmed", err |-> FALSE]
    OBVIOUS
  <2>1. blocks[Sent(o)] \in [commitment : {"processed", "confirmed"}, err : BOOLEAN]
    BY <1>2 DEF SubmissionInv, SubmissionShape, Fates
  <2>2. blocks[Sent(o)].commitment = "confirmed" /\ blocks[Sent(o)].err = FALSE
    BY <1>2, <2>1 DEF IsConfirmed
  <2> QED
    BY <2>1, <2>2
<1>6. Tells(o)'
  BY <1>1, <1>2, <1>3, <1>4, <1>5 DEF Tells, Over
<1> QED
  BY <1>4, <1>6

LEMMA SignsFacts ==
  ASSUME SubmissionInv, NEW o \in SubmittedOrders, NEW key \in Int, Signs(o, key)
  PROVE  \E next \in [at : Stops, key : Int, attempt : Nat] : order' = [order EXCEPT ![o] = next]
<1> DEFINE next == [at |-> "send", key |-> key, attempt |-> order[o].attempt]
<1>1. order[o] \in [at : Stops, key : Int, attempt : Nat]
  BY DEF SubmissionInv, SubmissionShape
<1>2. next \in [at : Stops, key : Int, attempt : Nat]
  BY <1>1 DEF Stops
<1> QED
  BY <1>2 DEF Signs

\* The steps before a transaction is signed.
LEMMA PrepareMoves ==
  ASSUME SubmissionInv, NEW o \in SubmittedOrders,
         FetchBlockhash(o) \/ RenewBlockhash(o) \/ AllocateNonce(o)
  PROVE  Moves(o) /\ Tells(o)'
<1>1. /\ order[o].at \in Early /\ outcome[o] = "none"
      /\ order[o] \in [at : Stops, key : Int, attempt : Nat]
      /\ UNCHANGED <<pool, blocks, forks>>
      /\ \A tx \in Outside : tx[1] # o
  BY DEF FetchBlockhash, RenewBlockhash, AllocateNonce, chainVars, SubmissionInv, SubmissionShape, Tells, Over, Early, LastSigned
<1>2. nonces' \in [Wallets -> Nat]
  BY DEF FetchBlockhash, RenewBlockhash, AllocateNonce, SubmissionInv, SubmissionShape
<1>3. ASSUME NEW end \in {"none", "refused"}, NEW at \in {"record", "stopped"},
             Goes(o, at), outcome' = [outcome EXCEPT ![o] = end]
      PROVE  Moves(o) /\ Tells(o)'
  <2>1. Moves(o) /\ outcome'[o] = end /\ order'[o].at = at
    BY <1>1, <1>2, <1>3, StandsStill DEF Stops, Early, Ends
  <2> QED
    BY <1>1, <2>1 DEF Tells, Over, Outside
<1>4. outcome' = outcome => outcome' = [outcome EXCEPT ![o] = "none"]
  BY <1>1 DEF SubmissionInv, SubmissionShape
<1>5. ASSUME NEW next \in [at : Stops, key : Int, attempt : Nat],
             order' = [order EXCEPT ![o] = next], outcome' = outcome
      PROVE  Moves(o) /\ Tells(o)'
  <2>1. outcome' = [outcome EXCEPT ![o] = "none"] /\ outcome'[o] = "none"
    BY <1>1, <1>4, <1>5
  <2> QED
    BY <1>1, <1>2, <1>5, <2>1 DEF Moves, Tells
<1>6. \A h \in LatestBlockhash : h \in Int
  BY SubmissionAssumption DEF LatestBlockhash, Heights
<1>7. CASE FetchBlockhash(o)
  <2>1. CASE Returns(o, "refused")
    BY <1>3, <1>7, <2>1 DEF FetchBlockhash, Returns
  <2>2. CASE \E h \in LatestBlockhash : Signs(o, h) /\ outcome' = outcome
    BY <1>5, <1>6, <2>2, SignsFacts
  <2> QED
    BY <1>7, <2>1, <2>2 DEF FetchBlockhash
<1>8. CASE RenewBlockhash(o)
  <2>1. PICK h \in LatestBlockhash \union {order[o].key} :
          order' = [order EXCEPT ![o] = [at |-> "send", key |-> h, attempt |-> @.attempt + 1]]
    BY <1>8 DEF RenewBlockhash
  <2> DEFINE next == [at |-> "send", key |-> h, attempt |-> order[o].attempt + 1]
  <2>2. next \in [at : Stops, key : Int, attempt : Nat]
    BY <1>1, <1>6 DEF Stops
  <2> QED
    BY <1>5, <1>8, <2>1, <2>2 DEF RenewBlockhash
<1>9. CASE AllocateNonce(o)
  <2>1. nonces[WalletOf[o]] \in Int
    BY DEF SubmissionInv, SubmissionShape, Wallets
  <2>2. CASE Signs(o, nonces[WalletOf[o]])
    BY <1>5, <1>9, <2>1, <2>2, SignsFacts DEF AllocateNonce
  <2>3. CASE Goes(o, "stopped")
    BY <1>3, <1>4, <1>9, <2>3 DEF AllocateNonce
  <2> QED
    BY <1>9, <2>2, <2>3 DEF AllocateNonce
<1> QED
  BY <1>7, <1>8, <1>9

\* The executor of the EVM chains sends once.
LEMMA SendRawMoves ==
  ASSUME SubmissionInv, NEW o \in SubmittedOrders, SendRawTransaction(o)
  PROVE  Moves(o) /\ Tells(o)'
<1>1. /\ o \notin SolanaOrders /\ order[o].at = "send" /\ outcome[o] = "none"
      /\ UNCHANGED <<blocks, forks>> /\ nonces' \in [Wallets -> Nat]
      /\ \A tx \in Outside : tx[1] # o
  BY SubmissionAssumption DEF SendRawTransaction, SubmissionInv, SubmissionShape, Tells, Over, LastSigned, Early
<1>2. outcome' = outcome => outcome' = [outcome EXCEPT ![o] = "none"]
  BY <1>1 DEF SubmissionInv, SubmissionShape
<1>3. PICK at \in {"done", "poll"}, end \in {"none", "refused", "unanswered"} :
        /\ Goes(o, at) /\ outcome' = [outcome EXCEPT ![o] = end]
        /\ end # "none" => at = "done"
        /\ UNCHANGED pool \/ (end # "refused" /\ Taken(Sent(o)))
  <2>1. CASE Returns(o, "refused") /\ UNCHANGED pool
    <3>1. Goes(o, "done") /\ outcome' = [outcome EXCEPT ![o] = "refused"]
      BY <1>1, <2>1 DEF Returns
    <3> QED
      BY <2>1, <3>1
  <2>2. CASE Goes(o, "poll") /\ Taken(Sent(o)) /\ UNCHANGED outcome
    BY <1>2, <2>2
  <2>3. CASE Returns(o, "unanswered") /\ (Taken(Sent(o)) \/ UNCHANGED pool)
    <3>1. Goes(o, "done") /\ outcome' = [outcome EXCEPT ![o] = "unanswered"]
      BY <1>1, <2>3 DEF Returns
    <3> QED
      BY <2>3, <3>1
  <2> QED
    BY <2>1, <2>2, <2>3 DEF SendRawTransaction
<1>4. Moves(o) /\ outcome'[o] = end /\ order'[o].at = at
  BY <1>1, <1>3, StandsStill DEF Stops, Early, Ends
<1> QED
  BY <1>1, <1>3, <1>4 DEF Tells, Over, Outside

\* What is left when the executor has returned, and its end by a stop.
LEMMA RestMoves ==
  ASSUME SubmissionInv, NEW o \in SubmittedOrders, InsertSolanaSignature(o) \/ ExecutorStops(o)
  PROVE  Moves(o) /\ Tells(o)'
<1>1. /\ UNCHANGED <<pool, blocks, forks, outcome>> /\ nonces' \in [Wallets -> Nat]
      /\ outcome' = [outcome EXCEPT ![o] = outcome[o]]
      /\ outcome[o] \in Ends \union {"none"}
  BY DEF InsertSolanaSignature, ExecutorStops, chainVars, SubmissionInv, SubmissionShape
<1>2. PICK at \in {"done", "stopped"} : Goes(o, at)
  BY DEF InsertSolanaSignature, ExecutorStops
<1>3. Moves(o) /\ outcome'[o] = outcome[o] /\ order'[o].at = at /\ Sent(o)' = Sent(o)
  BY <1>1, <1>2, StandsStill DEF Stops, Early
<1>4. Tells(o)
  BY DEF SubmissionInv
<1> QED
  BY <1>1, <1>2, <1>3, <1>4 DEF Tells, Over, Outside

LEMMA ExecutorKeeps ==
  ASSUME SubmissionInv, NEW o \in SubmittedOrders, ExecutorStep(o)
  PROVE  SubmissionInv'
<1>1. Moves(o) /\ Tells(o)'
  <2>1. CASE SendTransaction(o)
    BY <2>1, SendMoves
  <2>2. CASE ConfirmSignature(o) \/ PollReceipt(o)
    BY <2>2, ConfirmMoves
  <2>3. CASE FetchBlockhash(o) \/ RenewBlockhash(o) \/ AllocateNonce(o)
    BY <2>3, PrepareMoves
  <2>4. CASE SendRawTransaction(o)
    BY <2>4, SendRawMoves
  <2>5. CASE InsertSolanaSignature(o) \/ ExecutorStops(o)
    BY <2>5, RestMoves
  <2> QED
    BY <2>1, <2>2, <2>3, <2>4, <2>5 DEF ExecutorStep
<1> QED
  BY <1>1, MovesKeep

\* On the chain a transaction waits or is in a block, and a final block stays.
LEMMA ChainKeeps ==
  ASSUME SubmissionInv, ChainStep
  PROVE  SubmissionInv'
<1>1. UNCHANGED <<order, outcome, nonces>> /\ \A o \in SubmittedOrders : Sent(o)' = Sent(o)
  BY DEF ChainStep, NewBlock, Include, Finalize, Fork, Sent
<1>2. CASE NewBlock
  <2>1. UNCHANGED <<pool, blocks, forks>>
    BY <1>2 DEF NewBlock
  <2> QED
    BY <1>1, <2>1 DEF SubmissionInv, SubmissionShape, Outside, LastSigned, Tells, Sent
<1>3. ASSUME NEW tx \in Transactions, Include(tx) PROVE SubmissionInv'
  <2>1. PICK err \in BOOLEAN :
          /\ tx \in pool /\ pool' = pool \ {tx} /\ forks' = forks
          /\ blocks' = [t \in DOMAIN blocks \union {tx} |->
                IF t = tx THEN [commitment |-> "processed", err |-> err] ELSE blocks[t]]
    BY <1>3 DEF Include
  <2>2. /\ DOMAIN blocks' = DOMAIN blocks \union {tx} /\ tx \notin DOMAIN blocks
        /\ \A t \in DOMAIN blocks : blocks'[t] = blocks[t]
        /\ blocks'[tx] \in Fates
        /\ Outside' = Outside
    BY <2>1 DEF SubmissionInv, Outside, Fates
  <2>3. SubmissionShape'
    BY <1>1, <2>1, <2>2 DEF SubmissionInv, SubmissionShape
  <2>4. pool' \intersect DOMAIN blocks' = {}
    BY <2>1, <2>2 DEF SubmissionInv
  <2>5. \A t \in Outside' : LastSigned(t)'
    BY <1>1, <2>2 DEF SubmissionInv, LastSigned, Sent
  <2>6. \A o \in SubmittedOrders : Tells(o)'
    BY <1>1, <2>1, <2>2 DEF SubmissionInv, Tells
  <2> QED
    BY <2>3, <2>4, <2>5, <2>6 DEF SubmissionInv
<1>4. ASSUME NEW tx \in Transactions, Finalize(tx) PROVE SubmissionInv'
  <2>1. /\ tx \in DOMAIN blocks /\ blocks[tx].commitment = "processed"
        /\ blocks' = [blocks EXCEPT ![tx].commitment = "confirmed"]
        /\ UNCHANGED <<pool, forks>>
    BY <1>4 DEF Finalize
  <2>2. blocks[tx] \in [commitment : {"processed", "confirmed"}, err : BOOLEAN]
    BY <2>1 DEF SubmissionInv, SubmissionShape, Fates
  <2>3. /\ DOMAIN blocks' = DOMAIN blocks /\ Outside' = Outside
        /\ \A t \in DOMAIN blocks : t # tx => blocks'[t] = blocks[t]
        /\ blocks'[tx] = [blocks[tx] EXCEPT !.commitment = "confirmed"]
    BY <2>1 DEF Outside
  <2>4. blocks'[tx] \in Fates /\ blocks'[tx].err = blocks[tx].err
    BY <2>2, <2>3 DEF Fates
  <2>5. SubmissionShape'
    BY <1>1, <2>1, <2>3, <2>4 DEF SubmissionInv, SubmissionShape
  <2>6. \A t \in Outside' : LastSigned(t)'
    BY <1>1, <2>3 DEF SubmissionInv, LastSigned, Sent
  <2>7. ASSUME NEW o \in SubmittedOrders PROVE Tells(o)'
    <3>1. Tells(o)
      BY DEF SubmissionInv
    <3>2. CASE Sent(o) = tx
      <4>1. blocks[tx] # [commitment |-> "confirmed", err |-> FALSE]
        BY <2>1
      <4> QED
        BY <1>1, <2>1, <2>3, <2>4, <3>1, <3>2, <4>1 DEF Tells
    <3>3. CASE Sent(o) # tx
      BY <1>1, <2>1, <2>3, <3>1, <3>3 DEF Tells
    <3> QED
      BY <3>2, <3>3
  <2> QED
    BY <2>1, <2>3, <2>5, <2>6, <2>7 DEF SubmissionInv
<1>5. ASSUME NEW tx \in Transactions, Fork(tx) PROVE SubmissionInv'
  <2>1. /\ tx \in DOMAIN blocks /\ blocks[tx].commitment = "processed"
        /\ blocks' = [t \in DOMAIN blocks \ {tx} |-> blocks[t]]
        /\ pool' = pool \union {tx} /\ forks' = forks + 1
    BY <1>5 DEF Fork
  <2>2. /\ DOMAIN blocks' = DOMAIN blocks \ {tx} /\ Outside' = Outside
        /\ \A t \in DOMAIN blocks' : blocks'[t] = blocks[t]
    BY <2>1 DEF Outside
  <2>3. SubmissionShape' /\ forks' # 0
    BY <1>1, <2>1, <2>2 DEF SubmissionInv, SubmissionShape
  <2>4. pool' \intersect DOMAIN blocks' = {}
    BY <2>1, <2>2 DEF SubmissionInv
  <2>5. \A t \in Outside' : LastSigned(t)'
    BY <1>1, <2>2 DEF SubmissionInv, LastSigned, Sent
  <2>6. ASSUME NEW o \in SubmittedOrders PROVE Tells(o)'
    <3>1. Tells(o)
      BY DEF SubmissionInv
    <3>2. Sent(o) = tx => blocks[Sent(o)] # [commitment |-> "confirmed", err |-> FALSE]
      BY <2>1
    <3> QED
      BY <1>1, <2>2, <2>3, <3>1, <3>2 DEF Tells
  <2> QED
    BY <2>3, <2>4, <2>5, <2>6 DEF SubmissionInv
<1> QED
  BY <1>2, <1>3, <1>4, <1>5 DEF ChainStep

LEMMA SubmissionInvInvariant == SubmissionSpec => []SubmissionInv
<1>1. SubmissionInv /\ UNCHANGED submissionVars => SubmissionInv'
  BY DEF submissionVars, chainVars, SubmissionInv, SubmissionShape, Outside, LastSigned, Tells, Sent
<1>2. SubmissionInv /\ SubmissionNext => SubmissionInv'
  BY ExecutorKeeps, ChainKeeps DEF SubmissionNext
<1> QED
  BY <1>1, <1>2, InitEstablishes, PTL DEF SubmissionSpec

-------------------------------------------------------------------------------
(* Theorems. *)

\* An order is bought at most once, however often it is sent and its blockhash renewed
\* (Execute in execution_solana.go, Process in execution.go).
THEOREM BoughtOnce == SubmissionSpec => []LandsOnce
<1>1. SubmissionInv => LandsOnce
  BY DEF SubmissionInv, LastSigned, LandsOnce, Outside
<1> QED
  BY <1>1, SubmissionInvInvariant, PTL

\* A Solana order that is reported as confirmed has landed for good; an order that is
\* reported as failed has bought nothing, unless an answer was lost, the time to wait
\* was over, or the block that said so was thrown out (confirmWithTimeout, pollReceipt).
THEOREM ReportsAgree == SubmissionSpec => []ResultTellsTheChain
<1>1. ASSUME SubmissionInv, NEW o \in SubmittedOrders, outcome[o] \in {"refused", "reverted"}, Landed(o)
      PROVE  outcome[o] = "reverted" /\ forks > 0
  <2>1. PICK tx \in DOMAIN blocks : tx[1] = o /\ ~blocks[tx].err
    BY <1>1 DEF Landed
  <2>2. tx \in Outside /\ tx = Sent(o)
    BY <1>1, <2>1 DEF Outside, SubmissionInv, LastSigned
  <2> QED
    BY <1>1, <2>1, <2>2 DEF SubmissionInv, Tells, SubmissionShape
<1>2. SubmissionInv => ResultTellsTheChain
  BY <1>1 DEF SubmissionInv, Tells, ResultTellsTheChain
<1> QED
  BY <1>2, SubmissionInvInvariant, PTL

-------------------------------------------------------------------------------
(* The types of the executors. A nonce is the number of the wallet's orders *)
(* that have one.                                                          *)

Signers(w) == {o \in EvmOrders : WalletOf[o] = w /\ order[o].key # -1}

\* An order that may still send has a key, and only Solana's are renewed and recorded.
KeyOK(o, stop) ==
  /\ stop.key \in KeysOf(o) \union {-1}
  /\ stop.at = "start" => stop.key = -1
  /\ stop.at \in {"send", "expired"} => stop.key # -1
  /\ stop.at \in {"expired", "record"} => o \in SolanaOrders

SubmissionTyped ==
  /\ order \in [SubmittedOrders -> [at : Stops, key : Int, attempt : Nat]]
  /\ \A o \in SubmittedOrders : KeyOK(o, order[o])
  /\ nonces \in [Wallets -> Nat]
  /\ \A w \in Wallets : nonces[w] = Cardinality(Signers(w))
  /\ DOMAIN signatures \subseteq SolanaOrders
  /\ \A o \in DOMAIN signatures :
       signatures[o] \in [status : {"confirmed", "failed"}, key : Heights \union {-1}]
  /\ outcome \in [SubmittedOrders -> Ends \union {"none"}]
  /\ height \in Heights /\ forks \in 0..MaxForks
  /\ pool \subseteq Transactions
  /\ DOMAIN blocks \subseteq Transactions
  /\ \A tx \in DOMAIN blocks : blocks[tx] \in Fates

LEMMA OrderKinds ==
  /\ \A o \in SolanaOrders : o \notin EvmOrders /\ KeysOf(o) = Heights
  /\ \A o \in EvmOrders : o \notin SolanaOrders /\ KeysOf(o) = 0..Cardinality(EvmOrders) - 1
  /\ \A o \in SubmittedOrders : KeysOf(o) \subseteq Int /\ -1 \notin KeysOf(o)
  /\ IsFiniteSet(EvmOrders) /\ Cardinality(EvmOrders) \in Nat
  /\ MaxHeight \in Nat /\ MaxForks \in Nat
<1>1. IsFiniteSet(EvmOrders) /\ Cardinality(EvmOrders) \in Nat
  BY SubmissionAssumption, FS_CardinalityType
<1>2. MaxHeight \in Nat /\ MaxForks \in Nat
  BY SubmissionAssumption
<1>3. /\ \A o \in SolanaOrders : o \notin EvmOrders /\ KeysOf(o) = Heights
      /\ \A o \in EvmOrders : o \notin SolanaOrders /\ KeysOf(o) = 0..Cardinality(EvmOrders) - 1
  BY SubmissionAssumption DEF KeysOf
<1>4. ASSUME NEW o \in SubmittedOrders PROVE KeysOf(o) \subseteq Int /\ -1 \notin KeysOf(o)
  BY <1>1, <1>2, <1>3 DEF SubmittedOrders, Heights
<1> QED BY <1>1, <1>2, <1>3, <1>4

LEMMA SubmissionTypedInit == SubmissionInit => SubmissionTyped
<1> SUFFICES ASSUME SubmissionInit PROVE SubmissionTyped
  OBVIOUS
<1>1. \A o \in SubmittedOrders : order[o] = AtStart
  BY DEF SubmissionInit
<1>2. \A o \in SubmittedOrders : KeyOK(o, order[o])
  BY <1>1 DEF KeyOK, AtStart
<1>3. ASSUME NEW w \in Wallets PROVE nonces[w] = Cardinality(Signers(w))
  <2>1. Signers(w) = {}
    BY <1>1 DEF Signers, AtStart, SubmittedOrders
  <2> QED BY <2>1, FS_EmptySet DEF SubmissionInit
<1>4. height \in Heights /\ forks \in 0..MaxForks
  BY OrderKinds DEF SubmissionInit, Heights
<1>5. order \in [SubmittedOrders -> [at : Stops, key : Int, attempt : Nat]]
  BY DEF SubmissionInit, AtStart, Stops
<1> QED BY <1>2, <1>3, <1>4, <1>5 DEF SubmissionInit, SubmissionTyped

\* A step of the executor of o that leaves it at a stop, and the keys of the wallets
\* agreeing with their nonces.
LEMMA ExecutorTyped ==
  ASSUME SubmissionTyped, NEW o \in SubmittedOrders,
         NEW stop \in [at : Stops, key : Int, attempt : Nat], KeyOK(o, stop),
         order' = [order EXCEPT ![o] = stop],
         \/ nonces' = nonces /\ (o \in EvmOrders => stop.key = order[o].key)
         \/ /\ o \in EvmOrders /\ order[o].key = -1 /\ stop.key # -1
            /\ nonces' = [nonces EXCEPT ![WalletOf[o]] = @ + 1],
         outcome' \in [SubmittedOrders -> Ends \union {"none"}],
         pool' = pool \/ (pool' = pool \union {Sent(o)} /\ order[o].at = "send"),
         DOMAIN signatures' \subseteq SolanaOrders,
         \A p \in DOMAIN signatures' :
           signatures'[p] \in [status : {"confirmed", "failed"}, key : Heights \union {-1}],
         UNCHANGED <<height, blocks, forks>>
  PROVE  SubmissionTyped'
<1>1. /\ order' \in [SubmittedOrders -> [at : Stops, key : Int, attempt : Nat]]
      /\ order'[o] = stop /\ \A p \in SubmittedOrders \ {o} : order'[p] = order[p]
  BY DEF SubmissionTyped
<1>2. \A p \in SubmittedOrders : KeyOK(p, order'[p])
  BY <1>1 DEF SubmissionTyped
<1>3. \A p \in SubmittedOrders : KeyOK(p, order[p])'
  BY <1>2 DEF KeyOK, KeysOf, Heights
<1>4. nonces' \in [Wallets -> Nat]
  BY DEF SubmissionTyped, Wallets
<1>5. ASSUME NEW w \in Wallets PROVE nonces'[w] = Cardinality(Signers(w)')
  <2>1. CASE Signers(w)' = Signers(w) /\ nonces'[w] = nonces[w]
    BY <2>1 DEF SubmissionTyped
  <2>2. CASE nonces' = nonces /\ (o \in EvmOrders => stop.key = order[o].key)
    <3> Signers(w)' = Signers(w)
      BY <1>1, <2>2 DEF Signers, SubmittedOrders
    <3> QED BY <2>1, <2>2
  <2>3. CASE /\ o \in EvmOrders /\ order[o].key = -1 /\ stop.key # -1
             /\ nonces' = [nonces EXCEPT ![WalletOf[o]] = @ + 1]
    <3>1. CASE WalletOf[o] # w
      <4>1. Signers(w)' = Signers(w)
        BY <1>1, <2>3, <3>1 DEF Signers, SubmittedOrders
      <4>2. nonces'[w] = nonces[w]
        BY <2>3, <3>1 DEF SubmissionTyped
      <4> QED BY <2>1, <4>1, <4>2
    <3>2. CASE WalletOf[o] = w
      <4>1. Signers(w)' = Signers(w) \union {o} /\ o \notin Signers(w)
        BY <1>1, <2>3, <3>2 DEF Signers, SubmittedOrders
      <4>2. IsFiniteSet(Signers(w))
        BY OrderKinds, FS_Subset DEF Signers
      <4>3. Cardinality(Signers(w) \union {o}) = Cardinality(Signers(w)) + 1
        BY <4>1, <4>2, FS_AddElement
      <4>4. nonces'[w] = nonces[w] + 1
        BY <2>3, <3>2 DEF SubmissionTyped
      <4> QED BY <4>1, <4>3, <4>4 DEF SubmissionTyped
    <3> QED BY <3>1, <3>2
  <2> QED BY <2>2, <2>3
<1>6. pool' \subseteq Transactions
  <2>1. order[o].at = "send" => Sent(o) \in Transactions
    BY OrderKinds DEF SubmissionTyped, KeyOK, Sent, Transactions
  <2> QED BY <2>1 DEF SubmissionTyped
<1>7. /\ height' \in Heights /\ forks' \in 0..MaxForks
      /\ DOMAIN blocks' \subseteq Transactions
      /\ \A tx \in DOMAIN blocks' : blocks'[tx] \in Fates
  BY DEF SubmissionTyped
<1> QED BY <1>1, <1>3, <1>4, <1>5, <1>6, <1>7 DEF SubmissionTyped

\* Stops that keep the key.
LEMMA GoesTyped ==
  ASSUME SubmissionTyped, NEW o \in SubmittedOrders, NEW at \in Stops, Goes(o, at),
         at # "start", at \in {"send", "expired"} => order[o].key # -1,
         at \in {"expired", "record"} => o \in SolanaOrders
  PROVE  \E stop \in [at : Stops, key : Int, attempt : Nat] :
           /\ KeyOK(o, stop) /\ order' = [order EXCEPT ![o] = stop]
           /\ stop.key = order[o].key
<1> DEFINE stop == [order[o] EXCEPT !.at = at]
<1>1. order[o] \in [at : Stops, key : Int, attempt : Nat] /\ KeyOK(o, order[o])
  BY DEF SubmissionTyped
<1>2. stop \in [at : Stops, key : Int, attempt : Nat] /\ stop.at = at /\ stop.key = order[o].key
  BY <1>1
<1>3. order' = [order EXCEPT ![o] = stop]
  BY DEF Goes
<1> HIDE DEF stop
<1>4. KeyOK(o, stop)
  BY <1>1, <1>2 DEF KeyOK
<1> QED BY <1>2, <1>3, <1>4

LEMMA ReturnsTyped ==
  ASSUME SubmissionTyped, NEW o \in SubmittedOrders, NEW end \in Ends, Returns(o, end)
  PROVE  /\ outcome' \in [SubmittedOrders -> Ends \union {"none"}]
         /\ \E stop \in [at : Stops, key : Int, attempt : Nat] :
              /\ KeyOK(o, stop) /\ order' = [order EXCEPT ![o] = stop]
              /\ stop.key = order[o].key
<1>1. PICK at \in {"record", "done"} : Goes(o, at) /\ (at = "record" => o \in SolanaOrders)
  BY DEF Returns
<1>2. outcome' \in [SubmittedOrders -> Ends \union {"none"}]
  BY DEF Returns, SubmissionTyped
<1>3. at \in Stops /\ at # "start" /\ at \notin {"send", "expired"}
  BY DEF Stops
<1> QED BY <1>1, <1>2, <1>3, GoesTyped

\* A transaction is signed with a key of its order.
LEMMA SignsTyped ==
  ASSUME SubmissionTyped, NEW o \in SubmittedOrders, NEW key \in KeysOf(o),
         NEW attempt \in Nat, order' = [order EXCEPT ![o] = [at |-> "send", key |-> key, attempt |-> attempt]]
  PROVE  \E stop \in [at : Stops, key : Int, attempt : Nat] :
           KeyOK(o, stop) /\ order' = [order EXCEPT ![o] = stop] /\ stop.key = key /\ key # -1
<1> DEFINE stop == [at |-> "send", key |-> key, attempt |-> attempt]
<1>1. key \in Int /\ key # -1
  BY OrderKinds
<1>2. stop \in [at : Stops, key : Int, attempt : Nat] /\ stop.at = "send" /\ stop.key = key
  BY <1>1 DEF Stops
<1>3. order' = [order EXCEPT ![o] = stop]
  OBVIOUS
<1> HIDE DEF stop
<1>4. KeyOK(o, stop)
  BY <1>1, <1>2 DEF KeyOK
<1> QED BY <1>1, <1>2, <1>3, <1>4

LEMMA SolanaStepTyped ==
  ASSUME SubmissionTyped, NEW o \in SubmittedOrders,
         \/ FetchBlockhash(o) \/ SendTransaction(o) \/ RenewBlockhash(o)
         \/ ConfirmSignature(o) \/ InsertSolanaSignature(o)
  PROVE  SubmissionTyped'
<1>0. /\ order[o] \in [at : Stops, key : Int, attempt : Nat] /\ KeyOK(o, order[o])
      /\ o \in SolanaOrders /\ o \notin EvmOrders /\ KeysOf(o) = Heights
      /\ outcome \in [SubmittedOrders -> Ends \union {"none"}]
      /\ DOMAIN signatures \subseteq SolanaOrders
      /\ \A p \in DOMAIN signatures :
           signatures[p] \in [status : {"confirmed", "failed"}, key : Heights \union {-1}]
  BY OrderKinds DEF SubmissionTyped, KeyOK, FetchBlockhash, SendTransaction, RenewBlockhash,
                    ConfirmSignature, InsertSolanaSignature
<1>1. CASE FetchBlockhash(o)
  <2>1. /\ nonces' = nonces /\ signatures' = signatures /\ pool' = pool
        /\ UNCHANGED <<height, blocks, forks>>
    BY <1>1 DEF FetchBlockhash, chainVars
  <2>2. CASE Returns(o, "refused")
    <3> "refused" \in Ends
      BY DEF Ends
    <3> QED BY <1>0, <2>1, <2>2, ReturnsTyped, ExecutorTyped
  <2>3. ASSUME NEW h \in LatestBlockhash, Signs(o, h), UNCHANGED outcome PROVE SubmissionTyped'
    <3>1. h \in KeysOf(o) /\ order[o].attempt \in Nat
      BY <1>0 DEF LatestBlockhash
    <3>2. order' = [order EXCEPT ![o] = [at |-> "send", key |-> h, attempt |-> order[o].attempt]]
      BY <2>3 DEF Signs
    <3> QED BY <1>0, <2>1, <2>3, <3>1, <3>2, SignsTyped, ExecutorTyped
  <2> QED BY <1>1, <2>2, <2>3 DEF FetchBlockhash
<1>2. CASE SendTransaction(o)
  <2>1. /\ nonces' = nonces /\ signatures' = signatures
        /\ UNCHANGED <<height, blocks, forks>> /\ order[o].at = "send" /\ order[o].key # -1
        /\ pool' = pool \/ pool' = pool \union {Sent(o)}
    BY <1>0, <1>2 DEF SendTransaction, Taken, KeyOK
  <2>2. PICK answer \in {"signature", "lost", "blank", "expired", "error"} : SendAnswered(o, answer)
    BY <1>2 DEF SendTransaction
  <2>3. CASE \E at \in {"poll", "expired"} : Goes(o, at) /\ UNCHANGED outcome
    <3>1. PICK at \in {"poll", "expired"} : Goes(o, at) /\ UNCHANGED outcome
      BY <2>3
    <3>2. at \in Stops /\ at # "start"
      BY DEF Stops
    <3> QED BY <1>0, <2>1, <3>1, <3>2, GoesTyped, ExecutorTyped
  <2>4. CASE \E end \in {"unanswered", "refused"} : Returns(o, end)
    <3> {"unanswered", "refused"} \subseteq Ends
      BY DEF Ends
    <3> QED BY <1>0, <2>1, <2>4, ReturnsTyped, ExecutorTyped
  <2> QED BY <2>2, <2>3, <2>4 DEF SendAnswered
<1>3. CASE RenewBlockhash(o)
  <2>1. /\ nonces' = nonces /\ signatures' = signatures /\ pool' = pool /\ outcome' = outcome
        /\ UNCHANGED <<height, blocks, forks>> /\ order[o].at = "expired" /\ order[o].key # -1
    BY <1>0, <1>3 DEF RenewBlockhash, chainVars, KeyOK
  <2>2. PICK h \in LatestBlockhash \union {order[o].key} :
          order' = [order EXCEPT ![o] = [at |-> "send", key |-> h, attempt |-> order[o].attempt + 1]]
    BY <1>3 DEF RenewBlockhash
  <2>3. h \in KeysOf(o) /\ order[o].attempt + 1 \in Nat
    BY <1>0, <2>1 DEF LatestBlockhash, KeyOK
  <2> QED BY <1>0, <2>1, <2>2, <2>3, SignsTyped, ExecutorTyped
<1>4. CASE ConfirmSignature(o)
  <2>1. /\ nonces' = nonces /\ signatures' = signatures /\ pool' = pool
        /\ UNCHANGED <<height, blocks, forks>>
    BY <1>4 DEF ConfirmSignature, chainVars
  <2>2. PICK end \in {"reverted", "confirmed", "unseen"} : Returns(o, end)
    BY <1>4 DEF ConfirmSignature
  <2>3. end \in Ends
    BY DEF Ends
  <2> QED BY <1>0, <2>1, <2>2, <2>3, ReturnsTyped, ExecutorTyped
<1>5. CASE InsertSolanaSignature(o)
  <2>1. /\ nonces' = nonces /\ outcome' = outcome /\ pool' = pool
        /\ UNCHANGED <<height, blocks, forks>> /\ Goes(o, "done")
    BY <1>5 DEF InsertSolanaSignature, chainVars
  <2> DEFINE row == [status |-> IF outcome[o] = "confirmed" THEN "confirmed" ELSE "failed",
                     key |-> IF outcome[o] \in {"refused", "unanswered"} THEN -1 ELSE order[o].key]
  <2>2. row \in [status : {"confirmed", "failed"}, key : Heights \union {-1}]
    BY <1>0 DEF KeyOK
  <2>3. \/ signatures' = [p \in DOMAIN signatures \union {o} |-> IF p = o THEN row ELSE signatures[p]]
        \/ signatures' = signatures
    BY <1>5 DEF InsertSolanaSignature
  <2> HIDE DEF row
  <2>4. /\ DOMAIN signatures' \subseteq SolanaOrders
        /\ \A p \in DOMAIN signatures' :
             signatures'[p] \in [status : {"confirmed", "failed"}, key : Heights \union {-1}]
    BY <1>0, <2>2, <2>3
  <2>5. "done" \in Stops
    BY DEF Stops
  <2> QED BY <1>0, <2>1, <2>4, <2>5, GoesTyped, ExecutorTyped
<1> QED BY <1>1, <1>2, <1>3, <1>4, <1>5

\* A wallet gives out fewer nonces than there are orders that ask for one.
LEMMA NonceIsFree ==
  ASSUME SubmissionTyped, NEW o \in EvmOrders, order[o].key = -1
  PROVE  WalletOf[o] \in Wallets /\ nonces[WalletOf[o]] \in KeysOf(o)
<1>1. Signers(WalletOf[o]) \subseteq EvmOrders \ {o} /\ WalletOf[o] \in Wallets
  BY DEF Signers, Wallets, SubmittedOrders
<1>2. IsFiniteSet(EvmOrders \ {o}) /\ Cardinality(EvmOrders \ {o}) = Cardinality(EvmOrders) - 1
  BY OrderKinds, FS_RemoveElement
<1>3. Cardinality(Signers(WalletOf[o])) <= Cardinality(EvmOrders) - 1
  BY <1>1, <1>2, FS_Subset
<1>4. nonces[WalletOf[o]] \in Nat /\ nonces[WalletOf[o]] = Cardinality(Signers(WalletOf[o]))
  BY <1>1 DEF SubmissionTyped
<1> QED BY <1>1, <1>3, <1>4, OrderKinds

LEMMA EvmStepTyped ==
  ASSUME SubmissionTyped, NEW o \in SubmittedOrders,
         AllocateNonce(o) \/ SendRawTransaction(o) \/ PollReceipt(o) \/ ExecutorStops(o)
  PROVE  SubmissionTyped'
<1>0. /\ order[o] \in [at : Stops, key : Int, attempt : Nat] /\ KeyOK(o, order[o])
      /\ outcome \in [SubmittedOrders -> Ends \union {"none"}]
      /\ DOMAIN signatures \subseteq SolanaOrders
      /\ \A p \in DOMAIN signatures :
           signatures[p] \in [status : {"confirmed", "failed"}, key : Heights \union {-1}]
      /\ {"poll", "stopped"} \subseteq Stops
  BY DEF SubmissionTyped, Stops
<1>1. CASE AllocateNonce(o)
  <2>1. /\ signatures' = signatures /\ pool' = pool /\ outcome' = outcome
        /\ UNCHANGED <<height, blocks, forks>> /\ o \in EvmOrders /\ order[o].key = -1
    BY <1>0, <1>1 DEF AllocateNonce, chainVars, KeyOK
  <2>2. CASE Goes(o, "stopped") /\ UNCHANGED nonces
    BY <1>0, <2>1, <2>2, GoesTyped, ExecutorTyped
  <2>3. CASE Signs(o, nonces[WalletOf[o]]) /\ nonces' = [nonces EXCEPT ![WalletOf[o]] = @ + 1]
    <3>1. PICK key \in KeysOf(o), attempt \in Nat :
            order' = [order EXCEPT ![o] = [at |-> "send", key |-> key, attempt |-> attempt]]
      <4>1. nonces[WalletOf[o]] \in KeysOf(o) /\ order[o].attempt \in Nat
        BY <1>0, <2>1, NonceIsFree
      <4>2. order' = [order EXCEPT ![o] = [at |-> "send", key |-> nonces[WalletOf[o]], attempt |-> order[o].attempt]]
        BY <2>3 DEF Signs
      <4> QED BY <4>1, <4>2
    <3>3. PICK stop \in [at : Stops, key : Int, attempt : Nat] :
            KeyOK(o, stop) /\ order' = [order EXCEPT ![o] = stop] /\ stop.key # -1
      BY <3>1, SignsTyped
    <3>4. nonces' = [nonces EXCEPT ![WalletOf[o]] = @ + 1]
      BY <2>3
    <3> QED BY <1>0, <2>1, <3>3, <3>4, ExecutorTyped
  <2> QED BY <1>1, <2>2, <2>3 DEF AllocateNonce
<1>2. CASE SendRawTransaction(o)
  <2>1. /\ nonces' = nonces /\ signatures' = signatures
        /\ UNCHANGED <<height, blocks, forks>> /\ order[o].at = "send"
        /\ pool' = pool \/ pool' = pool \union {Sent(o)}
    BY <1>2 DEF SendRawTransaction, Taken
  <2>2. CASE Goes(o, "poll") /\ UNCHANGED outcome
    BY <1>0, <2>1, <2>2, GoesTyped, ExecutorTyped
  <2>3. CASE \E end \in {"unanswered", "refused"} : Returns(o, end)
    <3> {"unanswered", "refused"} \subseteq Ends
      BY DEF Ends
    <3> QED BY <1>0, <2>1, <2>3, ReturnsTyped, ExecutorTyped
  <2> QED BY <1>2, <2>2, <2>3 DEF SendRawTransaction
<1>3. CASE PollReceipt(o)
  <2>1. /\ nonces' = nonces /\ signatures' = signatures /\ pool' = pool
        /\ UNCHANGED <<height, blocks, forks>>
    BY <1>3 DEF PollReceipt, chainVars
  <2>2. PICK end \in {"reverted", "confirmed", "unanswered", "unseen"} : Returns(o, end)
    BY <1>3 DEF PollReceipt
  <2>3. end \in Ends
    BY DEF Ends
  <2> QED BY <1>0, <2>1, <2>2, <2>3, ReturnsTyped, ExecutorTyped
<1>4. CASE ExecutorStops(o)
  <2>1. /\ nonces' = nonces /\ signatures' = signatures /\ pool' = pool /\ outcome' = outcome
        /\ UNCHANGED <<height, blocks, forks>> /\ Goes(o, "stopped")
    BY <1>4 DEF ExecutorStops, chainVars
  <2> QED BY <1>0, <2>1, GoesTyped, ExecutorTyped
<1> QED BY <1>1, <1>2, <1>3, <1>4

LEMMA ChainStepTyped ==
  ASSUME SubmissionTyped,
         /\ UNCHANGED <<order, nonces, signatures, outcome>>
         /\ height' \in Heights /\ forks' \in 0..MaxForks
         /\ pool' \subseteq Transactions /\ DOMAIN blocks' \subseteq Transactions
         /\ \A tx \in DOMAIN blocks' : blocks'[tx] \in Fates
  PROVE  SubmissionTyped'
<1>1. \A w \in Wallets : Signers(w)' = Signers(w)
  BY DEF Signers
<1>2. \A o \in SubmittedOrders : KeyOK(o, order[o])'
  BY DEF SubmissionTyped, KeyOK
<1> QED BY <1>1, <1>2 DEF SubmissionTyped

LEMMA SubmissionTypedStep == SubmissionTyped /\ [SubmissionNext]_submissionVars => SubmissionTyped'
<1> SUFFICES ASSUME SubmissionTyped, [SubmissionNext]_submissionVars PROVE SubmissionTyped'
  OBVIOUS
<1>0. /\ height \in Heights /\ forks \in 0..MaxForks /\ pool \subseteq Transactions
      /\ DOMAIN blocks \subseteq Transactions
      /\ \A tx \in DOMAIN blocks : blocks[tx] \in Fates
      /\ MaxHeight \in Nat /\ MaxForks \in Nat
  BY OrderKinds DEF SubmissionTyped
<1>1. CASE NewBlock
  <2>1. height' \in Heights
    BY <1>0, <1>1 DEF NewBlock, Heights
  <2> QED BY <1>0, <1>1, <2>1, ChainStepTyped DEF NewBlock
<1>2. ASSUME NEW tx \in Transactions, Include(tx) PROVE SubmissionTyped'
  <2>1. PICK err \in BOOLEAN :
          blocks' = [t \in DOMAIN blocks \union {tx} |->
                       IF t = tx THEN [commitment |-> "processed", err |-> err] ELSE blocks[t]]
    BY <1>2 DEF Include
  <2>2. [commitment |-> "processed", err |-> err] \in Fates
    BY DEF Fates
  <2>3. DOMAIN blocks' \subseteq Transactions /\ \A t \in DOMAIN blocks' : blocks'[t] \in Fates
    BY <1>0, <2>1, <2>2
  <2> QED BY <1>0, <1>2, <2>3, ChainStepTyped DEF Include
<1>3. ASSUME NEW tx \in Transactions, Finalize(tx) PROVE SubmissionTyped'
  <2>1. blocks' = [blocks EXCEPT ![tx].commitment = "confirmed"] /\ tx \in DOMAIN blocks
    BY <1>3 DEF Finalize
  <2>2. [blocks[tx] EXCEPT !.commitment = "confirmed"] \in Fates
    BY <1>0, <2>1 DEF Fates
  <2>3. DOMAIN blocks' \subseteq Transactions /\ \A t \in DOMAIN blocks' : blocks'[t] \in Fates
    BY <1>0, <2>1, <2>2
  <2> QED BY <1>0, <1>3, <2>3, ChainStepTyped DEF Finalize
<1>4. ASSUME NEW tx \in Transactions, Fork(tx) PROVE SubmissionTyped'
  <2>1. forks' \in 0..MaxForks
    BY <1>0, <1>4 DEF Fork
  <2>2. DOMAIN blocks' \subseteq Transactions /\ \A t \in DOMAIN blocks' : blocks'[t] \in Fates
    BY <1>0, <1>4 DEF Fork
  <2> QED BY <1>0, <1>4, <2>1, <2>2, ChainStepTyped DEF Fork
<1>5. CASE UNCHANGED submissionVars
  BY <1>0, <1>5, ChainStepTyped DEF submissionVars, chainVars
<1> QED BY <1>1, <1>2, <1>3, <1>4, <1>5, SolanaStepTyped, EvmStepTyped
        DEF SubmissionNext, ChainStep, ExecutorStep

\* Every variable of the executors and of the chains keeps its type; above all, a
\* wallet gives out no more nonces than it has orders (AllocateNonce).
THEOREM SubmissionTypeCorrect == SubmissionSpec => []SubmissionTypeOK
<1>1. SubmissionTyped => SubmissionTypeOK
  BY DEF SubmissionTyped, SubmissionTypeOK, KeyOK
<1> QED BY <1>1, SubmissionTypedInit, SubmissionTypedStep, PTL DEF SubmissionSpec

-------------------------------------------------------------------------------
(* Prices: how old what a call holds may be. *)

CallStates == [at : {"idle", "resolve", "account", "store", "dex", "got", "other"},
               spent : 0..MaxCall, value : Values]

\* A value is no older than its call once it is read, and as old as its stamp says
\* before, but for the pool, whose cache is stamped when it is written.
CallOK(call) ==
  /\ call \in CallStates
  /\ call.at = "resolve" => feed = "pool"
  /\ call.at = "account" /\ feed = "usd" => call.value.read <= call.value.stamp
  /\ call.at = "store" => call.value.read <= call.spent /\ call.value.price # NoPrice
  /\ call.at = "got" /\ call.value.as # "none" => call.value.read <= StaleMax + MaxCall

CacheOK(value) ==
  /\ value \in Values
  /\ feed = "pool" => value.read <= value.stamp + MaxCall
  /\ feed = "usd" => value.read <= value.stamp

Positions ==
  [status : {"none", "open"}, entry : Prices \union {Placeholder}, peak : Prices,
   filled : {0, Tp1FilledPct}, trail : {0, TrailingStop}, age : PositionAges]

FeedOK ==
  /\ feed \in {"pool", "usd"} /\ account \in Kinds /\ polled \in BOOLEAN
  /\ asked = [c \in Askers |-> asked[c]]
  /\ \A c \in Askers : CallOK(asked[c])
  /\ CacheOK(cache)

PositionOK ==
  position \in Positions /\ exits \subseteq Rules /\ spoilt \in 0..PricingFaults

\* What is left of a cycle: a call for each position that has not had its turn, and the
\* rest of the call under way.
Turns == cycle.others + (IF cycle.mine THEN 1 ELSE 0)
Rest == IF asked[Poll].at # "idle" THEN MaxCall - asked[Poll].spent ELSE 0

CycleOK ==
  /\ cycle \in [mine : BOOLEAN, others : 0..MaxListed, spent : 0..MaxCycle]
  /\ cycle.spent + Turns * MaxCall + Rest <= MaxCycle

\* How late a position that is not closed can be: a cycle that begins in time sees
\* the end of its time, unless the list or its snapshot is lost; the ticker lets no
\* unit pass in between.
Latest == MaxHold - 1 + (1 + spoilt) * MaxCycle
Awaited == cycle.mine \/ asked[Poll].at \notin {"idle", "other"}
Closing ==
  /\ Awaited => position.status = "open"
  /\ polled => ~ Cycling \/ cycle.spent = 0
  /\ position.status = "open" /\ exits = {} =>
       position.age <= IF Awaited THEN Latest + cycle.spent
                       ELSE IF Cycling THEN Latest - MaxCycle + cycle.spent
                       ELSE IF polled THEN Latest - 1 ELSE Latest

PricingInv == FeedOK /\ CycleOK /\ PositionOK /\ (Tp1FilledPct = 0 => Closing)

\* Products of naturals.
LEMMA Products ==
  ASSUME NEW a \in Nat, NEW b \in Nat
  PROVE  /\ a * b \in Nat /\ (a + 1) * b = a * b + b
         /\ \A c \in Nat : a <= c => a * b <= c * b
<1>1. a * b \in Nat /\ (a + 1) * b = a * b + b
  OBVIOUS
<1>2. ASSUME NEW c \in Nat, a <= c PROVE a * b <= c * b
  <2>1. PICK d \in Nat : c = a + d
    <3>1. c - a \in Nat /\ c = a + (c - a)
      BY <1>2
    <3> QED BY <3>1
  <2>2. c * b = a * b + d * b /\ d * b \in Nat /\ a * b \in Nat
    BY <2>1
  <2> QED BY <2>2
<1> QED BY <1>1, <1>2

LEMMA PricingConstants ==
  /\ Levels \subseteq Nat \ {0} /\ Placeholder \in Nat \ {0}
  /\ CacheTTL \in Nat /\ StaleMax \in Nat /\ MaxCall \in Nat \ {0} /\ MaxHold \in Nat \ {0}
  /\ PricingFaults \in Nat /\ CacheTTL <= StaleMax /\ StaleMax + MaxCall + 1 \in Nat
  /\ MaxListed \in Nat \ {0} /\ MaxCycle \in Nat \ {0}
  /\ MaxHold + (PricingFaults + 2) * MaxCycle \in Nat
  /\ Poll \in Askers /\ Poll \notin Others
<1>1. MaxCall \in Nat \ {0} /\ MaxListed \in Nat \ {0} /\ 1 * MaxCall = MaxCall
  BY PricingAssumption
<1>2. MaxCycle \in Nat \ {0}
  <2>1. 1 <= MaxListed
    BY <1>1
  <2>2. 1 * MaxCall <= MaxListed * MaxCall /\ MaxListed * MaxCall \in Nat
    BY <1>1, <2>1, Products
  <2> QED BY <1>1, <2>2 DEF MaxCycle
<1>3. (PricingFaults + 2) * MaxCycle \in Nat
  BY <1>2, Products, PricingAssumption
<1> QED BY <1>1, <1>2, <1>3, PricingAssumption DEF Askers

LEMMA AgesOfPositions == 0 \in PositionAges /\ PositionAges \subseteq Nat
BY PricingConstants DEF PositionAges

LEMMA EmptyOK == Empty \in Values /\ ~ Held(Empty) /\ Empty.read = 0 /\ Empty.stamp = 0
                 /\ Empty.as = "none"
BY PricingConstants DEF Empty, Values, Prices, Ages, Held

LEMMA QuietOK == CallOK(Quiet)
BY EmptyOK, PricingConstants DEF Quiet, CallOK, CallStates

LEMMA ElsewhereOK == CallOK(Elsewhere) /\ Elsewhere.at = "other" /\ Elsewhere.spent = 0
BY EmptyOK, PricingConstants DEF Elsewhere, Quiet, CallOK, CallStates

LEMMA LatestFacts ==
  ASSUME PositionOK
  PROVE  /\ Latest \in Int /\ Latest >= MaxHold - 1 + MaxCycle
         /\ spoilt' = spoilt => Latest' = Latest
         /\ spoilt' = spoilt + 1 => Latest' = Latest + MaxCycle
<1>1. /\ spoilt \in Nat /\ MaxCycle \in Nat /\ MaxHold \in Nat
      /\ (1 + spoilt) * MaxCycle = MaxCycle + spoilt * MaxCycle /\ spoilt * MaxCycle \in Nat
  BY PricingConstants DEF PositionOK
<1>2. (1 + (spoilt + 1)) * MaxCycle = (1 + spoilt) * MaxCycle + MaxCycle
  BY <1>1
<1> QED BY <1>1, <1>2 DEF Latest

LEMMA PricingInitial == PricingInit => PricingInv
<1> SUFFICES ASSUME PricingInit PROVE PricingInv
  OBVIOUS
<1>1. \A c \in Askers : CallOK(asked[c])
  BY QuietOK DEF PricingInit
<1>2. FeedOK
  <2>1. CacheOK(cache)
    BY EmptyOK, PricingConstants DEF PricingInit, CacheOK
  <2> QED BY <1>1, <2>1 DEF FeedOK, PricingInit
<1>3. PositionOK
  <2>1. position \in Positions
    BY AgesOfPositions DEF PricingInit, Positions, NoPosition, Prices
  <2>2. spoilt \in 0..PricingFaults
    BY PricingConstants DEF PricingInit
  <2> QED BY <2>1, <2>2 DEF PositionOK, PricingInit
<1>4. asked[Poll] = Quiet
  BY PricingConstants DEF PricingInit
<1>5. Closing
  BY <1>4 DEF Closing, Awaited, Cycling, PricingInit, Quiet, NoPosition, NoCycle
<1>6. CycleOK
  <2>1. Turns = 0 /\ Rest = 0 /\ cycle = NoCycle
    BY <1>4 DEF PricingInit, Turns, Rest, NoCycle, Quiet
  <2>2. 0 * MaxCall = 0
    BY PricingConstants
  <2> QED BY <2>1, <2>2, PricingConstants DEF CycleOK, NoCycle
<1> QED BY <1>2, <1>3, <1>5, <1>6 DEF PricingInv

LEMMA OlderOK ==
  ASSUME NEW a \in Ages, NEW b \in Ages, NEW k \in Nat, a <= b + k
  PROVE  /\ Older(a) \in Ages /\ Older(a) <= a + 1
         /\ Older(a) <= Older(b) + k
BY PricingConstants DEF Older, Ages

\* A step of one call leaves the others, and keeps the bound on the position.
LEMMA OneCall ==
  ASSUME PricingInv, NEW c \in Askers, NEW call, asked' = [asked EXCEPT ![c] = call],
         CallOK(call), UNCHANGED <<feed, account, cycle, polled, exits, spoilt, position>>,
         cache' = cache \/ CacheOK(cache'), call.spent = asked[c].spent,
         call.at \notin {"idle", "other"}, asked[c].at \notin {"idle", "other"}
  PROVE  PricingInv'
<1>1. \A d \in Askers : asked'[d] = IF d = c THEN call ELSE asked[d]
  BY DEF PricingInv, FeedOK
<1>2. \A d \in Askers : CallOK(asked'[d])
  BY <1>1 DEF PricingInv, FeedOK
<1>3. FeedOK'
  BY <1>2 DEF PricingInv, FeedOK, CallOK, CacheOK
<1>4. PositionOK'
  BY DEF PricingInv, PositionOK
<1>5. /\ asked'[Poll].spent = asked[Poll].spent
      /\ asked'[Poll].at = "idle" <=> asked[Poll].at = "idle"
      /\ asked'[Poll].at = "other" <=> asked[Poll].at = "other"
  BY <1>1, PricingConstants
<1>6. Tp1FilledPct = 0 => Closing'
  BY <1>5 DEF PricingInv, Closing, Awaited, Cycling, Latest
<1>7. CycleOK'
  BY <1>5 DEF PricingInv, CycleOK, Turns, Rest
<1> QED BY <1>3, <1>4, <1>6, <1>7 DEF PricingInv

\* The position whose turn it is has a whole call before it.
LEMMA TurnTaken ==
  ASSUME PricingInv, asked[Poll].at = "idle", asked'[Poll].at # "idle", asked'[Poll].spent = 0,
         cycle' \in [mine : BOOLEAN, others : 0..MaxListed, spent : 0..MaxCycle],
         cycle'.spent = cycle.spent, Turns = Turns' + 1
  PROVE  CycleOK'
<1>1. /\ cycle \in [mine : BOOLEAN, others : 0..MaxListed, spent : 0..MaxCycle]
      /\ cycle.spent + Turns * MaxCall + Rest <= MaxCycle
  BY DEF PricingInv, CycleOK
<1>2. Turns' \in Nat
  BY PricingConstants DEF Turns
<1>3. (Turns' + 1) * MaxCall = Turns' * MaxCall + MaxCall /\ Turns' * MaxCall \in Nat
  BY <1>2, Products, PricingConstants
<1>4. Rest = 0 /\ Rest' = MaxCall
  BY PricingConstants DEF Rest
<1>5. cycle.spent + (Turns' + 1) * MaxCall <= MaxCycle
  BY <1>1, <1>2, <1>3, <1>4, PricingConstants
<1>6. cycle'.spent + Turns' * MaxCall + Rest' <= MaxCycle
  BY <1>1, <1>3, <1>4, <1>5, PricingConstants
<1> QED BY <1>6 DEF CycleOK

\* A call that is over leaves its rest unused.
LEMMA TurnOver ==
  ASSUME PricingInv, asked'[Poll].at = "idle", cycle' = cycle
  PROVE  CycleOK'
<1>1. /\ cycle \in [mine : BOOLEAN, others : 0..MaxListed, spent : 0..MaxCycle]
      /\ cycle.spent + Turns * MaxCall + Rest <= MaxCycle
  BY DEF PricingInv, CycleOK
<1>2. Turns' = Turns /\ Turns \in Nat /\ Turns * MaxCall \in Nat
  BY <1>1, Products, PricingConstants DEF Turns
<1>3. Rest' = 0 /\ Rest \in Nat
  BY PricingConstants DEF Rest, PricingInv, FeedOK, CallOK, CallStates
<1>4. cycle'.spent + Turns' * MaxCall + Rest' <= MaxCycle
  BY <1>1, <1>2, <1>3, PricingConstants
<1> QED BY <1>1, <1>4 DEF CycleOK

\* What a call that gives up goes on with.
LEMMA GiveUpKeeps ==
  ASSUME PricingInv, NEW c \in Askers, GiveUp(c), asked[c].at \in {"resolve", "account"},
         UNCHANGED <<feed, account, cycle, polled, cache, position, exits, spoilt>>
  PROVE  PricingInv'
<1>1. PICK call : call = asked[c]
  OBVIOUS
<1>2. CallOK(call) /\ CacheOK(cache) /\ feed \in {"pool", "usd"}
  BY <1>1 DEF PricingInv, FeedOK
<1>3. PICK value : value = IF feed = "pool" THEN cache ELSE call.value
  OBVIOUS
<1>4. value \in Values
  BY <1>2, <1>3 DEF CallOK, CallStates, CacheOK
<1>5. PICK stamp : stamp = value.stamp - (IF feed = "pool" THEN 0 ELSE call.spent)
  OBVIOUS
<1>6. PICK dated : dated = [value EXCEPT !.stamp = stamp]
  OBVIOUS
<1>7. \/ CachedStale(dated) /\ Become(c, "got", value)
      \/ \E at \in {"dex", "got"} : Become(c, at, Empty)
  BY <1>1, <1>3, <1>5, <1>6 DEF GiveUp
<1>8. CASE CachedStale(dated) /\ Become(c, "got", value)
  <2>1. PICK new : new = [call EXCEPT !.at = "got", !.value = value]
    OBVIOUS
  <2>2. asked' = [asked EXCEPT ![c] = new]
    BY <1>1, <1>8, <2>1 DEF Become
  <2>3. stamp <= StaleMax
    BY <1>4, <1>6, <1>8 DEF CachedStale, Values
  <2>4. value.read <= StaleMax + MaxCall
    <3>1. CASE feed = "pool"
      BY <1>2, <1>3, <1>4, <1>5, <2>3, <3>1, PricingConstants DEF CacheOK, Values, Ages
    <3>2. CASE feed # "pool"
      <4>1. call.spent \in 0..MaxCall /\ asked[c].at = "account"
        BY <1>1, <1>2, <3>2 DEF CallOK, CallStates
      <4>2. value.read <= value.stamp
        BY <1>1, <1>2, <1>3, <3>2, <4>1 DEF CallOK
      <4> QED BY <1>4, <1>5, <2>3, <3>2, <4>1, <4>2, PricingConstants DEF Values, Ages
    <3> QED BY <3>1, <3>2
  <2>5. new \in CallStates /\ new.at = "got" /\ new.value = value /\ new.spent = call.spent
    BY <1>2, <1>4, <2>1 DEF CallOK, CallStates
  <2>6. CallOK(new)
    BY <2>4, <2>5 DEF CallOK
  <2> QED BY <1>1, <2>2, <2>5, <2>6, OneCall
<1>9. CASE \E at \in {"dex", "got"} : Become(c, at, Empty)
  <2>1. PICK at \in {"dex", "got"} : Become(c, at, Empty)
    BY <1>9
  <2>2. PICK new : new = [call EXCEPT !.at = at, !.value = Empty]
    OBVIOUS
  <2>3. asked' = [asked EXCEPT ![c] = new]
    BY <1>1, <2>1, <2>2 DEF Become
  <2>4. new \in CallStates /\ new.at = at /\ new.value = Empty /\ new.spent = call.spent
    BY <1>2, <2>2, EmptyOK DEF CallOK, CallStates
  <2>5. CallOK(new)
    BY <2>4, EmptyOK DEF CallOK
  <2> QED BY <1>1, <2>3, <2>4, <2>5, OneCall
<1> QED BY <1>7, <1>8, <1>9

LEMMA AskKeeps == ASSUME PricingInv, NEW c \in Askers, Ask(c) PROVE PricingInv'
<1> DEFINE at == IF Fresh(cache) THEN "got" ELSE IF feed = "pool" THEN "resolve" ELSE "account"
           call == [at |-> at, spent |-> 0, value |-> cache]
<1>1. /\ asked[c].at = "idle"
      /\ c = Poll => cycle.mine
      /\ cycle' = IF c = Poll THEN [cycle EXCEPT !.mine = FALSE] ELSE cycle
      /\ asked' = [asked EXCEPT ![c] = call]
      /\ UNCHANGED <<feed, account, polled, cache, position, exits, spoilt>>
  BY DEF Ask
<1>2. CacheOK(cache) /\ feed \in {"pool", "usd"}
  BY DEF PricingInv, FeedOK
<1>3. Fresh(cache) => cache.read <= StaleMax + MaxCall
  BY <1>2, PricingConstants DEF Fresh, CacheOK, Values, Ages
<1>4. CallOK(call)
  BY <1>2, <1>3, PricingConstants DEF CallOK, CallStates, CacheOK
<1>5. \A d \in Askers : asked'[d] = IF d = c THEN call ELSE asked[d]
  BY <1>1 DEF PricingInv, FeedOK
<1>6. \A d \in Askers : CallOK(asked'[d])
  BY <1>4, <1>5 DEF PricingInv, FeedOK
<1>7. FeedOK'
  BY <1>1, <1>6 DEF PricingInv, FeedOK, CallOK, CacheOK
<1>8. PositionOK'
  BY <1>1 DEF PricingInv, PositionOK
<1>9. CASE c = Poll
  <2>1. call.at \notin {"idle", "other"} /\ call.spent = 0 /\ asked'[Poll] = call
    BY <1>5, <1>9, PricingConstants
  <2>2. /\ cycle \in [mine : BOOLEAN, others : 0..MaxListed, spent : 0..MaxCycle]
        /\ cycle.spent + Turns * MaxCall + Rest <= MaxCycle
    BY DEF PricingInv, CycleOK
  <2>3. /\ cycle' \in [mine : BOOLEAN, others : 0..MaxListed, spent : 0..MaxCycle]
        /\ cycle'.others = cycle.others /\ cycle'.spent = cycle.spent /\ ~ cycle'.mine
    BY <1>1, <1>9, <2>2
  <2> HIDE DEF call
  <2>4. Turns = Turns' + 1
    BY <1>1, <1>9, <2>2, <2>3 DEF Turns
  <2>5. CycleOK'
    BY <1>1, <1>9, <2>1, <2>3, <2>4, TurnTaken
  <2>6. Tp1FilledPct = 0 => Closing'
    BY <1>1, <1>9, <2>1, <2>3 DEF PricingInv, Closing, Awaited, Cycling, Latest
  <2> QED BY <1>7, <1>8, <2>5, <2>6 DEF PricingInv
<1>10. CASE c # Poll
  <2>1. asked'[Poll] = asked[Poll] /\ cycle' = cycle
    BY <1>1, <1>5, <1>10, PricingConstants
  <2>2. CycleOK' /\ (Tp1FilledPct = 0 => Closing')
    BY <1>1, <2>1 DEF PricingInv, CycleOK, Turns, Rest, Closing, Awaited, Cycling, Latest
  <2> QED BY <1>7, <1>8, <2>2 DEF PricingInv
<1> QED BY <1>9, <1>10

LEMMA ResolveKeeps == ASSUME PricingInv, NEW c \in Askers, Resolve(c) PROVE PricingInv'
<1>1. /\ asked[c].at = "resolve"
      /\ UNCHANGED <<feed, account, cycle, polled, cache, position, exits, spoilt>>
  BY DEF Resolve
<1>2. CASE GiveUp(c)
  BY <1>1, <1>2, GiveUpKeeps
<1>3. CASE asked' = [asked EXCEPT ![c].at = "account"]
  <2>1. PICK call : call = asked[c]
    OBVIOUS
  <2>2. PICK new : new = [call EXCEPT !.at = "account"]
    OBVIOUS
  <2>3. asked' = [asked EXCEPT ![c] = new]
    BY <1>3, <2>1, <2>2
  <2>4. CallOK(call) /\ feed = "pool"
    BY <1>1, <2>1 DEF PricingInv, FeedOK, CallOK
  <2>5. new \in CallStates /\ new.at = "account" /\ new.spent = call.spent
    BY <2>2, <2>4 DEF CallOK, CallStates
  <2>6. CallOK(new)
    BY <2>4, <2>5 DEF CallOK
  <2> QED BY <1>1, <2>1, <2>3, <2>5, <2>6, OneCall
<1> QED BY <1>2, <1>3 DEF Resolve

LEMMA ReadAccountKeeps == ASSUME PricingInv, NEW c \in Askers, ReadAccount(c) PROVE PricingInv'
<1> DEFINE as == IF feed = "usd" THEN "quote" ELSE ReadsAs(account)
<1>1. /\ asked[c].at = "account"
      /\ UNCHANGED <<feed, account, cycle, polled, cache, position, exits, spoilt>>
  BY DEF ReadAccount
<1>2. CASE GiveUp(c)
  BY <1>1, <1>2, GiveUpKeeps
<1>3. CASE ~ GiveUp(c)
  <2>1. PICK price \in Levels :
          /\ as # "none"
          /\ asked' = [asked EXCEPT
                        ![c].at = "store",
                        ![c].value = [price |-> price, read |-> 0, stamp |-> 0, as |-> as]]
    BY <1>3 DEF ReadAccount
  <2>2. as \in {"curve", "amm", "raydium", "quote"}
    BY <2>1 DEF ReadsAs
  <2>3. PICK value : value = [price |-> price, read |-> 0, stamp |-> 0, as |-> as]
    OBVIOUS
  <2>4. value \in Values /\ value.read = 0 /\ value.price # NoPrice
    BY <2>2, <2>3, PricingConstants DEF Values, Prices, NoPrice, Ages
  <2>5. PICK call : call = asked[c]
    OBVIOUS
  <2>6. PICK new : new = [call EXCEPT !.at = "store", !.value = value]
    OBVIOUS
  <2>7. asked' = [asked EXCEPT ![c] = new]
    BY <2>1, <2>3, <2>5, <2>6
  <2>8. CallOK(call)
    BY <2>5 DEF PricingInv, FeedOK
  <2>9. new \in CallStates /\ new.at = "store" /\ new.value = value /\ new.spent = call.spent
    BY <2>4, <2>6, <2>8 DEF CallOK, CallStates
  <2>10. CallOK(new)
    BY <2>4, <2>9 DEF CallOK, CallStates
  <2> QED BY <1>1, <2>5, <2>7, <2>9, <2>10, OneCall
<1> QED BY <1>2, <1>3

LEMMA StoreCacheKeeps == ASSUME PricingInv, NEW c \in Askers, StoreCache(c) PROVE PricingInv'
<1>1. PICK call : call = asked[c]
  OBVIOUS
<1>2. PICK value : value = [call.value EXCEPT !.stamp = IF feed = "pool" THEN 0 ELSE call.spent]
  OBVIOUS
<1>3. /\ call.at = "store" /\ cache' = value /\ Become(c, "got", value)
      /\ UNCHANGED <<feed, account, cycle, polled, position, exits, spoilt>>
  BY <1>1, <1>2 DEF StoreCache
<1>4. /\ call \in CallStates /\ call.value.read <= call.spent /\ feed \in {"pool", "usd"}
  BY <1>1, <1>3 DEF PricingInv, FeedOK, CallOK
<1>5. /\ value \in Values /\ value.read = call.value.read
      /\ value.stamp = IF feed = "pool" THEN 0 ELSE call.spent
  BY <1>2, <1>4, PricingConstants DEF CallStates, Values, Ages
<1>6. value.read <= MaxCall
  BY <1>4, <1>5, PricingConstants DEF CallStates, Values, Ages
<1>7. CacheOK(cache')
  BY <1>3, <1>4, <1>5, <1>6, PricingConstants DEF CacheOK
<1>8. PICK new : new = [call EXCEPT !.at = "got", !.value = value]
  OBVIOUS
<1>9. asked' = [asked EXCEPT ![c] = new]
  BY <1>1, <1>3, <1>8 DEF Become
<1>10. new \in CallStates /\ new.at = "got" /\ new.value = value /\ new.spent = call.spent
  BY <1>4, <1>5, <1>8 DEF CallStates
<1>11. value.read <= StaleMax + MaxCall
  BY <1>5, <1>6, PricingConstants DEF Values, Ages
<1>12. CallOK(new)
  BY <1>10, <1>11 DEF CallOK
<1> QED BY <1>1, <1>3, <1>7, <1>9, <1>10, <1>12, OneCall

LEMMA AskDEXScreenerKeeps ==
  ASSUME PricingInv, NEW c \in Askers, AskDEXScreener(c) PROVE PricingInv'
<1>1. /\ asked[c].at = "dex"
      /\ UNCHANGED <<feed, account, cycle, polled, cache, position, exits, spoilt>>
  BY DEF AskDEXScreener
<1>2. PICK price \in Prices : Become(c, "got", [Empty EXCEPT !.price = price])
  BY DEF AskDEXScreener
<1>3. PICK value : value = [Empty EXCEPT !.price = price]
  OBVIOUS
<1>4. value \in Values /\ value.as = "none"
  BY <1>3, EmptyOK DEF Values, Empty
<1>5. PICK call : call = asked[c]
  OBVIOUS
<1>6. PICK new : new = [call EXCEPT !.at = "got", !.value = value]
  OBVIOUS
<1>7. asked' = [asked EXCEPT ![c] = new]
  BY <1>2, <1>3, <1>5, <1>6 DEF Become
<1>8. CallOK(call)
  BY <1>5 DEF PricingInv, FeedOK
<1>9. new \in CallStates /\ new.at = "got" /\ new.value = value /\ new.spent = call.spent
  BY <1>4, <1>6, <1>8 DEF CallOK, CallStates
<1>10. CallOK(new)
  BY <1>4, <1>9 DEF CallOK
<1> QED BY <1>1, <1>5, <1>7, <1>9, <1>10, OneCall

-------------------------------------------------------------------------------
(* The position: how long it stays open. *)

LEMMA UseKeeps == ASSUME PricingInv, NEW c \in Askers, Use(c) PROVE PricingInv'
<1>1. /\ c \in Others /\ asked[c].at = "got" /\ asked' = [asked EXCEPT ![c] = Quiet]
      /\ UNCHANGED <<feed, account, cycle, polled, cache, exits, spoilt>>
  BY DEF Use
<1>2. \A d \in Askers : asked'[d] = IF d = c THEN Quiet ELSE asked[d]
  BY <1>1 DEF PricingInv, FeedOK
<1>3. \A d \in Askers : CallOK(asked'[d])
  BY <1>2, QuietOK DEF PricingInv, FeedOK
<1>4. FeedOK'
  BY <1>1, <1>3 DEF PricingInv, FeedOK, CallOK, CacheOK
<1>5. asked'[Poll] = asked[Poll]
  BY <1>1, <1>2, PricingConstants
<1>6. CycleOK' /\ cycle.spent \in Nat
  BY <1>1, <1>5, PricingConstants DEF PricingInv, CycleOK, Turns, Rest
<1>7. CASE UNCHANGED position
  BY <1>1, <1>4, <1>5, <1>7, <1>6
     DEF PricingInv, PositionOK, Closing, Awaited, Cycling, Latest
<1>8. CASE /\ position.status = "none"
           /\ position' = [NoPosition EXCEPT !.status = "open", !.entry = ShadowFillPrice(c)]
  <2>1. ShadowFillPrice(c) \in Prices \union {Placeholder}
    BY DEF ShadowFillPrice, PricingInv, FeedOK, CallOK, CallStates, Values
  <2>2. position' \in Positions /\ position'.status = "open" /\ position'.age = 0
    <3>1. PICK entry : entry = ShadowFillPrice(c)
      OBVIOUS
    <3> QED BY <1>8, <2>1, <3>1, AgesOfPositions DEF Positions, NoPosition, Prices
  <2>3. PositionOK'
    BY <1>1, <2>2 DEF PricingInv, PositionOK, Positions
  <2>4. Tp1FilledPct = 0 => Closing'
    BY <1>1, <1>5, <1>8, <1>6, <2>2, LatestFacts, PricingConstants
       DEF PricingInv, Closing, Awaited, Cycling
  <2> QED BY <1>4, <1>6, <2>3, <2>4 DEF PricingInv
<1> QED BY <1>7, <1>8 DEF Use

\* Old enough, the position ends by some rule or another.
LEMMA RuleAtTheEnd ==
  ASSUME NEW pos, NEW price, NEW age, Tp1FilledPct = 0, age >= MaxHold
  PROVE  Rule(pos, price, age) \in Rules
BY DEF Rule, PricedRule, Rules

LEMMA SnapshotOK ==
  ASSUME PositionOK, NEW price \in Prices, NEW rule
  PROVE  /\ Snapshot(Loaded(position), price, rule) \in Positions
         /\ Snapshot(Loaded(position), price, rule).status = position.status
         /\ Snapshot(Loaded(position), price, rule).age = position.age
<1>1. PICK old : old = Loaded(position)
  OBVIOUS
<1>2. old \in Positions /\ old.status = position.status /\ old.age = position.age
  BY <1>1, PricingConstants DEF PositionOK, Positions, Loaded, Prices
<1>3. PICK peak : peak = IF Usable(old, price) THEN Peak(old, price) ELSE old.peak
  OBVIOUS
<1>4. peak \in Prices
  BY <1>2, <1>3 DEF Peak, Positions
<1>5. PICK filled : filled = IF rule = "PARTIAL" THEN Tp1FilledPct ELSE old.filled
  OBVIOUS
<1>6. PICK trail : trail = IF rule = "PARTIAL" THEN TrailingStop ELSE old.trail
  OBVIOUS
<1>7. filled \in {0, Tp1FilledPct} /\ trail \in {0, TrailingStop}
  BY <1>2, <1>5, <1>6 DEF Positions
<1>8. Snapshot(old, price, rule) = [old EXCEPT !.peak = peak, !.filled = filled, !.trail = trail]
  BY <1>2, <1>3, <1>5, <1>6 DEF Snapshot, Positions
<1> QED BY <1>1, <1>2, <1>4, <1>7, <1>8 DEF Positions

LEMMA PollExitKeeps == ASSUME PricingInv, PollExit PROVE PricingInv'
<1> DEFINE price == asked[Poll].value.price
           rule == Rule(Loaded(position), price, position.age - cycle.spent)
<1>1. /\ asked[Poll].at = "got" /\ asked' = [asked EXCEPT ![Poll] = Quiet]
      /\ UNCHANGED <<feed, account, cycle, polled, cache>>
      /\ \/ rule \in Rules /\ exits' = exits \union {rule} /\ UNCHANGED <<position, spoilt>>
         \/ /\ rule \notin Rules /\ position' = Snapshot(Loaded(position), price, rule)
            /\ UNCHANGED <<exits, spoilt>>
         \/ spoilt < PricingFaults /\ spoilt' = spoilt + 1 /\ UNCHANGED <<position, exits>>
  BY DEF PollExit
<1>2. \A d \in Askers : asked'[d] = IF d = Poll THEN Quiet ELSE asked[d]
  BY <1>1 DEF PricingInv, FeedOK
<1>3. \A d \in Askers : CallOK(asked'[d])
  BY <1>2, QuietOK DEF PricingInv, FeedOK
<1>4. FeedOK'
  BY <1>1, <1>3 DEF PricingInv, FeedOK, CallOK, CacheOK
<1>5. price \in Prices /\ cycle.spent \in 0..MaxCycle
  BY PricingConstants DEF PricingInv, FeedOK, CallOK, CallStates, Values, CycleOK
<1>6. position \in Positions /\ position.age \in Nat /\ PositionOK
  BY PricingConstants DEF PricingInv, PositionOK, Positions, PositionAges
<1>7. asked'[Poll].at = "idle" /\ Awaited /\ Cycling
  BY <1>1, <1>2, PricingConstants DEF Quiet, Awaited, Cycling
<1>11. CycleOK'
  BY <1>1, <1>7, TurnOver
<1>8. CASE rule \in Rules /\ exits' = exits \union {rule} /\ UNCHANGED <<position, spoilt>>
  <2>1. PositionOK' /\ exits' # {}
    BY <1>6, <1>8 DEF PositionOK
  <2>2. Tp1FilledPct = 0 => Closing'
    BY <1>1, <1>7, <1>8, <2>1 DEF PricingInv, Closing, Awaited, Cycling
  <2> QED BY <1>4, <1>11, <2>1, <2>2 DEF PricingInv
<1>9. CASE /\ rule \notin Rules /\ position' = Snapshot(Loaded(position), price, rule)
           /\ UNCHANGED <<exits, spoilt>>
  <2>1. position' \in Positions /\ position'.status = position.status
        /\ position'.age = position.age
    <3> HIDE DEF rule
    <3> QED BY <1>5, <1>6, <1>9, SnapshotOK
  <2>2. PositionOK'
    BY <1>6, <1>9, <2>1 DEF PositionOK, Positions
  <2>3. ASSUME Tp1FilledPct = 0 PROVE Closing'
    <3>1. ~ (position.age - cycle.spent >= MaxHold)
      BY <1>9, <2>3, RuleAtTheEnd
    <3>2. position.age <= MaxHold - 1 + cycle.spent
      BY <1>5, <1>6, <3>1, PricingConstants
    <3>3. polled => cycle.spent = 0
      BY <1>7, <2>3 DEF PricingInv, Closing
    <3>4. /\ position.age <= Latest - MaxCycle + cycle.spent
          /\ position.age <= Latest + cycle.spent
          /\ position.age <= IF polled THEN Latest - 1 ELSE Latest
      BY <1>5, <1>6, <3>2, <3>3, LatestFacts, PricingConstants
    <3>5. Latest' = Latest
      BY <1>6, <1>9, LatestFacts
    <3>6. position.status = "open"
      BY <1>7, <2>3 DEF PricingInv, Closing
    <3>7. polled' => ~ Cycling' \/ cycle'.spent = 0
      BY <1>1, <3>3
    <3> QED BY <1>1, <1>7, <1>9, <2>1, <3>4, <3>5, <3>6, <3>7 DEF Closing
  <2> QED BY <1>4, <1>11, <2>2, <2>3 DEF PricingInv
<1>10. CASE spoilt < PricingFaults /\ spoilt' = spoilt + 1 /\ UNCHANGED <<position, exits>>
  <2>1. PositionOK'
    BY <1>6, <1>10, PricingConstants DEF PositionOK, Positions
  <2>2. ASSUME Tp1FilledPct = 0 PROVE Closing'
    <3>1. Latest' = Latest + MaxCycle /\ Latest \in Int
      BY <1>6, <1>10, LatestFacts
    <3>2. polled => cycle.spent = 0
      BY <1>7, <2>2 DEF PricingInv, Closing
    <3>3. position.status = "open" /\ exits = {} => position.age <= Latest + cycle.spent
      BY <1>7, <2>2 DEF PricingInv, Closing
    <3>4. position.status = "open" /\ exits = {} =>
            /\ position.age <= Latest' - MaxCycle + cycle.spent
            /\ position.age <= Latest' + cycle.spent
            /\ position.age <= IF polled THEN Latest' - 1 ELSE Latest'
      BY <1>5, <1>6, <3>1, <3>2, <3>3, PricingConstants
    <3>5. position.status = "open"
      BY <1>7, <2>2 DEF PricingInv, Closing
    <3>6. polled' => ~ Cycling' \/ cycle'.spent = 0
      BY <1>1, <3>2
    <3> QED BY <1>1, <1>10, <3>4, <3>5, <3>6 DEF Closing
  <2> QED BY <1>4, <1>11, <2>1, <2>2 DEF PricingInv
<1> QED BY <1>1, <1>8, <1>9, <1>10

\* A cycle begins: the position is in its list if it is open.
LEMMA BeginCycleKeeps == ASSUME PricingInv, BeginCycle PROVE PricingInv'
<1>1. /\ ~ polled /\ ~ Cycling /\ polled' = TRUE
      /\ UNCHANGED <<feed, account, asked, cache, position, exits>>
      /\ \/ /\ \E others \in 0..MaxListed :
                  cycle' = [mine |-> position.status = "open", others |-> others, spent |-> 0]
            /\ cycle'.mine => cycle'.others < MaxListed
            /\ UNCHANGED spoilt
         \/ spoilt < PricingFaults /\ spoilt' = spoilt + 1 /\ UNCHANGED cycle
  BY DEF BeginCycle
<1>2. FeedOK'
  BY <1>1 DEF PricingInv, FeedOK, CallOK, CacheOK
<1>3. /\ asked[Poll].at = "idle" /\ ~ cycle.mine /\ ~ Awaited
      /\ position \in Positions /\ position.age \in Nat /\ PositionOK
  BY <1>1, PricingConstants
     DEF Cycling, Awaited, PricingInv, PositionOK, Positions, PositionAges
<1>4. CASE /\ \E others \in 0..MaxListed :
                cycle' = [mine |-> position.status = "open", others |-> others, spent |-> 0]
           /\ cycle'.mine => cycle'.others < MaxListed
           /\ UNCHANGED spoilt
  <2>1. PICK others \in 0..MaxListed :
          cycle' = [mine |-> position.status = "open", others |-> others, spent |-> 0]
    BY <1>4
  <2>2. /\ cycle' \in [mine : BOOLEAN, others : 0..MaxListed, spent : 0..MaxCycle]
        /\ cycle'.spent = 0 /\ cycle'.mine = (position.status = "open")
        /\ cycle'.others = others
    BY <2>1, PricingConstants
  <2>3. Turns' \in Nat /\ Turns' <= MaxListed /\ Rest' = 0
    BY <1>1, <1>3, <1>4, <2>2, PricingConstants DEF Turns, Rest
  <2>4. Turns' * MaxCall <= MaxCycle /\ Turns' * MaxCall \in Nat
    BY <2>3, Products, PricingConstants DEF MaxCycle
  <2>5. cycle'.spent + Turns' * MaxCall + Rest' <= MaxCycle
    <3>1. PICK needed \in Nat : needed = Turns' * MaxCall
      BY <2>4
    <3>2. needed <= MaxCycle
      BY <2>4, <3>1
    <3>3. cycle'.spent + needed + Rest' = needed
      BY <2>2, <2>3, <3>1
    <3> QED BY <3>1, <3>2, <3>3
  <2>6. CycleOK'
    BY <2>2, <2>5 DEF CycleOK
  <2>7. PositionOK'
    BY <1>1, <1>4 DEF PricingInv, PositionOK
  <2>8. ASSUME Tp1FilledPct = 0 PROVE Closing'
    <3>1. Latest' = Latest /\ Latest \in Int
      BY <1>3, <1>4, LatestFacts
    <3>2. position.status = "open" /\ exits = {} => position.age <= Latest
      BY <1>1, <1>3, <2>8 DEF PricingInv, Closing
    <3>3. Awaited' <=> position.status = "open"
      BY <1>1, <1>3, <2>2 DEF Awaited
    <3>4. position.status = "open" /\ exits = {} => position.age <= Latest' + cycle'.spent
      BY <1>3, <2>2, <3>1, <3>2
    <3> QED BY <1>1, <2>2, <3>3, <3>4 DEF Closing
  <2> QED BY <1>2, <2>6, <2>7, <2>8 DEF PricingInv
<1>5. CASE spoilt < PricingFaults /\ spoilt' = spoilt + 1 /\ UNCHANGED cycle
  <2>1. CycleOK'
    BY <1>1, <1>5 DEF PricingInv, CycleOK, Turns, Rest
  <2>2. PositionOK'
    BY <1>1, <1>5, PricingConstants DEF PricingInv, PositionOK, Positions
  <2>3. ASSUME Tp1FilledPct = 0 PROVE Closing'
    <3>1. Latest' = Latest + MaxCycle /\ Latest \in Int
      BY <1>3, <1>5, LatestFacts
    <3>2. position.status = "open" /\ exits = {} => position.age <= Latest
      BY <1>1, <1>3, <2>3 DEF PricingInv, Closing
    <3>3. position.status = "open" /\ exits = {} => position.age <= Latest' - 1
      BY <1>3, <3>1, <3>2, PricingConstants
    <3>4. ~ Awaited' /\ ~ Cycling'
      BY <1>1, <1>3, <1>5 DEF Awaited, Cycling
    <3> QED BY <1>1, <3>3, <3>4 DEF Closing
  <2> QED BY <1>2, <2>1, <2>2, <2>3 DEF PricingInv
<1> QED BY <1>1, <1>4, <1>5

LEMMA BeginOtherKeeps == ASSUME PricingInv, BeginOther PROVE PricingInv'
<1>1. /\ asked[Poll].at = "idle" /\ cycle.others > 0
      /\ asked' = [asked EXCEPT ![Poll] = Elsewhere]
      /\ cycle' = [cycle EXCEPT !.others = @ - 1]
      /\ UNCHANGED <<feed, account, polled, cache, position, exits, spoilt>>
  BY DEF BeginOther
<1>2. \A d \in Askers : asked'[d] = IF d = Poll THEN Elsewhere ELSE asked[d]
  BY <1>1 DEF PricingInv, FeedOK
<1>3. \A d \in Askers : CallOK(asked'[d])
  BY <1>2, ElsewhereOK DEF PricingInv, FeedOK
<1>4. FeedOK'
  BY <1>1, <1>3 DEF PricingInv, FeedOK, CallOK, CacheOK
<1>5. PositionOK'
  BY <1>1 DEF PricingInv, PositionOK
<1>6. asked'[Poll].at = "other" /\ asked'[Poll].spent = 0
  BY <1>2, ElsewhereOK, PricingConstants
<1>7. cycle \in [mine : BOOLEAN, others : 0..MaxListed, spent : 0..MaxCycle]
  BY DEF PricingInv, CycleOK
<1>8. /\ cycle' \in [mine : BOOLEAN, others : 0..MaxListed, spent : 0..MaxCycle]
      /\ cycle'.others = cycle.others - 1 /\ cycle'.spent = cycle.spent
      /\ cycle'.mine = cycle.mine
  BY <1>1, <1>7, PricingConstants
<1>9. CycleOK'
  <2>1. Turns = Turns' + 1
    BY <1>7, <1>8, PricingConstants DEF Turns
  <2> QED BY <1>1, <1>6, <1>8, <2>1, TurnTaken
<1>10. Tp1FilledPct = 0 => Closing'
  <2>1. Cycling /\ Cycling' /\ (Awaited' <=> Awaited)
    BY <1>1, <1>6, <1>8 DEF Cycling, Awaited
  <2> QED BY <1>1, <1>8, <2>1 DEF PricingInv, Closing, Latest
<1> QED BY <1>4, <1>5, <1>9, <1>10 DEF PricingInv

LEMMA EndOtherKeeps == ASSUME PricingInv, EndOther PROVE PricingInv'
<1>1. /\ asked[Poll].at = "other" /\ asked' = [asked EXCEPT ![Poll] = Quiet]
      /\ UNCHANGED <<feed, account, cycle, polled, cache, position, exits, spoilt>>
  BY DEF EndOther
<1>2. \A d \in Askers : asked'[d] = IF d = Poll THEN Quiet ELSE asked[d]
  BY <1>1 DEF PricingInv, FeedOK
<1>3. \A d \in Askers : CallOK(asked'[d])
  BY <1>2, QuietOK DEF PricingInv, FeedOK
<1>4. FeedOK'
  BY <1>1, <1>3 DEF PricingInv, FeedOK, CallOK, CacheOK
<1>5. PositionOK'
  BY <1>1 DEF PricingInv, PositionOK
<1>6. asked'[Poll].at = "idle"
  BY <1>2, PricingConstants DEF Quiet
<1>7. CycleOK'
  BY <1>1, <1>6, TurnOver
<1>8. ASSUME Tp1FilledPct = 0 PROVE Closing'
  <2>1. Closing /\ Cycling /\ (Awaited' <=> Awaited) /\ Latest' = Latest
    BY <1>1, <1>6, <1>8 DEF PricingInv, Cycling, Awaited, Latest
  <2>2. /\ PositionOK /\ cycle.spent \in 0..MaxCycle /\ position.age \in Nat
    BY PricingConstants DEF PricingInv, CycleOK, PositionOK, Positions, PositionAges
  <2>3. CASE Awaited
    <3>1. Cycling'
      BY <1>1, <1>6, <2>1, <2>3 DEF Awaited, Cycling
    <3> QED BY <1>1, <2>1, <2>3, <3>1 DEF Closing
  <2>4. CASE ~ Awaited
    <3>1. polled => cycle.spent = 0
      BY <2>1 DEF Closing
    <3>2. position.status = "open" /\ exits = {} =>
            position.age <= Latest - MaxCycle + cycle.spent
      BY <2>1, <2>4 DEF Closing
    <3>3. position.status = "open" /\ exits = {} =>
            position.age <= IF polled THEN Latest - 1 ELSE Latest
      BY <2>2, <3>1, <3>2, LatestFacts, PricingConstants
    <3> QED BY <1>1, <2>1, <2>4, <3>1, <3>2, <3>3 DEF Closing
  <2> QED BY <2>3, <2>4
<1> QED BY <1>4, <1>5, <1>7, <1>8 DEF PricingInv

LEMMA AgedOK ==
  ASSUME NEW value \in Values
  PROVE  /\ Aged(value) \in Values /\ Aged(value).price = value.price
         /\ Aged(value).as = value.as /\ Aged(value).read <= value.read + 1
         /\ \A k \in Nat : value.read <= value.stamp + k => Aged(value).read <= Aged(value).stamp + k
<1>1. value.read \in Ages /\ value.stamp \in Ages
  BY DEF Values
<1>2. CASE Held(value)
  <2>1. PICK read : read = Older(value.read)
    OBVIOUS
  <2>2. PICK stamp : stamp = Older(value.stamp)
    OBVIOUS
  <2>3. /\ read \in Ages /\ stamp \in Ages /\ read <= value.read + 1
        /\ \A k \in Nat : value.read <= value.stamp + k => read <= stamp + k
    BY <1>1, <2>1, <2>2, PricingConstants DEF Older, Ages
  <2>4. Aged(value) = [value EXCEPT !.read = read, !.stamp = stamp]
    BY <1>2, <2>1, <2>2 DEF Aged, Values
  <2> QED BY <2>3, <2>4 DEF Values
<1>3. CASE ~ Held(value)
  BY <1>1, <1>3, PricingConstants DEF Aged, Ages
<1> QED BY <1>2, <1>3

LEMMA PassTimeKeeps == ASSUME PricingInv, PassTime PROVE PricingInv'
<1>1. /\ asked[Poll].at # "got"
      /\ Cycling => asked[Poll].at # "idle"
      /\ position.status = "open" => polled \/ asked[Poll].at # "idle"
      /\ \A c \in Askers : asked[c].at \in {"idle", "got"} \/ asked[c].spent < MaxCall
      /\ polled' = FALSE /\ cache' = Aged(cache)
      /\ cycle' = CycleLater
      /\ asked' = [c \in Askers |-> CallLater(asked[c])] /\ position' = PositionLater
      /\ UNCHANGED <<feed, account, exits, spoilt>>
  BY DEF PassTime
<1>2. CacheOK(cache')
  <2>1. CacheOK(cache) /\ cache \in Values
    BY DEF PricingInv, FeedOK, CacheOK
  <2>2. /\ cache' \in Values
        /\ \A k \in Nat : cache.read <= cache.stamp + k => cache'.read <= cache'.stamp + k
    BY <1>1, <2>1, AgedOK
  <2>3. feed = "pool" => cache'.read <= cache'.stamp + MaxCall
    BY <2>1, <2>2, PricingConstants DEF CacheOK
  <2>4. feed = "usd" => cache'.read <= cache'.stamp
    <3>1. feed = "usd" => cache'.read <= cache'.stamp + 0
      BY <2>1, <2>2 DEF CacheOK, Values, Ages
    <3> QED BY <2>2, <3>1 DEF Values, Ages
  <2> QED BY <2>2, <2>3, <2>4 DEF CacheOK
<1>3. ASSUME NEW c \in Askers PROVE CallOK(asked'[c])
  <2>1. PICK call : call = asked[c]
    OBVIOUS
  <2>2. CallOK(call)
    BY <2>1 DEF PricingInv, FeedOK
  <2>3. asked'[c] = CallLater(call)
    BY <1>1, <2>1
  <2>4. CASE call.at \in {"idle", "got"}
    BY <2>2, <2>4, <2>3 DEF CallLater
  <2>5. CASE call.at \notin {"idle", "got"}
    <3>1. PICK value : value = Aged(call.value)
      OBVIOUS
    <3>2. PICK new : new = [call EXCEPT !.spent = @ + 1, !.value = value]
      OBVIOUS
    <3>3. asked'[c] = new /\ call.spent < MaxCall
      <4>1. CallLater(call) = [call EXCEPT !.spent = @ + 1, !.value = Aged(@)]
        BY <2>5 DEF CallLater
      <4> QED BY <1>1, <2>1, <2>5, <2>3, <3>1, <3>2, <4>1
    <3>4. call \in CallStates /\ call.value \in Values
      BY <2>2 DEF CallOK, CallStates
    <3>5. /\ value \in Values /\ value.price = call.value.price /\ value.read <= call.value.read + 1
          /\ \A k \in Nat : call.value.read <= call.value.stamp + k => value.read <= value.stamp + k
      BY <3>1, <3>4, AgedOK
    <3>6. /\ new \in CallStates /\ new.at = call.at /\ new.value = value
          /\ new.spent = call.spent + 1
      <4>1. call.spent + 1 \in 0..MaxCall
        BY <3>3, <3>4, PricingConstants DEF CallStates
      <4> QED BY <3>2, <3>4, <3>5, <4>1 DEF CallStates
    <3>7. call.at = "store" => value.read <= new.spent
      BY <2>2, <3>4, <3>5, <3>6, PricingConstants DEF CallOK, CallStates, Values, Ages
    <3>8. call.at = "account" /\ feed = "usd" => value.read <= value.stamp
      <4>1. call.value.read <= call.value.stamp => value.read <= value.stamp + 0
        BY <3>4, <3>5 DEF Values, Ages
      <4> QED BY <2>2, <3>5, <4>1 DEF CallOK, Values, Ages
    <3> QED BY <2>2, <2>5, <3>3, <3>5, <3>6, <3>7, <3>8 DEF CallOK
  <2> QED BY <2>4, <2>5
<1>4. FeedOK'
  BY <1>1, <1>2, <1>3 DEF PricingInv, FeedOK, CallOK, CacheOK
<1>5. PICK age : age = IF position.status = "open" /\ position.age + 1 \in PositionAges
                       THEN position.age + 1 ELSE position.age
  OBVIOUS
<1>6. /\ position \in Positions /\ position.age \in Nat /\ PositionOK
      /\ age \in PositionAges /\ age \in Nat /\ age <= position.age + 1
  <2>1. position \in Positions /\ PositionOK /\ position.age \in PositionAges
    BY DEF PricingInv, PositionOK, Positions
  <2>2. position.age \in Nat
    BY <2>1, AgesOfPositions
  <2>3. age \in PositionAges
    BY <1>5, <2>1
  <2>4. age \in Nat /\ age <= position.age + 1
    BY <1>5, <2>2, <2>3, AgesOfPositions
  <2> QED BY <2>1, <2>2, <2>3, <2>4
<1>7. position' = [position EXCEPT !.age = age]
  BY <1>1, <1>5, <1>6 DEF Positions, PositionLater
<1>8. position' \in Positions /\ position'.status = position.status /\ position'.age = age
  BY <1>6, <1>7 DEF Positions
<1>9. PositionOK'
  BY <1>1, <1>6, <1>8 DEF PositionOK, Positions
<1>10. /\ cycle \in [mine : BOOLEAN, others : 0..MaxListed, spent : 0..MaxCycle]
       /\ cycle.spent + Turns * MaxCall + Rest <= MaxCycle
       /\ Turns \in Nat /\ Turns * MaxCall \in Nat
  <2>1. /\ cycle \in [mine : BOOLEAN, others : 0..MaxListed, spent : 0..MaxCycle]
        /\ cycle.spent + Turns * MaxCall + Rest <= MaxCycle
    BY DEF PricingInv, CycleOK
  <2>2. Turns \in Nat
    BY <2>1, PricingConstants DEF Turns
  <2> QED BY <2>1, <2>2, Products, PricingConstants
<1>11. /\ cycle'.mine = cycle.mine /\ cycle'.others = cycle.others /\ Turns' = Turns
       /\ cycle'.spent = IF Cycling THEN cycle.spent + 1 ELSE 0
       /\ cycle' = [cycle EXCEPT !.spent = cycle'.spent]
  <2>1. PICK spent : spent = IF Cycling THEN cycle.spent + 1 ELSE 0
    OBVIOUS
  <2>2. cycle' = [cycle EXCEPT !.spent = spent]
    BY <1>1, <1>10, <2>1 DEF CycleLater
  <2>3. cycle'.spent = spent /\ cycle'.mine = cycle.mine /\ cycle'.others = cycle.others
    BY <1>10, <2>2
  <2> QED BY <2>1, <2>2, <2>3 DEF Turns
<1>12. CASE asked[Poll].at = "idle"
  <2>1. asked'[Poll] = asked[Poll] /\ ~ Cycling
    <3>1. PICK call : call = asked[Poll]
      OBVIOUS
    <3>2. asked'[Poll] = CallLater(call)
      BY <1>1, <3>1, PricingConstants
    <3>3. CallLater(call) = call
      BY <1>12, <3>1 DEF CallLater
    <3> QED BY <1>1, <1>12, <3>1, <3>2, <3>3
  <2>2. ~ Cycling' /\ (Awaited' <=> Awaited) /\ ~ Awaited
    BY <1>11, <2>1 DEF Cycling, Awaited
  <2>3. CycleOK'
    <3>1. Rest' = 0 /\ Turns = 0
      <4>1. cycle.others = 0 /\ cycle.mine = FALSE
        BY <1>10, <2>1, PricingConstants DEF Cycling
      <4> QED BY <1>12, <2>1, <4>1 DEF Rest, Turns
    <3>2. Turns' * MaxCall = 0
      BY <1>11, <3>1, PricingConstants
    <3>3. cycle' \in [mine : BOOLEAN, others : 0..MaxListed, spent : 0..MaxCycle]
          /\ cycle'.spent = 0
      BY <1>10, <1>11, <2>1, PricingConstants
    <3> QED BY <3>1, <3>2, <3>3, PricingConstants DEF CycleOK
  <2>4. ASSUME Tp1FilledPct = 0 PROVE Closing'
    <3>1. Closing /\ Latest' = Latest /\ Latest \in Int
      BY <1>1, <1>6, <2>4, LatestFacts DEF PricingInv
    <3>2. position.status = "open" /\ exits = {} => age <= Latest
      <4>1. position.status = "open" /\ exits = {} => position.age <= Latest - 1
        BY <1>1, <1>12, <2>1, <2>2, <3>1 DEF Closing
      <4> QED BY <1>6, <3>1, <4>1
    <3> QED BY <1>1, <1>8, <2>2, <3>1, <3>2 DEF Closing
  <2> QED BY <1>4, <1>9, <2>3, <2>4 DEF PricingInv
<1>13. CASE asked[Poll].at # "idle"
  <2>1. PICK call : call = asked[Poll]
    OBVIOUS
  <2>2. call \in CallStates /\ call.spent \in Nat
    BY <2>1, PricingConstants DEF PricingInv, FeedOK, CallOK, CallStates
  <2>3. asked'[Poll] = [call EXCEPT !.spent = @ + 1, !.value = Aged(@)]
    <3>1. asked'[Poll] = CallLater(call)
      BY <1>1, <2>1, PricingConstants
    <3>2. call.at \notin {"idle", "got"}
      BY <1>1, <1>13, <2>1
    <3>3. CallLater(call) = [call EXCEPT !.spent = @ + 1, !.value = Aged(@)]
      BY <3>2 DEF CallLater
    <3> QED BY <3>1, <3>3
  <2>4. asked'[Poll].at = call.at /\ asked'[Poll].spent = call.spent + 1
    BY <2>2, <2>3 DEF CallStates
  <2>5. Cycling /\ Cycling' /\ (Awaited' <=> Awaited) /\ call.spent < MaxCall
    BY <1>1, <1>11, <1>13, <2>1, <2>4, PricingConstants DEF Cycling, Awaited
  <2>6. CycleOK'
    <3>1. Rest = MaxCall - call.spent /\ Rest' = MaxCall - (call.spent + 1)
      BY <1>13, <2>1, <2>4 DEF Rest
    <3>2. cycle'.spent = cycle.spent + 1
      BY <1>11, <2>5
    <3>3. cycle'.spent + Turns' * MaxCall + Rest' <= MaxCycle /\ cycle'.spent \in 0..MaxCycle
      <4>1. cycle.spent + Turns * MaxCall + (MaxCall - call.spent) <= MaxCycle
        BY <1>10, <3>1
      <4>2. cycle.spent \in Nat /\ Turns' * MaxCall = Turns * MaxCall
        BY <1>10, <1>11, PricingConstants
      <4> QED BY <1>10, <2>2, <2>5, <3>1, <3>2, <4>1, <4>2, PricingConstants
    <3>4. cycle' = [cycle EXCEPT !.spent = cycle.spent + 1]
      BY <1>11, <3>2
    <3>5. cycle' \in [mine : BOOLEAN, others : 0..MaxListed, spent : 0..MaxCycle]
      BY <1>10, <3>2, <3>3, <3>4
    <3> QED BY <3>3, <3>5 DEF CycleOK
  <2>7. ASSUME Tp1FilledPct = 0 PROVE Closing'
    <3>1. Closing /\ Latest' = Latest /\ Latest \in Int
      BY <1>1, <1>6, <2>7, LatestFacts DEF PricingInv
    <3>2. cycle'.spent = cycle.spent + 1 /\ cycle.spent \in Nat
      BY <1>10, <1>11, <2>5, PricingConstants
    <3>3. position.status = "open" /\ exits = {} =>
            position.age <= IF Awaited THEN Latest + cycle.spent
                            ELSE Latest - MaxCycle + cycle.spent
      BY <2>5, <3>1 DEF Closing
    <3>4. position.status = "open" /\ exits = {} =>
            age <= IF Awaited THEN Latest' + cycle'.spent ELSE Latest' - MaxCycle + cycle'.spent
      BY <1>6, <3>1, <3>2, <3>3, PricingConstants
    <3>5. Awaited => position.status = "open"
      BY <3>1 DEF Closing
    <3> QED BY <1>1, <1>8, <2>5, <3>4, <3>5 DEF Closing
  <2> QED BY <1>4, <1>9, <2>6, <2>7 DEF PricingInv
<1> QED BY <1>12, <1>13

LEMMA PricingStep == PricingInv /\ [PricingNext]_pricingVars => PricingInv'
<1> SUFFICES ASSUME PricingInv, [PricingNext]_pricingVars PROVE PricingInv'
  OBVIOUS
<1>1. CASE UNCHANGED pricingVars
  BY <1>1 DEF pricingVars, PricingInv, FeedOK, CallOK, CacheOK, CycleOK, Turns, Rest,
              PositionOK, Closing, Awaited, Cycling, Latest
<1>2. CASE PassTime
  BY <1>2, PassTimeKeeps
<1>3. CASE Cycle
  BY <1>3, BeginCycleKeeps, BeginOtherKeeps, EndOtherKeeps, PollExitKeeps DEF Cycle
<1>4. ASSUME NEW c \in Askers, CallFor(c) PROVE PricingInv'
  BY <1>4, AskKeeps, ResolveKeeps, ReadAccountKeeps, StoreCacheKeeps, AskDEXScreenerKeeps, UseKeeps
     DEF CallFor
<1> QED BY <1>1, <1>2, <1>3, <1>4 DEF PricingNext

LEMMA PricingInvInvariant == PricingSpec => []PricingInv
BY PricingInitial, PricingStep, PTL DEF PricingSpec

\* What a call holds, the cache and the position are well formed, and no call lasts
\* longer than the longest (price_fetcher.go, position.go).
THEOREM PricingTypeCorrect == PricingSpec => []PricingTypeOK
<1>1. PricingInv => PricingTypeOK
  BY DEF PricingInv, FeedOK, CycleOK, PositionOK, Positions, CallOK, CallStates, CacheOK,
         PricingTypeOK
<1> QED BY <1>1, PricingInvInvariant, PTL

\* However calls overlap and stamps differ from the times values were read, a price from
\* the chain is served for the stale window and a call at most (storeCache, Get).
THEOREM ServedInTime == PricingSpec => []ServedPriceIsRecent
<1>1. PricingInv => ServedPriceIsRecent
  BY DEF PricingInv, FeedOK, CallOK, ServedPriceIsRecent
<1> QED BY <1>1, PricingInvInvariant, PTL

\* With exits that sell everything at the first step, as shipped, a position ends within
\* two cycles of its time and one more for each list or snapshot lost, however many are
\* listed and wherever it stands among them (pollOnce). With a partial sale it need not:
\* the share sold is not loaded, and the step is taken at every poll.
THEOREM ClosedInTime == ASSUME Tp1FilledPct = 0 PROVE PricingSpec => []ClosesInTime
<1>1. PricingInv => ClosesInTime
  <2> SUFFICES ASSUME PricingInv, position.status = "open", exits = {}
               PROVE  ~ (position.age >= MaxHold + (2 + spoilt) * MaxCycle)
    BY DEF ClosesInTime
  <2>1. /\ position.age \in Nat /\ cycle.spent \in 0..MaxCycle /\ PositionOK
        /\ spoilt \in Nat
    BY PricingConstants DEF PricingInv, PositionOK, Positions, PositionAges, CycleOK
  <2>2. position.age <= Latest + MaxCycle
    BY <2>1, LatestFacts, PricingConstants DEF PricingInv, Closing
  <2>3. (2 + spoilt) * MaxCycle = (1 + spoilt) * MaxCycle + MaxCycle
        /\ (1 + spoilt) * MaxCycle \in Nat
    BY <2>1, PricingConstants
  <2>4. Latest + MaxCycle < MaxHold + (2 + spoilt) * MaxCycle
    BY <2>1, <2>3, PricingConstants DEF Latest
  <2> QED BY <2>1, <2>2, <2>3, <2>4, LatestFacts, PricingConstants
<1> QED BY <1>1, PricingInvInvariant, PTL

-------------------------------------------------------------------------------
(* Trades, prices and executors. *)

LEMMA DeskParts == DeskSpec => Spec /\ PricingSpec /\ SubmissionSpec
<1>1. DeskInit => Init /\ PricingInit /\ SubmissionInit
  BY DEF DeskInit
<1>2. [DeskNext]_deskVars
        => [Next]_vars /\ [PricingNext]_pricingVars /\ [SubmissionNext]_submissionVars
  BY DEF DeskNext, SubmissionOf, deskVars
<1> QED BY <1>1, <1>2, PTL DEF DeskSpec, Spec, PricingSpec, SubmissionSpec

\* Whichever of the three runs, all variables keep their types.
THEOREM DeskTypeCorrect == DeskSpec => []DeskTypeOK
<1>1. TypeOK /\ PricingTypeOK /\ SubmissionTypeOK => DeskTypeOK
  BY DEF DeskTypeOK
<1> QED BY <1>1, DeskParts, TradeTypeCorrect, PricingTypeCorrect, SubmissionTypeCorrect, PTL
===============================================================================
