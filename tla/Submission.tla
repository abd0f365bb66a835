----------------------------- MODULE Submission -----------------------------
(***************************************************************************)
(* From the reservation of an order to its result: the executors of Solana *)
(* and of the EVM chains (modules/execution_solana, modules/execution,     *)
(* processSolanaAlloc and the last branch of Process in run_execution.go,  *)
(* solana_exec.go, AllocateNonce) and the chains they send to.             *)
(*                                                                         *)
(* Trade sees of this an outcome that may be anything.  Here the chain is  *)
(* looked at: a transaction that some node has taken is in the pool, a     *)
(* leader may put it in a block, a fork may throw it out, and what a node  *)
(* answers may be lost.                                                    *)
(*                                                                         *)
(* A transaction is an order and a key, the blockhash of Solana or the     *)
(* nonce of an EVM wallet: signing is deterministic, so the same key makes *)
(* the same transaction.  A blockhash is the height it was read at.  The   *)
(* executor of the EVM chains is here as it is in the code, although       *)
(* serve.go passes no client for it.                                       *)
(***************************************************************************)
EXTENDS Integers, FiniteSets

CONSTANTS
  SolanaOrders,     \* allocations whose reservation was won, by executor
  EvmOrders,
  WalletOf,         \* the wallet of an order (selectKeypair, PickWallet)
  MaxSendAttempts,  \* of a Solana order
  Validity,         \* how many blocks long a blockhash is good
  MaxHeight,        \* bound: blocks of Solana
  MaxForks          \* bound: blocks that are thrown out

SubmittedOrders == SolanaOrders \union EvmOrders

ASSUME SubmissionAssumption ==
  /\ SolanaOrders \intersect EvmOrders = {} /\ IsFiniteSet(EvmOrders)
  /\ {MaxSendAttempts, Validity, MaxHeight, MaxForks} \subseteq Nat

VARIABLES
  order,       \* how far the executor of each order is
  nonces,      \* wallet_nonce_state: the next nonce of each wallet
  signatures,  \* solana_signatures: status and transaction, by order
  outcome,     \* what Execute or Process returned
  height,      \* of Solana
  pool,        \* transactions that wait for a block
  blocks,      \* how those fare that are in one
  forks        \* forks so far

chainVars == <<height, pool, blocks, forks>>
submissionVars == <<order, nonces, signatures, outcome, chainVars>>

Wallets == {WalletOf[o] : o \in SubmittedOrders}
Heights == 0..MaxHeight

\* Blockhashes or nonces, of which none is used twice.
KeysOf(o) == IF o \in SolanaOrders THEN Heights ELSE 0..Cardinality(EvmOrders) - 1
Transactions == UNION {{<<o, k>> : k \in KeysOf(o)} : o \in SubmittedOrders}

\* A block may be thrown out while it is "processed", later it is final.
Fates == [commitment : {"processed", "confirmed"}, err : BOOLEAN]

\* Why an order ended. The code tells them apart by error codes only in part.
Ends == {"confirmed",   \* reported as landed
         "refused",     \* nothing was sent, or the last node refused it
         "reverted",    \* reported as failed on the chain
         "unanswered",  \* the answer to the transaction, or to a poll, was an error
         "unseen"}      \* the time to wait for it was over

Stops == {"start", "send", "expired", "poll", "record", "done", "stopped"}
AtStart == [at |-> "start", key |-> -1, attempt |-> 1]

SubmissionTypeOK ==
  /\ order \in [SubmittedOrders -> [at : Stops, key : Int, attempt : Nat]]
  /\ \A o \in SubmittedOrders : order[o].key \in KeysOf(o) \union {-1}
  /\ nonces \in [Wallets -> Nat]
  /\ DOMAIN signatures \subseteq SolanaOrders
  /\ \A o \in DOMAIN signatures :
       signatures[o] \in [status : {"confirmed", "failed"}, key : Heights \union {-1}]
  /\ outcome \in [SubmittedOrders -> Ends \union {"none"}]
  /\ height \in Heights /\ forks \in 0..MaxForks
  /\ pool \subseteq Transactions
  /\ DOMAIN blocks \subseteq Transactions
  /\ \A tx \in DOMAIN blocks : blocks[tx] \in Fates

SubmissionInit ==
  /\ order = [o \in SubmittedOrders |-> AtStart]
  /\ nonces = [w \in Wallets |-> 0]
  /\ signatures = <<>>
  /\ outcome = [o \in SubmittedOrders |-> "none"]
  /\ height = 0 /\ pool = {} /\ blocks = <<>> /\ forks = 0

Goes(o, at) == order' = [order EXCEPT ![o].at = at]

\* The transaction that is signed next has this key.
Signs(o, key) == order' = [order EXCEPT ![o] = [at |-> "send", key |-> key, attempt |-> @.attempt]]

\* The executor returns.
Returns(o, end) ==
  /\ outcome' = [outcome EXCEPT ![o] = end]
  /\ Goes(o, IF o \in SolanaOrders THEN "record" ELSE "done")

Sent(o) == <<o, order[o].key>>

\* A node takes the transaction. One that is in a block already changes nothing.
Taken(tx) == pool' = IF tx \in DOMAIN blocks THEN pool ELSE pool \union {tx}

-------------------------------------------------------------------------------
(* The executor of Solana. *)

\* GetLatestBlockhash at a node that may be one block behind.
LatestBlockhash == {h \in Heights : h \in {height, height - 1}}

FetchBlockhash(o) ==
  /\ o \in SolanaOrders /\ order[o].at = "start"
  /\ \/ \E h \in LatestBlockhash : Signs(o, h) /\ UNCHANGED outcome
     \/ Returns(o, "refused")
  /\ UNCHANGED <<nonces, signatures, chainVars>>

\* Slip: every error is taken for an expired blockhash.
IsAnyError(answer) == answer \in {"expired", "error", "lost"}

IsBlockhashExpired(answer) == answer = "expired"

\* What becomes of SendTransaction's answer: a signature, a blank one (MAX_ATTEMPTS_
\* EXCEEDED), an expired blockhash, which is renewed if an attempt is left, or
\* another error.
SendAnswered(o, answer) ==
  LET again == IsBlockhashExpired(answer) /\ order[o].attempt < MaxSendAttempts
  IN \/ answer = "signature" /\ Goes(o, "poll") /\ UNCHANGED outcome
     \/ again /\ Goes(o, "expired") /\ UNCHANGED outcome
     \/ /\ answer # "signature" /\ ~again
        /\ Returns(o, IF answer \in {"lost", "blank"} THEN "unanswered" ELSE "refused")

\* A node simulates a transaction before it takes it. So one that answers with an
\* error has not; if the answer is lost or blank, it may have.
SendTransaction(o) ==
  /\ o \in SolanaOrders /\ order[o].at = "send"
  /\ \/ \E answer \in {"signature", "lost", "blank"} : SendAnswered(o, answer) /\ Taken(Sent(o))
     \/ \E answer \in {"expired", "error", "lost", "blank"} :
          SendAnswered(o, answer) /\ UNCHANGED pool
  /\ UNCHANGED <<nonces, signatures, height, blocks, forks>>

\* If the new blockhash cannot be read, the old one is used again.
RenewBlockhash(o) ==
  /\ order[o].at = "expired"
  /\ \E h \in LatestBlockhash \union {order[o].key} :
       order' = [order EXCEPT ![o] = [at |-> "send", key |-> h, attempt |-> @.attempt + 1]]
  /\ UNCHANGED <<nonces, signatures, outcome, chainVars>>

\* Slip: a block that may still be thrown out counts.
IsProcessed(fate) == fate.commitment \in {"processed", "confirmed"}

IsConfirmed(fate) == fate.commitment = "confirmed"

\* confirmWithTimeout: a poll that fails or finds nothing is repeated until the time
\* is over. A status with an error ends it, whatever its commitment.
ConfirmSignature(o) ==
  /\ o \in SolanaOrders /\ order[o].at = "poll"
  /\ \/ /\ Sent(o) \in DOMAIN blocks
        /\ LET fate == blocks[Sent(o)]
           IN IF fate.err THEN Returns(o, "reverted")
              ELSE IsConfirmed(fate) /\ Returns(o, "confirmed")
     \/ Returns(o, "unseen")
  /\ UNCHANGED <<nonces, signatures, chainVars>>

\* processSolanaAlloc: an error of Execute leaves a row without the signature. The
\* insert is best effort.
InsertSolanaSignature(o) ==
  /\ order[o].at = "record"
  /\ LET row == [status |-> IF outcome[o] = "confirmed" THEN "confirmed" ELSE "failed",
                 key |-> IF outcome[o] \in {"refused", "unanswered"} THEN -1 ELSE order[o].key]
     IN signatures' = [p \in DOMAIN signatures \union {o} |-> IF p = o THEN row ELSE signatures[p]]
        \/ UNCHANGED signatures
  /\ Goes(o, "done")
  /\ UNCHANGED <<nonces, outcome, chainVars>>

-------------------------------------------------------------------------------
(* The executor of the EVM chains. *)

\* One statement, which counts up and returns what the count was. If it fails the
\* event is delivered again and finds its reservation: the order has no result.
AllocateNonce(o) ==
  LET w == WalletOf[o]
  IN /\ o \in EvmOrders /\ order[o].at = "start"
     /\ \/ Signs(o, nonces[w]) /\ nonces' = [nonces EXCEPT ![w] = @ + 1]
        \/ Goes(o, "stopped") /\ UNCHANGED nonces
     /\ UNCHANGED <<signatures, outcome, chainVars>>

\* Gas price, quote, slippage guard, signature and submission: each may fail, and
\* the nonce is spent. The answer of the submission may be lost.
SendRawTransaction(o) ==
  /\ o \in EvmOrders /\ order[o].at = "send"
  /\ \/ Returns(o, "refused") /\ UNCHANGED pool
     \/ Goes(o, "poll") /\ Taken(Sent(o)) /\ UNCHANGED outcome
     \/ Returns(o, "unanswered") /\ (Taken(Sent(o)) \/ UNCHANGED pool)
  /\ UNCHANGED <<nonces, signatures, height, blocks, forks>>

\* pollReceipt takes the first receipt there is, and ends with the first error.
PollReceipt(o) ==
  /\ o \in EvmOrders /\ order[o].at = "poll"
  /\ \/ /\ Sent(o) \in DOMAIN blocks
        /\ Returns(o, IF blocks[Sent(o)].err THEN "reverted" ELSE "confirmed")
     \/ \E end \in {"unanswered", "unseen"} : Returns(o, end)
  /\ UNCHANGED <<nonces, signatures, chainVars>>

\* The process stops, or its context ends: the order keeps its reservation and
\* has no result.
ExecutorStops(o) ==
  /\ order[o].at \notin {"done", "stopped"}
  /\ Goes(o, "stopped")
  /\ UNCHANGED <<nonces, signatures, outcome, chainVars>>

-------------------------------------------------------------------------------
(* The chains. *)

NewBlock ==
  /\ height < MaxHeight
  /\ height' = height + 1
  /\ UNCHANGED <<order, nonces, signatures, outcome, pool, blocks, forks>>

Mined(w) == {tx \in DOMAIN blocks : tx[1] \in EvmOrders /\ WalletOf[tx[1]] = w}

\* Solana includes a transaction whose blockhash is recent, an EVM chain the one
\* with the next nonce of its wallet.
Include(tx) ==
  /\ tx \in pool
  /\ IF tx[1] \in SolanaOrders THEN height - tx[2] <= Validity
     ELSE tx[2] = Cardinality(Mined(WalletOf[tx[1]]))
  /\ pool' = pool \ {tx}
  /\ \E err \in BOOLEAN :
       blocks' = [t \in DOMAIN blocks \union {tx} |->
                    IF t = tx THEN [commitment |-> "processed", err |-> err] ELSE blocks[t]]
  /\ UNCHANGED <<order, nonces, signatures, outcome, height, forks>>

\* Later nonces of a wallet are in later blocks.
Followed(tx) ==
  tx[1] \in EvmOrders /\ \E t \in Mined(WalletOf[tx[1]]) : t[2] > tx[2]

Finalize(tx) ==
  /\ tx \in DOMAIN blocks /\ blocks[tx].commitment = "processed"
  /\ tx[1] \in EvmOrders => \A t \in Mined(WalletOf[tx[1]]) : t[2] < tx[2] => IsConfirmed(blocks[t])
  /\ blocks' = [blocks EXCEPT ![tx].commitment = "confirmed"]
  /\ UNCHANGED <<order, nonces, signatures, outcome, height, pool, forks>>

\* The block is thrown out, its transaction waits again.
Fork(tx) ==
  /\ forks < MaxForks /\ forks' = forks + 1
  /\ tx \in DOMAIN blocks /\ blocks[tx].commitment = "processed" /\ ~Followed(tx)
  /\ blocks' = [t \in DOMAIN blocks \ {tx} |-> blocks[t]]
  /\ pool' = pool \union {tx}
  /\ UNCHANGED <<order, nonces, signatures, outcome, height>>

ExecutorStep(o) ==
  \/ FetchBlockhash(o) \/ SendTransaction(o) \/ RenewBlockhash(o) \/ ConfirmSignature(o)
  \/ InsertSolanaSignature(o)
  \/ AllocateNonce(o) \/ SendRawTransaction(o) \/ PollReceipt(o)
  \/ ExecutorStops(o)

ChainStep == NewBlock \/ \E tx \in Transactions : Include(tx) \/ Finalize(tx) \/ Fork(tx)

SubmissionNext == ChainStep \/ \E o \in SubmittedOrders : ExecutorStep(o)

SubmissionSpec == SubmissionInit /\ [][SubmissionNext]_submissionVars

-------------------------------------------------------------------------------
(* Properties. *)

\* However often an order is sent and its blockhash renewed, at most one of its
\* transactions is ever in a block: a blockhash is renewed only when no node can
\* have taken the transaction that it replaces (execution_solana.go, Execute).
LandsOnce ==
  \A t, u \in DOMAIN blocks : t[1] = u[1] => t = u

Landed(o) == \E tx \in DOMAIN blocks : tx[1] = o /\ ~blocks[tx].err

\* What is reported agrees with the chain: a Solana order that is confirmed has
\* landed for good, and one that is reported as failed has bought nothing, unless an
\* answer was lost, the time was over, or a block that was thrown out again had
\* said so. Those three are all the ways to buy a token without a position.
ResultTellsTheChain ==
  \A o \in SubmittedOrders :
    /\ o \in SolanaOrders /\ outcome[o] = "confirmed" =>
         Sent(o) \in DOMAIN blocks /\ blocks[Sent(o)] = [commitment |-> "confirmed", err |-> FALSE]
    /\ outcome[o] \in {"refused", "reverted"} /\ Landed(o) => outcome[o] = "reverted" /\ forks > 0
==============================================================================
