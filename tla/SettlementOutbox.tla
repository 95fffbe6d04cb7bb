-------------------------- MODULE SettlementOutbox --------------------------
(***************************************************************************)
(* The durable settlement outbox of lib/external-settlement.ts: the rows   *)
(* of settlement_transfers, the nonce counter of the settlement wallet and *)
(* the requests (cron runs, buyer confirmations, admin resolutions) that   *)
(* process a row concurrently in separate server processes.                *)
(*                                                                         *)
(* A worker is one call of processSettlementTransfer.  Every await of that *)
(* function that another worker can observe ends a step.  The network is   *)
(* external: a mempool and a chain that mines a wallet's transactions in   *)
(* nonce order, one per nonce.  One wallet is modelled (the rows of two    *)
(* wallets share nothing), and only the outbox signs for it.               *)
(*                                                                         *)
(* KeepsNonceOfClaim, FreshNonceOffByOne, StaleNever, StatusOfAnyReceipt   *)
(* and StartOver are not part of the specification: each is a wrong        *)
(* variant of the definition after it, with which a property below must    *)
(* fail.                                                                   *)
(***************************************************************************)
EXTENDS Integers, Sequences, FiniteSets

CONSTANTS
    Transfers,      \* the business keys `trade:kind` the trades may queue
    Workers,        \* concurrent calls of processSettlementTransfer
    Fees,           \* what prepareTransactionRequest may quote: another fee is another signature
    Null,           \* an empty column
    SlowSigners     \* TRUE when a signer may outlive the five-minute claim

SignedTx == [transfer : Transfers, nonce : Nat, fee : Fees]

ASSUME NullAssumption == Null \notin Nat \cup SignedTx \cup Transfers
ASSUME SlowSignersAssumption == SlowSigners \in BOOLEAN

VARIABLES
    status,     \* settlement_transfers.status, "none" before the row exists
    nonce,      \* settlement_transfers.nonce
    raw,        \* settlement_transfers.raw_transaction (and its tx_hash)
    nextNonce,  \* settlement_nonces.next_nonce
    pc,         \* where each worker is in processSettlementTransfer
    job,        \* the row each worker processes
    held,       \* the worker's copy of raw_transaction
    claimed,    \* the worker's copy of nonce, from the claim's RETURNING
    count,      \* the transaction count the network told the worker
    mempool,    \* signed transactions the network knows and has not mined
    chain       \* the wallet's mined transactions with their receipts; nonce n is chain[n + 1]

rowVars    == <<status, nonce, raw>>
workerVars == <<pc, job, held, claimed, count>>
netVars    == <<mempool, chain>>
vars == <<status, nonce, raw, nextNonce, pc, job, held, claimed, count, mempool, chain>>

Final == {"confirmed", "failed"}
Status == {"none", "pending", "signing", "prepared", "submitted"} \cup Final
Signing == {"count", "allocate", "sign"}          \* inside the try of lines 217-230
Sending == {"send", "mark", "wait"}               \* inside the try of lines 235-255
Pc == {"idle", "claim", "reread"} \cup Signing \cup Sending

TypeOK ==
    /\ status \in [Transfers -> Status]
    /\ nonce \in [Transfers -> Nat \cup {Null}]
    /\ raw \in [Transfers -> SignedTx \cup {Null}]
    /\ nextNonce \in Nat
    /\ pc \in [Workers -> Pc]
    /\ job \in [Workers -> Transfers \cup {Null}]
    /\ held \in [Workers -> SignedTx \cup {Null}]
    /\ claimed \in [Workers -> Nat \cup {Null}]
    /\ count \in [Workers -> Nat]
    /\ mempool \in SUBSET SignedTx
    /\ chain \in Seq([tx : SignedTx, ok : BOOLEAN])

Init ==
    /\ status = [t \in Transfers |-> "none"]
    /\ nonce = [t \in Transfers |-> Null]
    /\ raw = [t \in Transfers |-> Null]
    /\ nextNonce = 0
    /\ pc = [w \in Workers |-> "idle"]
    /\ job = [w \in Workers |-> Null]
    /\ held = [w \in Workers |-> Null]
    /\ claimed = [w \in Workers |-> Null]
    /\ count = [w \in Workers |-> 0]
    /\ mempool = {}
    /\ chain = <<>>

-----------------------------------------------------------------------------
(* The network *)

Mined(t) == \E i \in DOMAIN chain : chain[i].tx.transfer = t

\* eth_getTransactionCount(pending): mined plus the unbroken run in the mempool.
PendingCount ==
    CHOOSE n \in Len(chain) .. Len(chain) + Cardinality(mempool) :
        /\ \A k \in Len(chain) .. n - 1 : \E tx \in mempool : tx.nonce = k
        /\ ~ \E tx \in mempool : tx.nonce = n

\* The wallet's next nonce is mined; it succeeds or reverts.  Other signatures
\* of that nonce can never be mined any more.
Mine ==
    /\ \E tx \in mempool, ok \in BOOLEAN :
        /\ tx.nonce = Len(chain)
        /\ chain' = Append(chain, [tx |-> tx, ok |-> ok])
    /\ mempool' = {tx \in mempool : tx.nonce > Len(chain)}
    /\ UNCHANGED <<rowVars, nextNonce, workerVars>>

\* The network forgets an unmined transaction.
Evict ==
    /\ \E tx \in mempool : mempool' = mempool \ {tx}
    /\ UNCHANGED <<rowVars, nextNonce, workerVars, chain>>

-----------------------------------------------------------------------------
(* queueTransfer and the stale-claim sweep *)

\* The insert of queueTransfer; on an existing row it does nothing.
QueueTransfer(t) ==
    /\ status[t] = "none"
    /\ status' = [status EXCEPT ![t] = "pending"]
    /\ UNCHANGED <<nonce, raw, nextNonce, workerVars, netVars>>

\* processPendingSettlementTransfers resets a claim whose row was last written
\* five minutes ago.  Nothing stops the signer it takes the row from.
StaleNever(t) == FALSE
Stale(t) ==
    /\ status[t] = "signing"
    /\ SlowSigners \/ ~ \E w \in Workers : job[w] = t /\ pc[w] \in Signing

ReclaimStale(t) ==
    /\ Stale(t)
    /\ status' = [status EXCEPT ![t] = "pending"]
    /\ UNCHANGED <<nonce, raw, nextNonce, workerVars, netVars>>

-----------------------------------------------------------------------------
(* processSettlementTransfer *)

\* The call ends: it returns, throws, or its process dies.
Finish(w) ==
    /\ pc' = [pc EXCEPT ![w] = "idle"]
    /\ job' = [job EXCEPT ![w] = Null]
    /\ held' = [held EXCEPT ![w] = Null]
    /\ claimed' = [claimed EXCEPT ![w] = Null]
    /\ count' = [count EXCEPT ![w] = 0]

Goto(w, label) == pc' = [pc EXCEPT ![w] = label]

\* The first read.  A confirmed row returns and a failed one throws at once; a
\* seller payout whose trade may not be released throws here too.
Begin(w, t) ==
    /\ pc[w] = "idle"
    /\ status[t] \notin Final \cup {"none"}
    /\ Goto(w, IF raw[t] = Null THEN "claim" ELSE "send")
    /\ job' = [job EXCEPT ![w] = t]
    /\ held' = [held EXCEPT ![w] = raw[t]]
    /\ UNCHANGED <<rowVars, nextNonce, claimed, count, netVars>>

\* The conditional update of lines 212-214: only a pending row is claimed.
Claimable(t) == status[t] = "pending"

Claim(w) ==
    /\ pc[w] = "claim"
    /\ Claimable(job[w])
    /\ status' = [status EXCEPT ![job[w]] = "signing"]
    /\ claimed' = [claimed EXCEPT ![w] = nonce[job[w]]]
    /\ Goto(w, "count")
    /\ UNCHANGED <<nonce, raw, nextNonce, job, held, count, netVars>>

ClaimLost(w) ==
    /\ pc[w] = "claim"
    /\ ~ Claimable(job[w])
    /\ Finish(w)
    /\ UNCHANGED <<rowVars, nextNonce, netVars>>

\* A load-balanced RPC may answer from a node that lags.
ReadNetworkNonce(w) ==
    /\ pc[w] = "count"
    /\ \E n \in 0 .. PendingCount : count' = [count EXCEPT ![w] = n]
    /\ Goto(w, "allocate")
    /\ UNCHANGED <<rowVars, nextNonce, job, held, claimed, netVars>>

Larger(a, b) == IF a >= b THEN a ELSE b

\* The nonce the transaction of allocateNonce hands out to a row without one.
FreshNonceOffByOne(w) == Larger(count[w], nextNonce) - 1
FreshNonce(w) == Larger(count[w], nextNonce)

\* The row keeps the nonce it has: the copy of the claim, else the column.
KeepsNonceOfClaim(w) == claimed[w] # Null
KeepsNonce(w) == claimed[w] # Null \/ nonce[job[w]] # Null

AllocateNonce(w) ==
    /\ pc[w] = "allocate"
    /\ Goto(w, "sign")
    /\ \/ /\ KeepsNonce(w)
          /\ claimed' = [claimed EXCEPT ![w] = IF claimed[w] # Null THEN claimed[w] ELSE nonce[job[w]]]
          /\ UNCHANGED <<nonce, nextNonce>>
       \/ /\ ~ KeepsNonce(w)
          /\ claimed' = [claimed EXCEPT ![w] = FreshNonce(w)]
          /\ nonce' = [nonce EXCEPT ![job[w]] = FreshNonce(w)]
          /\ nextNonce' = FreshNonce(w) + 1
    /\ UNCHANGED <<status, raw, job, held, count, netVars>>

\* Prepare, sign and store.  The store only takes a row still marked signing.
Sign(w) ==
    /\ pc[w] = "sign"
    /\ \E fee \in Fees :
        LET tx == [transfer |-> job[w], nonce |-> claimed[w], fee |-> fee]
        IN  IF status[job[w]] = "signing"
            THEN /\ raw' = [raw EXCEPT ![job[w]] = tx]
                 /\ status' = [status EXCEPT ![job[w]] = "prepared"]
            ELSE UNCHANGED <<raw, status>>
    /\ Goto(w, "reread")
    /\ UNCHANGED <<nonce, nextNonce, job, held, claimed, count, netVars>>

\* The catch of lines 226-229 writes pending whatever the row has become.
PrepareFails(w) ==
    /\ pc[w] \in Signing
    /\ status' = [status EXCEPT ![job[w]] = "pending"]
    /\ Finish(w)
    /\ UNCHANGED <<nonce, raw, nextNonce, netVars>>

\* The worker goes on with what the row holds, not with what it signed itself.
Reread(w) ==
    /\ pc[w] = "reread"
    /\ raw[job[w]] # Null
    /\ held' = [held EXCEPT ![w] = raw[job[w]]]
    /\ Goto(w, "send")
    /\ UNCHANGED <<rowVars, nextNonce, job, claimed, count, netVars>>

RereadNothing(w) ==
    /\ pc[w] = "reread"
    /\ raw[job[w]] = Null
    /\ Finish(w)
    /\ UNCHANGED <<rowVars, nextNonce, netVars>>

\* sendRawTransaction is accepted, or refused for a transaction the network knows.
Broadcast(w) ==
    /\ pc[w] = "send"
    /\ \/ /\ held[w].nonce >= Len(chain)
          /\ mempool' = mempool \cup {held[w]}
       \/ /\ \E i \in DOMAIN chain : chain[i].tx = held[w]
          /\ UNCHANGED mempool
    /\ Goto(w, "mark")
    /\ UNCHANGED <<rowVars, nextNonce, job, held, claimed, count, chain>>

MarkSubmitted(w) ==
    /\ pc[w] = "mark"
    /\ status' = [status EXCEPT ![job[w]] = "submitted"]
    /\ Goto(w, "wait")
    /\ UNCHANGED <<nonce, raw, nextNonce, job, held, claimed, count, netVars>>

\* What the worker writes for a receipt.
StatusOfAnyReceipt(receipt) == "confirmed"
StatusOf(receipt) == IF receipt.ok THEN "confirmed" ELSE "failed"

\* The receipt of the transaction the worker waits for, or of the one that took
\* its nonce: waitForTransactionReceipt follows a replacement.
ReceiptArrives(w) ==
    /\ pc[w] = "wait"
    /\ \E i \in DOMAIN chain :
        /\ chain[i].tx.nonce = held[w].nonce
        /\ status' = [status EXCEPT ![job[w]] = StatusOf(chain[i])]
    /\ Finish(w)
    /\ UNCHANGED <<nonce, raw, nextNonce, netVars>>

StartOver(w) ==
    /\ pc[w] \in Sending
    /\ status' = [status EXCEPT ![job[w]] = "pending"]
    /\ nonce' = [nonce EXCEPT ![job[w]] = Null]
    /\ raw' = [raw EXCEPT ![job[w]] = Null]
    /\ Finish(w)
    /\ UNCHANGED <<nextNonce, netVars>>

\* A refused broadcast, a timed-out wait, an RPC error: the catch of line 253
\* writes submitted whatever the row has become.
GiveUp(w) ==
    /\ pc[w] \in Sending
    /\ status' = [status EXCEPT ![job[w]] = "submitted"]
    /\ Finish(w)
    /\ UNCHANGED <<nonce, raw, nextNonce, netVars>>

\* The process of a request is killed: nothing more of it is executed.
Crash(w) ==
    /\ pc[w] # "idle"
    /\ Finish(w)
    /\ UNCHANGED <<rowVars, nextNonce, netVars>>

WorkerStep(w) ==
    \/ \E t \in Transfers : Begin(w, t)
    \/ Claim(w) \/ ClaimLost(w)
    \/ ReadNetworkNonce(w) \/ AllocateNonce(w) \/ Sign(w) \/ PrepareFails(w)
    \/ Reread(w) \/ RereadNothing(w)
    \/ Broadcast(w) \/ MarkSubmitted(w) \/ ReceiptArrives(w) \/ GiveUp(w)
    \/ Crash(w)

Next ==
    \/ \E t \in Transfers : QueueTransfer(t) \/ ReclaimStale(t)
    \/ \E w \in Workers : WorkerStep(w)
    \/ Mine \/ Evict

Spec == Init /\ [][Next]_vars

-----------------------------------------------------------------------------
(* Safety *)

\* A payout or refund moves the money at most once, however many workers sign and
\* broadcast it and whatever signatures they produce: at most one transaction of
\* an instruction is ever mined (README.md: "can be retried without paying twice").
PaidAtMostOnce ==
    \A i, j \in DOMAIN chain : chain[i].tx.transfer = chain[j].tx.transfer => i = j

\* A recorded outcome is the chain's outcome: a row is confirmed only if its own
\* transfer succeeded on the chain and failed only if it reverted there (lines
\* 242-249), although the worker that writes it may hold a replaced signature.
OutcomeIsTruthful ==
    \A t \in Transfers : status[t] \in Final =>
        \E i \in DOMAIN chain :
            chain[i].tx.transfer = t /\ chain[i].ok = (status[t] = "confirmed")

\* allocateNonce leaves no hole: every nonce handed out belongs to a row, which a
\* retry will sign.  A hole would hold up every later payout of the wallet for ever.
NoNonceIsLost ==
    \A n \in 0 .. nextNonce - 1 : \E t \in Transfers : nonce[t] = n

\* Signed transactions "are persisted before broadcast ... and can be retried"
\* (README.md:44): the transaction the row holds is the one that was mined, so that
\* a retry (lines 236-242) finds its receipt.  Once the row holds another signature
\* of the same nonce, every retry is refused and the outcome is never recorded.
RetryFindsTheOutcome ==
    \A i \in DOMAIN chain : raw[chain[i].tx.transfer] = chain[i].tx

\* An instruction never changes its nonce once it has one (allocateNonce, lines
\* 169 and 173): the step that would allow a second payment is never taken.
NonceIsForever ==
    [][\A t \in Transfers : nonce[t] # Null => nonce'[t] = nonce[t]]_vars

-----------------------------------------------------------------------------
(* The outbox implements PayoutInstructions *)

OutcomeOf(t) ==
    IF ~ Mined(t) THEN "undecided"
    ELSE IF \E i \in DOMAIN chain : chain[i].tx.transfer = t /\ chain[i].ok
         THEN "paid" ELSE "reverted"

ReportOf(t) == IF status[t] \in Final THEN status[t] ELSE "open"

Instructions == INSTANCE PayoutInstructions WITH
    given <- {t \in Transfers : status[t] # "none"},
    outcome <- [t \in Transfers |-> OutcomeOf(t)],
    report <- [t \in Transfers |-> ReportOf(t)]

\* Every step of every interleaving of the workers, the sweep and the network is a
\* step of the abstract outbox or leaves it alone.
ImplementsInstructions == Instructions!Spec

=============================================================================
