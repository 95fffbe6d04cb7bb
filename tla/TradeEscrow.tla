---------------------------- MODULE TradeEscrow ----------------------------
(***************************************************************************)
(* The life of a trade: reservation, payment, delivery, confirmation,      *)
(* dispute, settlement and refund, as the API routes, lib/trade-*.ts and   *)
(* the auto-confirm cron run them against one database.                    *)
(*                                                                         *)
(* A database transaction is one step.  A request that awaits between what *)
(* it read and what it writes (a payment verification, a settlement, a     *)
(* second transaction) is a record of req that remembers what it read; its *)
(* process may die at any await.  Operations that are one guarded          *)
(* transaction have no request of their own.                               *)
(*                                                                         *)
(* The settlement outbox is used through what it promises                  *)
(* (PayoutInstructions, which SettlementOutbox implements).                *)
(*                                                                         *)
(* SharesUnbounded, ExpireAgain, RetainedUnmarked, MayDisputeAnytime,      *)
(* AlwaysUnresolved, RetryQueuedOnly, AgreementForgotten, ConfirmedWhen-   *)
(* Queued and CanResolveAgain are not part of the specification: each is a *)
(* wrong variant of the definition after it, with which a property fails.  *)
(***************************************************************************)
EXTENDS Integers, FiniteSets

CONSTANTS
    Trades,
    Listings,
    ListingOf,      \* the listing each trade would buy
    External,       \* the trades paid by MPP or EVM; the others use the ledger
    Explicit,       \* the trades whose agreement demands the buyer's acceptance
    Requests,       \* concurrent requests and cron runs that await
    Proofs,         \* verified payments a buyer may present
    Price,          \* seller_amount
    Fee,            \* total_cost - seller_amount, kept by the platform
    Funds,          \* the ledger balance the buyer starts with
    Null

SharesUnbounded == 0 .. Price + 1
Shares == 0 .. Price
Kinds == {"seller_payout", "buyer_refund"}
Keys == Trades \X Kinds

ASSUME TermsAssumption ==
    /\ ListingOf \in [Trades -> Listings]
    /\ External \subseteq Trades
    /\ Explicit \subseteq Trades
    /\ Price \in Nat \ {0}
    /\ Fee \in Nat
    /\ Funds \in Nat
    /\ Null \notin Nat \cup Proofs \cup Trades

VARIABLES
    status,     \* trades.status; "none" before the trade is reserved
    payout,     \* trades.payout_status
    overdue,    \* payment_due_at has passed
    resolution, \* trades.resolution_seller_percent, as the seller's share
    review,     \* the buyer_review row of verification_results
    receipt,    \* the payment attached in payment_receipts
    listing,    \* listings.status
    balance,    \* wallets.balance of the buyer, the seller and the platform
    escrow,     \* wallets.escrow of the buyer
    amount,     \* token amount of each row of settlement_transfers
    outcome,    \* what the chain did with each row
    report,     \* what the outbox answers about each row
    req         \* the requests under way

tradeVars  == <<status, payout, overdue, resolution, review, receipt, listing>>
walletVars == <<balance, escrow>>
outboxVars == <<amount, outcome, report>>
vars == <<tradeVars, walletVars, outboxVars, req>>

Outbox == INSTANCE PayoutInstructions WITH
    Transfers <- Keys,
    given <- {k \in Keys : amount[k] # Null}

Parties == {"buyer", "seller", "platform"}
Live == {"pending", "escrow_held", "pending_release", "disputed"}
Status == Live \cup {"none", "cancelled", "completed", "resolved"}
Payout == {"pending", "fee_sent", "processing", "complete", "refunded"}
Review == {"none", "pending", "passed", "disputed", "skipped"}
Ending == {"buyer_confirm", "auto_confirm", "dispute", "refund"}

\* seen: the status the request read.  toSeller, toBuyer: the transfers it wants.
Request == [at : {"idle", "fund", "late", "confirm", "accepted", "dispute",
                  "queuePayout", "queueRefund", "awaitPayout", "awaitRefund", "finish"},
            trade : Trades \cup {Null}, seen : Status, proof : Proofs \cup {Null},
            ending : Ending \cup {Null},
            toSeller : 0 .. Price, toBuyer : 0 .. Price + Fee]

Idle == [at |-> "idle", trade |-> Null, seen |-> "none", proof |-> Null,
         ending |-> Null, toSeller |-> 0, toBuyer |-> 0]

TypeOK ==
    /\ status \in [Trades -> Status]
    /\ payout \in [Trades -> Payout]
    /\ overdue \in [Trades -> BOOLEAN]
    /\ resolution \in [Trades -> Shares \cup {Null}]
    /\ review \in [Trades -> Review]
    /\ receipt \in [Trades -> Proofs \cup {Null}]
    /\ listing \in [Listings -> {"active", "sold"}]
    /\ balance \in [Parties -> Nat]
    /\ escrow \in Nat
    /\ amount \in [Keys -> Nat \cup {Null}]
    /\ outcome \in [Keys -> {"undecided", "paid", "reverted"}]
    /\ report \in [Keys -> {"open", "confirmed", "failed"}]
    /\ req \in [Requests -> Request]

Init ==
    /\ status = [t \in Trades |-> "none"]
    /\ payout = [t \in Trades |-> "pending"]
    /\ overdue = [t \in Trades |-> FALSE]
    /\ resolution = [t \in Trades |-> Null]
    /\ review = [t \in Trades |-> "none"]
    /\ receipt = [t \in Trades |-> Null]
    /\ listing = [l \in Listings |-> "active"]
    /\ balance = [p \in Parties |-> IF p = "buyer" THEN Funds ELSE 0]
    /\ escrow = 0
    /\ amount = [k \in Keys |-> Null]
    /\ outcome = [k \in Keys |-> "undecided"]
    /\ report = [k \in Keys |-> "open"]
    /\ req = [r \in Requests |-> Idle]

\* Where a request goes next.
Start(r, new) == req[r] = Idle /\ req' = [req EXCEPT ![r] = new]
Goto(r, at) == req' = [req EXCEPT ![r].at = at]
End(r) == req' = [req EXCEPT ![r] = Idle]

\* The outbox moves on by itself: the network decides, the workers report.
OutboxStep ==
    /\ UNCHANGED <<tradeVars, walletVars, amount, req>>
    /\ \E k \in Keys :
        \/ \E o \in {"paid", "reverted"} : Outbox!Decide(k, o)
        \/ Outbox!Report(k) /\ report'[k] # report[k]
        \/ Outbox!ReportOpen(k) /\ report'[k] # report[k]

-----------------------------------------------------------------------------
(* Reservation and its end *)

\* POST /api/trades: the listing is claimed and the checkout opened.
ReserveExternal(t) ==
    /\ t \in External
    /\ status[t] = "none" /\ listing[ListingOf[t]] = "active"
    /\ listing' = [listing EXCEPT ![ListingOf[t]] = "sold"]
    /\ status' = [status EXCEPT ![t] = "pending"]
    /\ UNCHANGED <<payout, overdue, resolution, review, receipt, walletVars, outboxVars, req>>

\* createLedgerTrade: the balance pays into escrow in the same transaction.
CreateLedgerTrade(t) ==
    /\ t \notin External
    /\ status[t] = "none" /\ listing[ListingOf[t]] = "active"
    /\ balance["buyer"] >= Price + Fee
    /\ listing' = [listing EXCEPT ![ListingOf[t]] = "sold"]
    /\ status' = [status EXCEPT ![t] = "escrow_held"]
    /\ payout' = [payout EXCEPT ![t] = IF Fee > 0 THEN "fee_sent" ELSE "pending"]
    /\ balance' = [balance EXCEPT !["buyer"] = @ - Price - Fee, !["platform"] = @ + Fee]
    /\ escrow' = escrow + Price
    /\ UNCHANGED <<overdue, resolution, review, receipt, outboxVars, req>>

DeadlinePasses(t) ==
    /\ status[t] = "pending" /\ ~ overdue[t]
    /\ overdue' = [overdue EXCEPT ![t] = TRUE]
    /\ UNCHANGED <<status, payout, resolution, review, receipt, listing, walletVars, outboxVars, req>>

\* An unpaid trade is dropped and its listing is for sale again.
Dropped(t) ==
    /\ status' = [status EXCEPT ![t] = "cancelled"]
    /\ listing' = [listing EXCEPT ![ListingOf[t]] = "active"]

ExpireAgain(t) ==
    /\ status[t] \in {"pending", "cancelled"}
    /\ Dropped(t)
    /\ UNCHANGED <<payout, overdue, resolution, review, receipt, walletVars, outboxVars, req>>

\* expireTradePayment, for the buyer's cancellation or (when overdue) the cron.
ExpireTradePayment(t) ==
    /\ status[t] = "pending"
    /\ Dropped(t)
    /\ UNCHANGED <<payout, overdue, resolution, review, receipt, walletVars, outboxVars, req>>

CancelByBuyer(t) == ExpireTradePayment(t)
ExpireByCron(t) == overdue[t] /\ ExpireTradePayment(t)

-----------------------------------------------------------------------------
(* Payment *)

\* The request wants the whole payment of a cancelled trade returned.
Refunding(t) == [Idle EXCEPT !.at = "queueRefund", !.trade = t, !.ending = "refund",
                             !.toBuyer = Price + Fee]

\* A proof is attached to one trade, and a trade has one proof.
ProofIsFree(t, p) == receipt[t] = Null /\ \A u \in Trades : receipt[u] # p
Attach(t, p) == receipt' = [receipt EXCEPT ![t] = p]

\* The fund routes read the trade, then await the verification of the payment.
PresentPayment(r, t, p) ==
    /\ t \in External /\ status[t] \in {"pending", "cancelled"}
    /\ Start(r, [Idle EXCEPT !.at = "fund", !.trade = t, !.seen = status[t], !.proof = p])
    /\ UNCHANGED <<tradeVars, walletVars, outboxVars>>

\* recordExternalTradeFunding with the trade read before the verification.
\* The payment is accepted ...
AcceptFunding(r) ==
    LET t == req[r].trade IN
    /\ req[r].at = "fund" /\ req[r].seen = "pending"
    /\ ~ overdue[t] /\ status[t] = "pending" /\ ProofIsFree(t, req[r].proof)
    /\ status' = [status EXCEPT ![t] = "escrow_held"]
    /\ payout' = [payout EXCEPT ![t] = "pending"]
    /\ Attach(t, req[r].proof)
    /\ End(r)
    /\ UNCHANGED <<overdue, resolution, review, listing, walletVars, outboxVars>>

\* ... or comes for a trade that is no longer eligible (the deadline passed
\* after the first look, the provider changed): kept, to be refunded.
RefuseFunding(r) ==
    LET t == req[r].trade IN
    /\ req[r].at = "fund" /\ req[r].seen = "pending"
    /\ status[t] = "pending" /\ ProofIsFree(t, req[r].proof)
    /\ Dropped(t)
    /\ payout' = [payout EXCEPT ![t] = "processing"]
    /\ Attach(t, req[r].proof)
    /\ Goto(r, "late")
    /\ UNCHANGED <<overdue, resolution, review, walletVars, outboxVars>>

\* ... or finds the deadline passed at once: the checkout expires first.
FindCheckoutExpired(r) ==
    LET t == req[r].trade IN
    /\ req[r].at = "fund" /\ req[r].seen = "pending" /\ overdue[t]
    /\ status[t] = "pending"
    /\ Dropped(t)
    /\ Goto(r, "late")
    /\ UNCHANGED <<payout, overdue, resolution, review, receipt, walletVars, outboxVars>>

\* ... or finds that another request cancelled or funded the trade meanwhile.
FindTradeChanged(r) ==
    LET t == req[r].trade IN
    /\ req[r].at = "fund" /\ status[t] # "pending"
    /\ IF status[t] = "cancelled" THEN Goto(r, "late") ELSE End(r)
    /\ UNCHANGED <<tradeVars, walletVars, outboxVars>>

\* recordCancelledExternalFunding: the first proof is kept, the same proof again
\* only repeats the refund, another proof is refused.
RetainedUnmarked(t, p) == Attach(t, p) /\ UNCHANGED payout
Retained(t, p) ==
    /\ payout' = [payout EXCEPT ![t] = "processing"]
    /\ Attach(t, p)

RecordLatePayment(r) ==
    LET t == req[r].trade
        p == req[r].proof
    IN
    /\ req[r].at = "late" /\ status[t] = "cancelled"
    /\ \/ ProofIsFree(t, p) /\ Retained(t, p)
       \/ receipt[t] = p /\ UNCHANGED <<payout, receipt>>
    /\ req' = [req EXCEPT ![r] = Refunding(t)]
    /\ UNCHANGED <<status, overdue, resolution, review, listing, walletVars, outboxVars>>

-----------------------------------------------------------------------------
(* Delivery, confirmation, dispute, resolution *)

\* submitTradeDelivery: the review row opens with the delivery.
Deliver(t) ==
    /\ status[t] = "escrow_held"
    /\ status' = [status EXCEPT ![t] = "pending_release"]
    /\ review' = [review EXCEPT ![t] = "pending"]
    /\ UNCHANGED <<payout, overdue, resolution, receipt, listing, walletVars, outboxVars, req>>

\* agreedAcceptance: the agreement of the trade demands the buyer's acceptance.
AgreementForgotten(t) == FALSE
AgreedAcceptance(t) == t \in Explicit

\* advanceBuyerReview decides a review that is still open.
AdvanceReview(t, decision) ==
    review' = [review EXCEPT ![t] = IF @ = "pending" THEN decision ELSE @]

\* The request will carry out a division of Price and then end the trade.
Settling(t, ending, share) ==
    [Idle EXCEPT !.trade = t, !.ending = ending, !.toSeller = share, !.toBuyer = Price - share,
                 !.at = IF t \in External THEN "queuePayout" ELSE "finish"]

\* confirmBuyerTrade reads the trade, then the request's body.
Confirm(r, t) ==
    /\ status[t] = "pending_release"
    /\ Start(r, [Idle EXCEPT !.at = "confirm", !.trade = t])
    /\ UNCHANGED <<tradeVars, walletVars, outboxVars>>

\* The external claim: settlement starts and the review passes, together.
ClaimConfirmation(r) ==
    LET t == req[r].trade IN
    /\ req[r].at = "confirm" /\ t \in External
    /\ status[t] = "pending_release" /\ payout[t] = "pending"
    /\ payout' = [payout EXCEPT ![t] = "processing"]
    /\ AdvanceReview(t, "passed")
    /\ req' = [req EXCEPT ![r] = Settling(t, "buyer_confirm", Price)]
    /\ UNCHANGED <<status, overdue, resolution, receipt, listing, walletVars, outboxVars>>

\* Somebody else started the settlement: help finish it, or give up.
JoinConfirmation(r) ==
    LET t == req[r].trade IN
    /\ req[r].at = "confirm" /\ t \in External
    /\ ~ (status[t] = "pending_release" /\ payout[t] = "pending")
    /\ IF status[t] = "pending_release" /\ payout[t] = "processing"
       THEN req' = [req EXCEPT ![r] = Settling(t, "buyer_confirm", Price)]
       ELSE End(r)
    /\ UNCHANGED <<tradeVars, walletVars, outboxVars>>

\* markBuyerReviewAccepted, a transaction of its own on the ledger path; it does
\* not look at the trade.
MarkReviewAccepted(r) ==
    LET t == req[r].trade IN
    /\ req[r].at = "confirm" /\ t \notin External
    /\ AdvanceReview(t, "passed")
    /\ req' = [req EXCEPT ![r] = Settling(t, "buyer_confirm", Price)]
    /\ UNCHANGED <<status, payout, overdue, resolution, receipt, listing, walletVars, outboxVars>>

\* The cron confirms a delivery whose timer ran out.
AutoConfirm(r, t) ==
    /\ status[t] = "pending_release" /\ ~ AgreedAcceptance(t)
    /\ t \in External => payout[t] = "pending"
    /\ payout' = [payout EXCEPT ![t] = IF t \in External THEN "processing" ELSE @]
    /\ Start(r, Settling(t, "auto_confirm", Price))
    /\ UNCHANGED <<status, overdue, resolution, review, receipt, listing, walletVars, outboxVars>>

\* A party reads the trade and asks to dispute it ...
OpenDispute(r, t) ==
    /\ status[t] \in {"escrow_held", "pending_release"}
    /\ Start(r, [Idle EXCEPT !.at = "dispute", !.trade = t, !.seen = status[t]])
    /\ UNCHANGED <<tradeVars, walletVars, outboxVars>>

\* ... which the transaction grants while it is what was read and nobody settles.
MayDisputeAnytime(t, seen) == status[t] = seen
MayDispute(t, seen) == status[t] = seen /\ payout[t] # "processing"

RecordDispute(r) ==
    LET t == req[r].trade IN
    /\ req[r].at = "dispute"
    /\ IF MayDispute(t, req[r].seen)
       THEN status' = [status EXCEPT ![t] = "disputed"] /\ AdvanceReview(t, "disputed")
       ELSE UNCHANGED <<status, review>>
    /\ End(r)
    /\ UNCHANGED <<payout, overdue, resolution, receipt, listing, walletVars, outboxVars>>

\* The resolve route on an external trade: the first resolution is recorded, the
\* same one again only helps to settle it, another one is a conflict.
AlwaysUnresolved(t) == TRUE
Unresolved(t) == resolution[t] = Null

ResolveExternal(r, t, share) ==
    /\ t \in External /\ status[t] = "disputed"
    /\ \/ /\ Unresolved(t)
          /\ resolution' = [resolution EXCEPT ![t] = share]
          /\ payout' = [payout EXCEPT ![t] = "processing"]
       \/ resolution[t] = share /\ UNCHANGED <<resolution, payout>>
    /\ Start(r, Settling(t, "dispute", share))
    /\ UNCHANGED <<status, overdue, review, receipt, listing, walletVars, outboxVars>>

\* On a ledger trade the route only reads before it finalizes.
ResolveLedger(r, t, share) ==
    /\ t \notin External /\ status[t] = "disputed"
    /\ Start(r, Settling(t, "dispute", share))
    /\ UNCHANGED <<tradeVars, walletVars, outboxVars>>

\* The cron takes up every external settlement that was started and not finished.
RetryQueuedOnly(t) == payout[t] = "processing" /\ \E kind \in Kinds : amount[<<t, kind>>] # Null
MustRetry(t) == payout[t] = "processing"

RetrySettlement(r, t) ==
    /\ t \in External /\ MustRetry(t)
    /\ \/ /\ status[t] = "pending_release"
          /\ Start(r, Settling(t, "buyer_confirm", Price))
       \/ /\ status[t] = "disputed" /\ resolution[t] # Null
          /\ Start(r, Settling(t, "dispute", resolution[t]))
       \/ /\ status[t] = "cancelled"
          /\ Start(r, Refunding(t))
    /\ UNCHANGED <<tradeVars, walletVars, outboxVars>>

-----------------------------------------------------------------------------
(* settleExternallyFundedTrade and refundCancelledExternalTrade *)

\* assertTradeReleaseAllowed, for the reasons the code asks it with.
ReleaseAllowed(t, reason) ==
    AgreedAcceptance(t) => reason # "auto_confirm" /\ review[t] = "passed"

\* queueTransfer: a new instruction, or the one that exists if it is the same.
Queue(k, n) ==
    \/ /\ amount' = [amount EXCEPT ![k] = n]
       /\ Outbox!Instruct(k)
    \/ amount[k] = n /\ UNCHANGED outboxVars

QueuePayout(r) ==
    LET t == req[r].trade IN
    /\ req[r].at = "queuePayout"
    /\ req[r].ending # "dispute" => ReleaseAllowed(t, "seller_payout")
    /\ IF req[r].toSeller > 0
       THEN Queue(<<t, "seller_payout">>, req[r].toSeller)
       ELSE UNCHANGED outboxVars
    /\ Goto(r, "queueRefund")
    /\ UNCHANGED <<tradeVars, walletVars>>

QueueRefund(r) ==
    /\ req[r].at = "queueRefund"
    /\ IF req[r].toBuyer > 0
       THEN Queue(<<req[r].trade, "buyer_refund">>, req[r].toBuyer)
       ELSE UNCHANGED outboxVars
    /\ Goto(r, "awaitPayout")
    /\ UNCHANGED <<tradeVars, walletVars>>

\* Each transfer is asked for in turn; an answer other than "confirmed" ends the
\* request, which leaves the trade to the cron.
ConfirmedWhenQueued(k, n) == n > 0 => amount[k] # Null
Confirmed(k, n) == n > 0 => report[k] = "confirmed"

AwaitPayout(r) ==
    /\ req[r].at = "awaitPayout"
    /\ IF Confirmed(<<req[r].trade, "seller_payout">>, req[r].toSeller)
       THEN Goto(r, "awaitRefund") ELSE End(r)
    /\ UNCHANGED <<tradeVars, walletVars, outboxVars>>

AwaitRefund(r) ==
    /\ req[r].at = "awaitRefund"
    /\ IF Confirmed(<<req[r].trade, "buyer_refund">>, req[r].toBuyer)
       THEN Goto(r, "finish") ELSE End(r)
    /\ UNCHANGED <<tradeVars, walletVars, outboxVars>>

-----------------------------------------------------------------------------
(* The end of a trade *)

\* The ledger releases a trade's escrow only if the buyer's escrow covers it.
ReleaseEscrow(t, share) ==
    IF t \in External
    THEN UNCHANGED walletVars
    ELSE /\ escrow >= Price
         /\ escrow' = escrow - Price
         /\ balance' = [balance EXCEPT !["seller"] = @ + share,
                                       !["buyer"] = @ + Price - share]

\* finalizeTradeCompletion
CanComplete(t, reason) == status[t] = "pending_release" /\ ReleaseAllowed(t, reason)

FinalizeCompletion(r) ==
    LET t == req[r].trade IN
    /\ req[r].at = "finish" /\ req[r].ending \in {"buyer_confirm", "auto_confirm"}
    /\ CanComplete(t, req[r].ending)
    /\ status' = [status EXCEPT ![t] = "completed"]
    /\ payout' = [payout EXCEPT ![t] = "complete"]
    /\ IF req[r].ending = "auto_confirm" THEN AdvanceReview(t, "skipped") ELSE UNCHANGED review
    /\ ReleaseEscrow(t, Price)
    /\ End(r)
    /\ UNCHANGED <<overdue, resolution, receipt, listing, outboxVars>>

\* finalizeTradeDispute
CanResolveAgain(t) == status[t] \in {"disputed", "resolved"}
CanResolve(t) == status[t] = "disputed"

FinalizeDispute(r) ==
    LET t == req[r].trade IN
    /\ req[r].at = "finish" /\ req[r].ending = "dispute"
    /\ CanResolve(t)
    /\ status' = [status EXCEPT ![t] = "resolved"]
    /\ payout' = [payout EXCEPT ![t] = "complete"]
    /\ resolution' = [resolution EXCEPT ![t] = req[r].toSeller]
    /\ ReleaseEscrow(t, req[r].toSeller)
    /\ End(r)
    /\ UNCHANGED <<overdue, review, receipt, listing, outboxVars>>

\* The last write of refundCancelledExternalTrade.
MarkRefunded(r) ==
    LET t == req[r].trade IN
    /\ req[r].at = "finish" /\ req[r].ending = "refund" /\ status[t] = "cancelled"
    /\ payout' = [payout EXCEPT ![t] = "refunded"]
    /\ End(r)
    /\ UNCHANGED <<status, overdue, resolution, review, receipt, listing, walletVars, outboxVars>>

\* The process dies, the network or the configuration fails the request, or a
\* guard above refuses it: nothing more is written.
Fail(r) ==
    /\ req[r] # Idle
    /\ End(r)
    /\ UNCHANGED <<tradeVars, walletVars, outboxVars>>

Next ==
    \/ OutboxStep
    \/ \E t \in Trades :
        \/ ReserveExternal(t) \/ CreateLedgerTrade(t)
        \/ DeadlinePasses(t) \/ CancelByBuyer(t) \/ ExpireByCron(t)
        \/ Deliver(t)
    \/ \E r \in Requests, t \in Trades :
        \/ \E p \in Proofs : PresentPayment(r, t, p)
        \/ Confirm(r, t) \/ AutoConfirm(r, t) \/ OpenDispute(r, t)
        \/ \E s \in Shares : ResolveExternal(r, t, s) \/ ResolveLedger(r, t, s)
        \/ RetrySettlement(r, t)
    \/ \E r \in Requests :
        \/ AcceptFunding(r) \/ RefuseFunding(r) \/ FindCheckoutExpired(r)
        \/ FindTradeChanged(r) \/ RecordLatePayment(r)
        \/ ClaimConfirmation(r) \/ JoinConfirmation(r) \/ MarkReviewAccepted(r)
        \/ RecordDispute(r)
        \/ QueuePayout(r) \/ QueueRefund(r) \/ AwaitPayout(r) \/ AwaitRefund(r)
        \/ FinalizeCompletion(r) \/ FinalizeDispute(r) \/ MarkRefunded(r)
        \/ Fail(r)

Spec == Init /\ [][Next]_vars

-----------------------------------------------------------------------------
(* What must hold *)

InOrder(t, kind) == IF amount[<<t, kind>>] = Null THEN 0 ELSE amount[<<t, kind>>]
Paid(t, kind) == InOrder(t, kind) = 0 \/ outcome[<<t, kind>>] = "paid"

\* The outbox is never told to send more than the trade holds (nothing without an
\* attached payment, the whole payment back for a cancelled trade, otherwise at
\* most the seller's price between the two sides; the fee stays), and what the
\* trade says of its end happened on the chain: a completed trade paid the seller
\* all, a resolved one divided the price as resolved, a refunded one returned all.
EndsAsPaid ==
    /\ \A t \in Trades :
        LET sum == InOrder(t, "seller_payout") + InOrder(t, "buyer_refund") IN
        /\ sum > 0 => receipt[t] # Null
        /\ status[t] = "cancelled" => InOrder(t, "seller_payout") = 0
        /\ status[t] # "cancelled" => sum <= Price
    /\ \A t \in External :
        /\ payout[t] \in {"complete", "refunded"} =>
               Paid(t, "seller_payout") /\ Paid(t, "buyer_refund")
        /\ status[t] = "completed" => InOrder(t, "seller_payout") = Price
        /\ status[t] = "resolved" =>
               /\ InOrder(t, "seller_payout") = resolution[t]
               /\ InOrder(t, "buyer_refund") = Price - resolution[t]
        /\ payout[t] = "refunded" => InOrder(t, "buyer_refund") = Price + Fee

\* Money waits for whoever has to decide: as long as a dispute is unresolved no
\* transfer of the trade was ever queued, and under an explicit agreement no
\* undisputed money moves before the buyer's review passed, on either rail.
MoneyWaitsForDecision ==
    /\ \A t \in Trades :
        status[t] = "disputed" /\ resolution[t] = Null =>
            \A kind \in Kinds : amount[<<t, kind>>] = Null
    /\ \A t \in Explicit :
        /\ status[t] = "completed" => review[t] = "passed"
        /\ status[t] = "pending_release" /\ amount[<<t, "seller_payout">>] # Null
               => review[t] = "passed"

\* A listing is sold exactly while one trade on it was not dropped: a late
\* payment, a slow cancellation or the cron never frees it under another buyer.
OneTradePerListing ==
    \A l \in Listings :
        LET on == {t \in Trades : ListingOf[t] = l /\ status[t] \notin {"none", "cancelled"}} IN
        /\ Cardinality(on) <= 1
        /\ listing[l] = "sold" <=> on # {}

\* A verified payment is never lost: it is held, or it paid for the end of its
\* trade, or the cron will find it to return it; and no proof serves twice.
PaymentsAreRetained ==
    \A t \in Trades : receipt[t] # Null =>
        /\ status[t] \notin {"none", "pending"}
        /\ status[t] = "cancelled" => payout[t] \in {"processing", "refunded"}
        /\ \A u \in Trades \ {t} : receipt[u] # receipt[t]

\* The buyer's ledger escrow is what the unfinished ledger trades hold, and no
\* money appears or disappears.
EscrowBacksLedgerTrades ==
    /\ escrow = Price * Cardinality({t \in Trades \ External : status[t] \in Live})
    /\ balance["buyer"] + balance["seller"] + balance["platform"] + escrow = Funds

\* docs/VERIFICATION_POLICY.md:65, "Buyer confirmation records passed review;
\* ... legacy auto-confirm records skipped review": a completed trade has one.
CompletionClosesReview ==
    \A t \in Trades : status[t] = "completed" => review[t] \in {"passed", "skipped"}

\* The trades paid from outside keep the agreement of EscrowAgreement: money is
\* held before it is divided, the division is decided once and by whom it should
\* be, never changes (README.md:44), and a late payment only goes back.
Agreed(t) ==
    \/ status[t] \in {"completed", "resolved"}
    \/ status[t] = "pending_release" /\ payout[t] = "processing"
    \/ status[t] = "disputed" /\ resolution[t] # Null

Closed(t) == status[t] \in {"completed", "resolved"}

StageOf(t) ==
    CASE status[t] \in {"none", "pending"} -> "unpaid"
      [] status[t] = "cancelled" /\ payout[t] = "refunded" -> "returned"
      [] status[t] = "cancelled" /\ payout[t] = "processing" -> "owed"
      [] status[t] = "cancelled" /\ payout[t] \notin {"processing", "refunded"} -> "dropped"
      [] Closed(t) -> "closed"
      [] Agreed(t) /\ ~ Closed(t) -> "decided"
      [] status[t] = "disputed" /\ ~ Agreed(t) -> "contested"
      [] OTHER -> "held"

ShareOf(t) ==
    IF ~ Agreed(t) THEN Null
    ELSE IF status[t] \in {"disputed", "resolved"} THEN resolution[t] ELSE Price

Agreement == INSTANCE EscrowAgreement WITH
    Trades <- External,
    stage <- [t \in External |-> StageOf(t)],
    share <- [t \in External |-> ShareOf(t)]

KeepsAgreement == Agreement!Spec

=============================================================================
