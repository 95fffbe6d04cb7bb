------------------------- MODULE TradeEscrow_proofs -------------------------
(***************************************************************************)
(* Money held for a trade is divided once and as decided, for any trades,  *)
(* requests, payments, price and fee.                                      *)
(*                                                                         *)
(* The argument: what a trade owes (SellerDue, BuyerDue) is fixed by the   *)
(* transaction that decides it and never changes again.  Every request     *)
(* that settles wants exactly what is due, so however many there are, each *)
(* transfer that is queued, awaited or confirmed is the one that is due.   *)
(***************************************************************************)
EXTENDS TradeEscrow, FiniteSetTheorems, TLAPS

Payable == {"queuePayout", "queueRefund", "awaitPayout", "awaitRefund"}
SellerKey(t) == <<t, "seller_payout">>
BuyerKey(t) == <<t, "buyer_refund">>

\* A payment of a dropped reservation is owed back; an agreed division is due.
Owed(t) == status[t] = "cancelled" /\ receipt[t] # Null
Decided(t) == Agreed(t) \/ Owed(t)
SellerDue(t) == IF Agreed(t) THEN ShareOf(t) ELSE 0
BuyerDue(t) == IF Agreed(t) THEN Price - ShareOf(t) ELSE IF Owed(t) THEN Price + Fee ELSE 0

\* The columns of a trade paid from outside fit together.
RowsFit(t) ==
    /\ receipt[t] = Null <=> \/ status[t] \in {"none", "pending"}
                             \/ status[t] = "cancelled" /\ payout[t] = "pending"
    /\ status[t] \in {"none", "pending", "escrow_held"} => payout[t] = "pending"
    /\ status[t] = "pending_release" => payout[t] \in {"pending", "processing"}
    /\ status[t] = "disputed" => payout[t] = IF resolution[t] = Null THEN "pending" ELSE "processing"
    /\ status[t] = "cancelled" => payout[t] \in {"pending", "processing", "refunded"}
    /\ Closed(t) => payout[t] = "complete"
    /\ status[t] = "resolved" => resolution[t] # Null
    /\ resolution[t] # Null => status[t] \in {"disputed", "resolved"}

\* Its transfers are what is due, and it ends when they are paid.
Ordered(k, due) == amount[k] = Null \/ (due > 0 /\ amount[k] = due)
Sent(k, due) == due > 0 => amount[k] # Null /\ outcome[k] = "paid"
PaysWhatIsDue(t) ==
    /\ Ordered(SellerKey(t), SellerDue(t)) /\ Ordered(BuyerKey(t), BuyerDue(t))
    /\ payout[t] \in {"complete", "refunded"} =>
           Sent(SellerKey(t), SellerDue(t)) /\ Sent(BuyerKey(t), BuyerDue(t))

\* Under an explicit agreement the review passed before money moved undisputed.
ReviewFirst(t) ==
    t \in Explicit =>
        /\ status[t] = "completed" => review[t] = "passed"
        /\ status[t] = "pending_release" /\ amount[SellerKey(t)] # Null => review[t] = "passed"

\* A ledger trade has no payment from outside and no transfer.
OnLedger(t) ==
    /\ status[t] \notin {"pending", "cancelled"} /\ receipt[t] = Null
    /\ amount[SellerKey(t)] = Null /\ amount[BuyerKey(t)] = Null

\* What a request under way may rely on.
Settles(r) ==
    LET t == req[r].trade IN
    /\ Decided(t)
    /\ req[r].toSeller = SellerDue(t) /\ req[r].toBuyer = BuyerDue(t)
    /\ req[r].ending = "dispute" => status[t] \in {"disputed", "resolved"}
    /\ req[r].at # "queuePayout" /\ req[r].toSeller > 0 => amount[SellerKey(t)] # Null
    /\ req[r].at \notin {"queuePayout", "queueRefund"} /\ req[r].toBuyer > 0
           => amount[BuyerKey(t)] # Null
    /\ req[r].at \in {"awaitRefund", "finish"} => Sent(SellerKey(t), req[r].toSeller)
    /\ req[r].at = "finish" => Sent(BuyerKey(t), req[r].toBuyer)

Knows(r) ==
    /\ req[r] # Idle => req[r].trade \in Trades
    /\ req[r].at \in {"fund", "late"} => req[r].trade \in External /\ req[r].proof \in Proofs
    /\ req[r].at = "dispute" => req[r].seen \in {"escrow_held", "pending_release"}
    /\ req[r].at \in Payable => req[r].trade \in External
    /\ req[r].at \in Payable \cup {"finish"} /\ req[r].trade \in External => Settles(r)

Fits(t) ==
    /\ t \in External => RowsFit(t) /\ PaysWhatIsDue(t)
    /\ t \notin External => OnLedger(t)
    /\ ReviewFirst(t)

TradesFit == \A t \in Trades : Fits(t)
RequestsKnow == \A r \in Requests : Knows(r)
ReportsAreTrue == \A k \in Keys : report[k] = "confirmed" => outcome[k] = "paid"
ProofsServeOnce == \A t, u \in Trades : receipt[t] # Null /\ receipt[t] = receipt[u] => t = u

\* The listing of a trade that was not dropped is sold to it alone.
Holds(t) == status[t] \notin {"none", "cancelled"}
ListingsHold ==
    /\ \A t, u \in Trades : Holds(t) /\ Holds(u) /\ ListingOf[t] = ListingOf[u] => t = u
    /\ \A l \in Listings : listing[l] = "sold" <=> \E t \in Trades : Holds(t) /\ ListingOf[t] = l

IInv ==
    /\ TypeOK
    /\ TradesFit /\ RequestsKnow
    /\ ReportsAreTrue /\ ProofsServeOnce /\ ListingsHold

-----------------------------------------------------------------------------
(* Requests *)

LEMMA Terms ==
    /\ Price \in Nat \ {0} /\ Fee \in Nat /\ Funds \in Nat
    /\ External \subseteq Trades /\ ListingOf \in [Trades -> Listings]
    /\ Null \notin Nat /\ Null \notin Proofs /\ Null \notin Trades
BY TermsAssumption

Ats == {"idle", "fund", "late", "confirm", "accepted", "dispute",
        "queuePayout", "queueRefund", "awaitPayout", "awaitRefund", "finish"}

LEMMA RequestsTyped ==
    /\ Idle \in Request
    /\ \A t \in Trades, e \in Ending, s \in Shares : Settling(t, e, s) \in Request
    /\ \A t \in Trades : Refunding(t) \in Request
<1>1. 0 \in 0 .. Price /\ 0 \in 0 .. Price + Fee
    BY Terms
<1>2. Idle \in Request
    BY <1>1 DEF Idle, Request, Status
<1>3. ASSUME NEW t \in Trades, NEW e \in Ending, NEW s \in Shares
      PROVE  Settling(t, e, s) \in Request
    <2>1. s \in 0 .. Price /\ Price - s \in 0 .. Price + Fee
        BY Terms DEF Shares
    <2> QED
        BY <1>2, <2>1 DEF Settling, Idle, Request
<1>4. ASSUME NEW t \in Trades
      PROVE  Refunding(t) \in Request
    <2>1. Price + Fee \in 0 .. Price + Fee
        BY Terms
    <2> QED
        BY <1>2, <2>1 DEF Refunding, Idle, Request, Ending
<1> QED
    BY <1>2, <1>3, <1>4

\* A step of a request changes that request only.
Others(r) == \A q \in Requests \ {r} : req'[q] = req[q]

LEMMA RequestMoves ==
    ASSUME req \in [Requests -> Request], NEW r \in Requests
    PROVE  /\ \A at \in Ats : Goto(r, at) =>
                  /\ req' \in [Requests -> Request] /\ Others(r)
                  /\ req'[r] = [req[r] EXCEPT !.at = at]
           /\ End(r) => req' \in [Requests -> Request] /\ Others(r) /\ req'[r] = Idle
           /\ \A new \in Request : Start(r, new) =>
                  /\ req' \in [Requests -> Request] /\ Others(r)
                  /\ req'[r] = new /\ req[r] = Idle
<1>1. req[r] \in Request
    OBVIOUS
<1>2. ASSUME NEW at \in Ats, Goto(r, at)
      PROVE  /\ req' \in [Requests -> Request] /\ Others(r)
             /\ req'[r] = [req[r] EXCEPT !.at = at]
    <2>1. [req[r] EXCEPT !.at = at] \in Request
        BY <1>1, <1>2 DEF Request, Ats
    <2> QED
        BY <1>2, <2>1 DEF Goto, Others
<1>3. End(r) => req' \in [Requests -> Request] /\ Others(r) /\ req'[r] = Idle
    BY RequestsTyped DEF End, Others
<1>4. ASSUME NEW new \in Request, Start(r, new)
      PROVE  /\ req' \in [Requests -> Request] /\ Others(r)
             /\ req'[r] = new /\ req[r] = Idle
    BY <1>4 DEF Start, Others
<1> QED
    BY <1>2, <1>3, <1>4

-----------------------------------------------------------------------------
(* Types *)

LEMMA InitTyped == Init => TypeOK
BY Terms, RequestsTyped
   DEF Init, TypeOK, Status, Live, Payout, Review, Parties

LEMMA TradeSteps ==
    ASSUME TypeOK, NEW t \in Trades,
           \/ ReserveExternal(t) \/ CreateLedgerTrade(t) \/ DeadlinePasses(t)
           \/ CancelByBuyer(t) \/ ExpireByCron(t) \/ Deliver(t)
    PROVE  TypeOK'
<1> USE Terms DEF TypeOK, walletVars, outboxVars, Status, Live, Payout, Review
<1>1. CASE ReserveExternal(t)
    BY <1>1 DEF ReserveExternal
<1>2. CASE CreateLedgerTrade(t)
    <2>1. balance' \in [Parties -> Nat] /\ escrow' \in Nat
        BY <1>2 DEF CreateLedgerTrade, Parties
    <2> QED
        BY <1>2, <2>1 DEF CreateLedgerTrade
<1>3. CASE DeadlinePasses(t)
    BY <1>3 DEF DeadlinePasses
<1>4. CASE CancelByBuyer(t) \/ ExpireByCron(t)
    BY <1>4 DEF CancelByBuyer, ExpireByCron, ExpireTradePayment, Dropped
<1>5. CASE Deliver(t)
    BY <1>5 DEF Deliver
<1> QED
    BY <1>1, <1>2, <1>3, <1>4, <1>5

\* Everything but the requests.
RowsTyped ==
    /\ status \in [Trades -> Status] /\ payout \in [Trades -> Payout]
    /\ overdue \in [Trades -> BOOLEAN] /\ resolution \in [Trades -> Shares \cup {Null}]
    /\ review \in [Trades -> Review] /\ receipt \in [Trades -> Proofs \cup {Null}]
    /\ listing \in [Listings -> {"active", "sold"}]
    /\ balance \in [Parties -> Nat] /\ escrow \in Nat
    /\ amount \in [Keys -> Nat \cup {Null}]
    /\ outcome \in [Keys -> {"undecided", "paid", "reverted"}]
    /\ report \in [Keys -> {"open", "confirmed", "failed"}]

LEMMA TypeParts ==
    /\ TypeOK <=> RowsTyped /\ req \in [Requests -> Request]
    /\ TypeOK' <=> RowsTyped' /\ req' \in [Requests -> Request]
    /\ UNCHANGED <<tradeVars, walletVars, outboxVars>> /\ RowsTyped => RowsTyped'
BY DEF TypeOK, RowsTyped, tradeVars, walletVars, outboxVars

\* A request that begins.
Begins(r, t) ==
    \/ \E p \in Proofs : PresentPayment(r, t, p)
    \/ Confirm(r, t) \/ AutoConfirm(r, t) \/ OpenDispute(r, t)
    \/ \E s \in Shares : ResolveExternal(r, t, s) \/ ResolveLedger(r, t, s)
    \/ RetrySettlement(r, t)

\* A request that goes on.
Continues(r) ==
    \/ AcceptFunding(r) \/ RefuseFunding(r) \/ FindCheckoutExpired(r)
    \/ FindTradeChanged(r) \/ RecordLatePayment(r)
    \/ ClaimConfirmation(r) \/ JoinConfirmation(r) \/ MarkReviewAccepted(r)
    \/ RecordDispute(r)
    \/ QueuePayout(r) \/ QueueRefund(r) \/ AwaitPayout(r) \/ AwaitRefund(r)
    \/ FinalizeCompletion(r) \/ FinalizeDispute(r) \/ MarkRefunded(r)
    \/ Fail(r)

Presenting(t, p) == [Idle EXCEPT !.at = "fund", !.trade = t, !.seen = status[t], !.proof = p]
Disputing(t) == [Idle EXCEPT !.at = "dispute", !.trade = t, !.seen = status[t]]
Confirming(t) == [Idle EXCEPT !.at = "confirm", !.trade = t]

\* What a request is when it begins.
LEMMA Beginning ==
    ASSUME TypeOK, NEW r \in Requests, NEW t \in Trades, Begins(r, t)
    PROVE  /\ req[r] = Idle /\ req' \in [Requests -> Request] /\ Others(r)
           /\ \/ \E p \in Proofs : PresentPayment(r, t, p) /\ req'[r] = Presenting(t, p)
              \/ Confirm(r, t) /\ req'[r] = Confirming(t)
              \/ AutoConfirm(r, t) /\ req'[r] = Settling(t, "auto_confirm", Price)
              \/ OpenDispute(r, t) /\ req'[r] = Disputing(t)
              \/ \E s \in Shares : /\ ResolveExternal(r, t, s) \/ ResolveLedger(r, t, s)
                                   /\ req'[r] = Settling(t, "dispute", s)
              \/ RetrySettlement(r, t) /\ status[t] = "pending_release"
                    /\ req'[r] = Settling(t, "buyer_confirm", Price)
              \/ RetrySettlement(r, t) /\ status[t] = "disputed" /\ resolution[t] \in Shares
                    /\ req'[r] = Settling(t, "dispute", resolution[t])
              \/ RetrySettlement(r, t) /\ status[t] = "cancelled" /\ req'[r] = Refunding(t)
<1>1. /\ \A p \in Proofs : Presenting(t, p) \in Request
      /\ Confirming(t) \in Request /\ Disputing(t) \in Request
    BY RequestsTyped DEF TypeOK, Presenting, Confirming, Disputing, Request, Idle
<1>2. /\ \A e \in Ending, s \in Shares : Settling(t, e, s) \in Request
      /\ Refunding(t) \in Request /\ Price \in Shares
      /\ {"auto_confirm", "buyer_confirm", "dispute"} \subseteq Ending
    BY RequestsTyped, Terms DEF Shares, Ending
<1>3. resolution[t] \in Shares \cup {Null} /\ req \in [Requests -> Request]
    BY DEF TypeOK
<1>4. CASE \E p \in Proofs : PresentPayment(r, t, p)
    BY <1>1, <1>3, <1>4, RequestMoves DEF PresentPayment, Presenting
<1>5. CASE Confirm(r, t)
    BY <1>1, <1>3, <1>5, RequestMoves DEF Confirm, Confirming
<1>6. CASE AutoConfirm(r, t)
    BY <1>2, <1>3, <1>6, RequestMoves DEF AutoConfirm
<1>7. CASE OpenDispute(r, t)
    BY <1>1, <1>3, <1>7, RequestMoves DEF OpenDispute, Disputing
<1>8. CASE \E s \in Shares : ResolveExternal(r, t, s) \/ ResolveLedger(r, t, s)
    BY <1>2, <1>3, <1>8, RequestMoves DEF ResolveExternal, ResolveLedger
<1>9. CASE RetrySettlement(r, t)
    BY <1>2, <1>3, <1>9, RequestMoves DEF RetrySettlement
<1> QED
    BY <1>4, <1>5, <1>6, <1>7, <1>8, <1>9 DEF Begins

LEMMA BeginningTyped ==
    ASSUME TypeOK, NEW r \in Requests, NEW t \in Trades, Begins(r, t)
    PROVE  TypeOK'
<1>1. req' \in [Requests -> Request] /\ RowsTyped
    BY Beginning, TypeParts
<1>2. CASE AutoConfirm(r, t)
    BY <1>1, <1>2, TypeParts DEF AutoConfirm, RowsTyped, Payout, walletVars, outboxVars
<1>3. CASE \E s \in Shares : ResolveExternal(r, t, s)
    BY <1>1, <1>3, TypeParts DEF ResolveExternal, RowsTyped, Payout, walletVars, outboxVars
<1>4. CASE \/ \E p \in Proofs : PresentPayment(r, t, p)
           \/ \E s \in Shares : ResolveLedger(r, t, s)
           \/ Confirm(r, t) \/ OpenDispute(r, t) \/ RetrySettlement(r, t)
    BY <1>1, <1>4, TypeParts DEF PresentPayment, ResolveLedger, Confirm, OpenDispute, RetrySettlement
<1> QED
    BY <1>2, <1>3, <1>4 DEF Begins

\* What a request is when it went on.
Became(r, new) == req' \in [Requests -> Request] /\ Others(r) /\ req'[r] = new
Moved(r, at) == Became(r, [req[r] EXCEPT !.at = at])

LEMMA Continuing ==
    ASSUME TypeOK, RequestsKnow, NEW r \in Requests, Continues(r)
    PROVE  /\ req[r] \in Request /\ req[r].trade \in Trades
           /\ RefuseFunding(r) => Moved(r, "late")
           /\ FindCheckoutExpired(r) => Moved(r, "late")
           /\ FindTradeChanged(r) => Moved(r, "late") \/ Became(r, Idle)
           /\ RecordLatePayment(r) => Became(r, Refunding(req[r].trade))
           /\ ClaimConfirmation(r) => Became(r, Settling(req[r].trade, "buyer_confirm", Price))
           /\ MarkReviewAccepted(r) => Became(r, Settling(req[r].trade, "buyer_confirm", Price))
           /\ JoinConfirmation(r)
                  => \/ Became(r, Settling(req[r].trade, "buyer_confirm", Price))
                     \/ Became(r, Idle)
           /\ QueuePayout(r) => Moved(r, "queueRefund")
           /\ QueueRefund(r) => Moved(r, "awaitPayout")
           /\ AwaitPayout(r) => Moved(r, "awaitRefund") \/ Became(r, Idle)
           /\ AwaitRefund(r) => Moved(r, "finish") \/ Became(r, Idle)
           /\ AcceptFunding(r) \/ RecordDispute(r) \/ FinalizeCompletion(r)
              \/ FinalizeDispute(r) \/ MarkRefunded(r) \/ Fail(r)
                  => Became(r, Idle)
           /\ req' \in [Requests -> Request] /\ Others(r)
<1>1. req[r] \in Request /\ req \in [Requests -> Request]
    BY DEF TypeOK
<1>2. req[r].trade \in Trades
    <2>1. req[r] # Idle => req[r].trade \in Trades
        BY DEF RequestsKnow, Knows
    <2>2. req[r] # Idle
        BY DEF Idle, Continues, AcceptFunding, RefuseFunding, FindCheckoutExpired, FindTradeChanged,
               RecordLatePayment, ClaimConfirmation, JoinConfirmation, MarkReviewAccepted,
               RecordDispute, QueuePayout, QueueRefund, AwaitPayout, AwaitRefund,
               FinalizeCompletion, FinalizeDispute, MarkRefunded, Fail
    <2> QED
        BY <2>1, <2>2
<1>3. /\ Settling(req[r].trade, "buyer_confirm", Price) \in Request
      /\ Refunding(req[r].trade) \in Request
    BY <1>2, RequestsTyped, Terms DEF Shares, Ending
<1>4. /\ \A at \in Ats : Goto(r, at) => Moved(r, at)
      /\ End(r) => Became(r, Idle)
      /\ \A new \in Request : req' = [req EXCEPT ![r] = new] => Became(r, new)
    <2>1. \A new \in Request : req' = [req EXCEPT ![r] = new] => Became(r, new)
        BY <1>1 DEF Became, Others
    <2> QED
        BY <1>1, <2>1, RequestMoves DEF Became, Moved
<1>5. {"late", "queueRefund", "awaitPayout", "awaitRefund", "finish"} \subseteq Ats
    BY DEF Ats
<1>6. /\ RefuseFunding(r) => Moved(r, "late")
      /\ FindCheckoutExpired(r) => Moved(r, "late")
      /\ FindTradeChanged(r) => Moved(r, "late") \/ Became(r, Idle)
      /\ RecordLatePayment(r) => Became(r, Refunding(req[r].trade))
    BY <1>3, <1>4, <1>5 DEF RefuseFunding, FindCheckoutExpired, FindTradeChanged, RecordLatePayment
<1>7. /\ ClaimConfirmation(r) => Became(r, Settling(req[r].trade, "buyer_confirm", Price))
      /\ MarkReviewAccepted(r) => Became(r, Settling(req[r].trade, "buyer_confirm", Price))
      /\ JoinConfirmation(r) => \/ Became(r, Settling(req[r].trade, "buyer_confirm", Price))
                               \/ Became(r, Idle)
    BY <1>3, <1>4 DEF ClaimConfirmation, MarkReviewAccepted, JoinConfirmation
<1>8. /\ QueuePayout(r) => Moved(r, "queueRefund")
      /\ QueueRefund(r) => Moved(r, "awaitPayout")
      /\ AwaitPayout(r) => Moved(r, "awaitRefund") \/ Became(r, Idle)
      /\ AwaitRefund(r) => Moved(r, "finish") \/ Became(r, Idle)
    BY <1>4, <1>5 DEF QueuePayout, QueueRefund, AwaitPayout, AwaitRefund
<1>9. /\ AcceptFunding(r) \/ RecordDispute(r) \/ FinalizeCompletion(r)
         \/ FinalizeDispute(r) \/ MarkRefunded(r) \/ Fail(r)
             => Became(r, Idle)
    BY <1>4 DEF AcceptFunding, RecordDispute, FinalizeCompletion, FinalizeDispute, MarkRefunded, Fail
<1>10. req' \in [Requests -> Request] /\ Others(r)
    BY <1>6, <1>7, <1>8, <1>9 DEF Continues, Moved, Became
<1> QED
    BY <1>1, <1>2, <1>6, <1>7, <1>8, <1>9, <1>10

LEMMA AdvanceTyped ==
    ASSUME TypeOK, NEW t \in Trades, NEW decision \in Review, AdvanceReview(t, decision)
    PROVE  review' \in [Trades -> Review]
BY DEF AdvanceReview, TypeOK

LEMMA ReleaseTyped ==
    ASSUME TypeOK, NEW t \in Trades, NEW share \in Shares, ReleaseEscrow(t, share)
    PROVE  balance' \in [Parties -> Nat] /\ escrow' \in Nat
BY Terms DEF ReleaseEscrow, TypeOK, Parties, Shares, walletVars

\* What queueing an instruction does to the outbox.
Instructs(k, n) ==
    /\ amount' = [amount EXCEPT ![k] = n] /\ amount[k] \in {Null, n}
    /\ outcome' = outcome /\ report' = report

LEMMA Queueing ==
    ASSUME TypeOK, RequestsKnow, NEW r \in Requests
    PROVE  /\ QueuePayout(r) => IF req[r].toSeller > 0
                                THEN Instructs(SellerKey(req[r].trade), req[r].toSeller)
                                ELSE UNCHANGED outboxVars
           /\ QueueRefund(r) => IF req[r].toBuyer > 0
                                THEN Instructs(BuyerKey(req[r].trade), req[r].toBuyer)
                                ELSE UNCHANGED outboxVars
<1>1. req[r] \in Request
    BY DEF TypeOK
<1>2. QueuePayout(r) \/ QueueRefund(r)
          => SellerKey(req[r].trade) \in Keys /\ BuyerKey(req[r].trade) \in Keys
    BY DEF RequestsKnow, Knows, QueuePayout, QueueRefund, Idle, SellerKey, BuyerKey, Keys, Kinds
<1>3. ASSUME QueuePayout(r), req[r].toSeller > 0
      PROVE  Instructs(SellerKey(req[r].trade), req[r].toSeller)
    BY <1>1, <1>2, <1>3 DEF QueuePayout, Request, Instructs, Queue, Outbox!Instruct, TypeOK,
                            outboxVars, SellerKey
<1>4. ASSUME QueueRefund(r), req[r].toBuyer > 0
      PROVE  Instructs(BuyerKey(req[r].trade), req[r].toBuyer)
    BY <1>1, <1>2, <1>4 DEF QueueRefund, Request, Instructs, Queue, Outbox!Instruct, TypeOK,
                            outboxVars, BuyerKey
<1> QED
    BY <1>3, <1>4 DEF QueuePayout, QueueRefund

LEMMA ContinuingTyped ==
    ASSUME TypeOK, RequestsKnow, NEW r \in Requests, Continues(r)
    PROVE  TypeOK'
<1> DEFINE q == req[r]
           t == req[r].trade
<1>1. /\ req' \in [Requests -> Request] /\ RowsTyped
      /\ q \in Request /\ t \in Trades
    BY Continuing, TypeParts
<1>2. /\ "late" = q.at \/ "fund" = q.at => q.proof \in Proofs
      /\ q.toSeller \in Shares /\ q.toSeller \in Nat /\ q.toBuyer \in Nat
      /\ Price \in Shares
    BY <1>1, Terms DEF RequestsKnow, Knows, Request, Shares
<1>3. SellerKey(t) \in Keys /\ BuyerKey(t) \in Keys
    BY <1>1 DEF SellerKey, BuyerKey, Keys, Kinds
<1> SUFFICES RowsTyped'
    BY <1>1, TypeParts
<1> USE DEF RowsTyped, walletVars, outboxVars, Status, Live, Payout
<1>4. CASE AcceptFunding(r)
    BY <1>1, <1>2, <1>4 DEF AcceptFunding, Attach
<1>5. CASE RefuseFunding(r) \/ FindCheckoutExpired(r)
    BY <1>1, <1>2, <1>5 DEF RefuseFunding, FindCheckoutExpired, Attach, Dropped
<1>6. CASE RecordLatePayment(r)
    BY <1>1, <1>2, <1>6 DEF RecordLatePayment, Retained, Attach
<1>7. CASE ClaimConfirmation(r) \/ MarkReviewAccepted(r)
    <2>1. review' \in [Trades -> Review]
        BY <1>1, <1>7, AdvanceTyped DEF ClaimConfirmation, MarkReviewAccepted, Review
    <2> QED
        BY <1>1, <1>7, <2>1 DEF ClaimConfirmation, MarkReviewAccepted
<1>8. CASE RecordDispute(r)
    <2>1. review' \in [Trades -> Review]
        BY <1>1, <1>8, AdvanceTyped DEF RecordDispute, Review
    <2> QED
        BY <1>1, <1>8, <2>1 DEF RecordDispute
<1>9. CASE QueuePayout(r)
    <2> HIDE DEF RowsTyped, outboxVars
    <2>1. Instructs(SellerKey(t), q.toSeller) \/ UNCHANGED outboxVars
        BY <1>9, Queueing
    <2> QED
        BY <1>1, <1>2, <1>9, <2>1 DEF Instructs, outboxVars, QueuePayout, tradeVars, walletVars, RowsTyped
<1>10. CASE QueueRefund(r)
    <2> HIDE DEF RowsTyped, outboxVars
    <2>1. Instructs(BuyerKey(t), q.toBuyer) \/ UNCHANGED outboxVars
        BY <1>10, Queueing
    <2> QED
        BY <1>1, <1>2, <1>10, <2>1 DEF Instructs, outboxVars, QueueRefund, tradeVars, walletVars, RowsTyped
<1>11. CASE FinalizeCompletion(r)
    <2>1. review' \in [Trades -> Review]
        BY <1>1, <1>11, AdvanceTyped DEF FinalizeCompletion, Review
    <2> QED
        BY <1>1, <1>2, <1>11, <2>1, ReleaseTyped DEF FinalizeCompletion
<1>12. CASE FinalizeDispute(r)
    BY <1>1, <1>2, <1>12, ReleaseTyped DEF FinalizeDispute
<1>13. CASE MarkRefunded(r)
    BY <1>1, <1>13 DEF MarkRefunded
<1>14. CASE \/ FindTradeChanged(r) \/ JoinConfirmation(r) \/ AwaitPayout(r)
            \/ AwaitRefund(r) \/ Fail(r)
    BY <1>1, <1>14, TypeParts DEF FindTradeChanged, JoinConfirmation, AwaitPayout, AwaitRefund, Fail
<1> QED
    BY <1>4, <1>5, <1>6, <1>7, <1>8, <1>9, <1>10, <1>11, <1>12, <1>13, <1>14 DEF Continues

LEMMA Typed ==
    ASSUME TypeOK, RequestsKnow, [Next]_vars
    PROVE  TypeOK'
<1>1. CASE OutboxStep
    BY <1>1 DEF OutboxStep, Outbox!Decide, Outbox!Report, Outbox!ReportOpen, TypeOK,
                tradeVars, walletVars
<1>2. CASE UNCHANGED vars
    BY <1>2 DEF vars, tradeVars, walletVars, outboxVars, TypeOK
<1> QED
    BY <1>1, <1>2, TradeSteps, BeginningTyped, ContinuingTyped DEF Next, Begins, Continues

-----------------------------------------------------------------------------
(* What a step leaves as it is *)

SameRow(t) ==
    /\ status'[t] = status[t] /\ payout'[t] = payout[t] /\ resolution'[t] = resolution[t]
    /\ review'[t] = review[t] /\ receipt'[t] = receipt[t]
SameOrders(t) ==
    /\ amount'[SellerKey(t)] = amount[SellerKey(t)]
    /\ amount'[BuyerKey(t)] = amount[BuyerKey(t)]
\* Instructions stay as they are, and what is paid stays paid.
OrdersKept ==
    \A k \in Keys : /\ amount[k] # Null => amount'[k] = amount[k]
                    /\ outcome[k] = "paid" => outcome'[k] = "paid"
\* What is due stays due.
Steady(t) ==
    t \in External /\ Decided(t) =>
        /\ Decided(t)' /\ SellerDue(t)' = SellerDue(t) /\ BuyerDue(t)' = BuyerDue(t)
        /\ status[t] \in {"disputed", "resolved"} => status'[t] \in {"disputed", "resolved"}

LEMMA TradeKeys == \A t \in Trades : SellerKey(t) \in Keys /\ BuyerKey(t) \in Keys
BY DEF SellerKey, BuyerKey, Keys, Kinds

LEMMA OutboxUnchanged ==
    ASSUME UNCHANGED outboxVars
    PROVE  OrdersKept /\ \A t \in Trades : SameOrders(t)
BY DEF outboxVars, OrdersKept, SameOrders

LEMMA SameFits ==
    ASSUME TypeOK, NEW t \in Trades, Fits(t), SameRow(t), SameOrders(t), OrdersKept
    PROVE  Fits(t)' /\ Steady(t)
<1>1. /\ (Decided(t) <=> Decided(t)') /\ SellerDue(t)' = SellerDue(t) /\ BuyerDue(t)' = BuyerDue(t)
      /\ RowsFit(t) <=> RowsFit(t)'
    BY DEF SameRow, Decided, Agreed, Owed, SellerDue, BuyerDue, ShareOf, RowsFit, Closed
<1>2. PaysWhatIsDue(t) => PaysWhatIsDue(t)'
    BY <1>1, TradeKeys DEF PaysWhatIsDue, Ordered, Sent, SameRow, SameOrders, OrdersKept
<1>3. (OnLedger(t) => OnLedger(t)') /\ (ReviewFirst(t) => ReviewFirst(t)')
    BY DEF OnLedger, ReviewFirst, SameRow, SameOrders
<1> QED
    BY <1>1, <1>2, <1>3 DEF Fits, Steady, SameRow

LEMMA SameKnows ==
    ASSUME TypeOK, NEW r \in Requests, Knows(r), req'[r] = req[r],
           OrdersKept, \A t \in Trades : Steady(t)
    PROVE  Knows(r)'
<1>1. ASSUME req[r].trade \in External, Settles(r)
      PROVE  Settles(r)'
    BY <1>1, Terms, TradeKeys DEF Settles, Steady, OrdersKept, Sent
<1>2. req[r].at \in Payable \cup {"finish"} /\ req[r].trade \in External => Settles(r)'
    BY <1>1 DEF Knows
<1> QED
    BY <1>2 DEF Knows

\* A step that leaves the trades and the requests as they are, or fitting.
LEMMA StepFits ==
    ASSUME TypeOK, TradesFit, RequestsKnow, OrdersKept,
           \A t \in Trades : (SameRow(t) /\ SameOrders(t)) \/ (Fits(t)' /\ Steady(t)),
           (\A t \in Trades : Steady(t)) => \A r \in Requests : req'[r] = req[r] \/ Knows(r)'
    PROVE  TradesFit' /\ RequestsKnow'
<1>1. \A t \in Trades : Fits(t)' /\ Steady(t)
    BY SameFits DEF TradesFit
<1>2. \A r \in Requests : Knows(r)'
    BY <1>1, SameKnows DEF RequestsKnow
<1> QED
    BY <1>1, <1>2 DEF TradesFit, RequestsKnow

-----------------------------------------------------------------------------
(* Every step keeps the trades fitting *)

LEMMA TradeStepsFit ==
    ASSUME TypeOK, TradesFit, RequestsKnow, NEW t \in Trades,
           \/ ReserveExternal(t) \/ CreateLedgerTrade(t) \/ DeadlinePasses(t)
           \/ CancelByBuyer(t) \/ ExpireByCron(t) \/ Deliver(t)
    PROVE  TradesFit' /\ RequestsKnow'
<1> DEFINE Same(u) == SameRow(u) /\ SameOrders(u)
<1>1. Fits(t) /\ UNCHANGED req /\ UNCHANGED outboxVars
    BY DEF TradesFit, ReserveExternal, CreateLedgerTrade, DeadlinePasses, CancelByBuyer,
           ExpireByCron, ExpireTradePayment, Deliver
<1>2. OrdersKept /\ \A u \in Trades : SameOrders(u)
    BY <1>1, OutboxUnchanged
<1> SUFFICES /\ \A u \in Trades \ {t} : SameRow(u)
             /\ SameRow(t) \/ (Fits(t)' /\ Steady(t))
    BY <1>1, <1>2, StepFits
<1>3. amount'[SellerKey(t)] = amount[SellerKey(t)] /\ amount'[BuyerKey(t)] = amount[BuyerKey(t)]
    BY <1>2 DEF SameOrders
<1> USE DEF SameRow, TypeOK, Fits, Steady, RowsFit, PaysWhatIsDue, ReviewFirst, OnLedger,
            Decided, Agreed, Owed, SellerDue, BuyerDue, ShareOf, Closed, Ordered
<1>4. CASE ReserveExternal(t)
    BY <1>1, <1>3, <1>4 DEF ReserveExternal
<1>5. CASE CreateLedgerTrade(t)
    BY <1>1, <1>3, <1>5 DEF CreateLedgerTrade
<1>6. CASE DeadlinePasses(t)
    BY <1>6 DEF DeadlinePasses
<1>7. CASE CancelByBuyer(t) \/ ExpireByCron(t)
    BY <1>1, <1>3, <1>7 DEF CancelByBuyer, ExpireByCron, ExpireTradePayment, Dropped
<1>8. CASE Deliver(t)
    BY <1>1, <1>3, <1>8 DEF Deliver
<1> QED
    BY <1>4, <1>5, <1>6, <1>7, <1>8

LEMMA OutboxFits ==
    ASSUME TypeOK, TradesFit, RequestsKnow, OutboxStep
    PROVE  TradesFit' /\ RequestsKnow'
<1>1. UNCHANGED <<tradeVars, amount, req>>
    BY DEF OutboxStep
<1>2. OrdersKept
    BY DEF OutboxStep, OrdersKept, Outbox!Decide, Outbox!Report, Outbox!ReportOpen, TypeOK
<1>3. \A t \in Trades : SameRow(t) /\ SameOrders(t)
    BY <1>1 DEF SameRow, SameOrders, tradeVars
<1> QED
    BY <1>1, <1>2, <1>3, StepFits

\* A request that may settle a trade knows what is due: nothing is promised yet.
Wants(r, t, new) ==
    /\ req'[r] = new /\ new.trade = t
    /\ t \in External => /\ Decided(t)' /\ new.toSeller = SellerDue(t)'
                         /\ new.toBuyer = BuyerDue(t)'
                         /\ new.ending = "dispute" => status'[t] \in {"disputed", "resolved"}

LEMMA WantsDue ==
    ASSUME NEW r \in Requests, NEW t \in Trades, NEW ending \in {"buyer_confirm", "auto_confirm", "dispute"},
           NEW share \in Shares, Wants(r, t, Settling(t, ending, share))
    PROVE  Knows(r)'
BY Terms DEF Wants, Knows, Settles, Settling, Idle, Payable

LEMMA WantsRefund ==
    ASSUME NEW r \in Requests, NEW t \in External, Wants(r, t, Refunding(t))
    PROVE  Knows(r)'
BY Terms DEF Wants, Knows, Settles, Refunding, Idle, Payable

LEMMA BeginningFits ==
    ASSUME TypeOK, TradesFit, RequestsKnow, NEW r \in Requests, NEW t \in Trades, Begins(r, t)
    PROVE  TradesFit' /\ RequestsKnow'
<1>1. Fits(t) /\ Others(r) /\ UNCHANGED outboxVars
    BY Beginning DEF TradesFit, Begins, PresentPayment, Confirm, AutoConfirm, OpenDispute,
                     ResolveExternal, ResolveLedger, RetrySettlement
<1>2. OrdersKept /\ \A u \in Trades : SameOrders(u)
    BY <1>1, OutboxUnchanged
<1>3. amount'[SellerKey(t)] = amount[SellerKey(t)] /\ amount'[BuyerKey(t)] = amount[BuyerKey(t)]
    BY <1>2 DEF SameOrders
<1> SUFFICES /\ \A u \in Trades \ {t} : SameRow(u)
             /\ SameRow(t) \/ (Fits(t)' /\ Steady(t))
             /\ Knows(r)'
    BY <1>1, <1>2, StepFits DEF Others
<1>4. CASE /\ UNCHANGED tradeVars
           /\ \/ \E p \in Proofs : PresentPayment(r, t, p) /\ req'[r] = Presenting(t, p)
              \/ Confirm(r, t) /\ req'[r] = Confirming(t)
              \/ OpenDispute(r, t) /\ req'[r] = Disputing(t)
    <2>1. \A u \in Trades : SameRow(u)
        BY <1>4 DEF SameRow, tradeVars
    <2>2. Knows(r)'
        BY <1>4 DEF Knows, Presenting, Confirming, Disputing, Idle, Payable, PresentPayment, OpenDispute
    <2> QED
        BY <2>1, <2>2
<1>5. CASE AutoConfirm(r, t) /\ req'[r] = Settling(t, "auto_confirm", Price)
    <2>1. \A u \in Trades \ {t} : SameRow(u)
        BY <1>5 DEF AutoConfirm, SameRow, TypeOK
    <2>2. /\ status[t] = "pending_release" /\ status' = status
          /\ t \in External => payout[t] = "pending" /\ payout'[t] = "processing"
        BY <1>5 DEF AutoConfirm, TypeOK
    <2>3. t \in External => Agreed(t)' /\ ShareOf(t)' = Price /\ ~ Agreed(t) /\ ~ Owed(t)
        BY <2>2 DEF Agreed, ShareOf, Owed
    <2>4. t \notin External => SameRow(t)
        BY <1>5 DEF AutoConfirm, SameRow, TypeOK
    <2>5. ASSUME t \in External
          PROVE  Fits(t)' /\ Steady(t)
        <3>1. /\ resolution' = resolution /\ receipt' = receipt /\ t \notin Explicit
              /\ review' = review
            BY <1>5 DEF AutoConfirm, AgreedAcceptance
        <3>2. RowsFit(t)'
            BY <1>1, <2>2, <2>5, <3>1 DEF Fits, RowsFit, Closed
        <3>3. PaysWhatIsDue(t)'
            BY <1>1, <1>3, <2>3, <2>2, <2>5
               DEF Fits, PaysWhatIsDue, SellerDue, BuyerDue, Ordered
        <3> QED
            BY <2>3, <2>5, <3>1, <3>2, <3>3 DEF Fits, Steady, ReviewFirst, Decided
    <2>6. SameRow(t) \/ (Fits(t)' /\ Steady(t))
        BY <2>4, <2>5
    <2>7. Wants(r, t, Settling(t, "auto_confirm", Price)) /\ Price \in Shares
        BY <1>5, <2>3, Terms DEF Wants, Settling, Idle, Decided, SellerDue, BuyerDue, Shares
    <2> QED
        BY <2>1, <2>6, <2>7, WantsDue
<1>6. CASE \E s \in Shares : ResolveExternal(r, t, s) /\ req'[r] = Settling(t, "dispute", s)
    <2>1. PICK s \in Shares : ResolveExternal(r, t, s) /\ req'[r] = Settling(t, "dispute", s)
        BY <1>6
    <2>2. \A u \in Trades \ {t} : SameRow(u)
        BY <2>1 DEF ResolveExternal, SameRow, TypeOK
    <2>3. s \in Nat /\ s # Null
        BY Terms DEF Shares
    <2>4. Agreed(t)' /\ ShareOf(t)' = s /\ (Decided(t) => Agreed(t) /\ ShareOf(t) = s)
        BY <2>1, <2>3 DEF ResolveExternal, Agreed, ShareOf, TypeOK, Decided, Owed, Unresolved
    <2>5. Fits(t)' /\ Steady(t)
        BY <1>1, <1>3, <2>1, <2>3, <2>4 DEF ResolveExternal, Unresolved, TypeOK, Fits, Steady, RowsFit,
           PaysWhatIsDue, ReviewFirst, SellerDue, BuyerDue, Closed, Ordered, Decided
    <2>6. Wants(r, t, Settling(t, "dispute", s))
        BY <2>1, <2>4 DEF Wants, Settling, Idle, Decided, SellerDue, BuyerDue, ResolveExternal
    <2> QED
        BY <2>2, <2>5, <2>6, WantsDue
<1>7. CASE \E s \in Shares : ResolveLedger(r, t, s) /\ req'[r] = Settling(t, "dispute", s)
    <2>1. \A u \in Trades : SameRow(u)
        BY <1>7 DEF ResolveLedger, SameRow, tradeVars
    <2>2. Knows(r)'
        BY <1>7, WantsDue DEF ResolveLedger, Wants, Settling, Idle
    <2> QED
        BY <2>1, <2>2
<1>8. ASSUME RetrySettlement(r, t)
      PROVE  /\ \A u \in Trades : SameRow(u)
             /\ t \in External /\ payout[t] = "processing" /\ UNCHANGED tradeVars
             /\ RowsFit(t)
    BY <1>1, <1>8 DEF RetrySettlement, MustRetry, SameRow, tradeVars, Fits
<1>9. CASE /\ RetrySettlement(r, t) /\ status[t] = "pending_release"
           /\ req'[r] = Settling(t, "buyer_confirm", Price)
    <2>1. Wants(r, t, Settling(t, "buyer_confirm", Price)) /\ Price \in Shares
        BY <1>8, <1>9, Terms DEF Wants, Settling, Idle, Decided, Agreed, ShareOf,
           SellerDue, BuyerDue, Shares, tradeVars
    <2> QED
        BY <1>8, <1>9, <2>1, WantsDue
<1>10. CASE /\ RetrySettlement(r, t) /\ status[t] = "disputed" /\ resolution[t] \in Shares
            /\ req'[r] = Settling(t, "dispute", resolution[t])
    <2>1. Wants(r, t, Settling(t, "dispute", resolution[t]))
        BY <1>8, <1>10, Terms DEF Wants, Settling, Idle, Decided, Agreed, ShareOf,
           SellerDue, BuyerDue, Shares, tradeVars
    <2> QED
        BY <1>8, <1>10, <2>1, WantsDue
<1>11. CASE RetrySettlement(r, t) /\ status[t] = "cancelled" /\ req'[r] = Refunding(t)
    <2>1. Wants(r, t, Refunding(t))
        BY <1>8, <1>11, Terms DEF Wants, Refunding, Idle, Decided, Agreed, Owed, ShareOf,
           SellerDue, BuyerDue, Shares, tradeVars, RowsFit
    <2> QED
        BY <1>8, <1>11, <2>1, WantsRefund
<1> QED
    BY <1>4, <1>5, <1>6, <1>7, <1>9, <1>10, <1>11, Beginning
       DEF PresentPayment, Confirm, OpenDispute

LEMMA IdleKnows ==
    ASSUME NEW r \in Requests, Became(r, Idle)
    PROVE  Knows(r)'
BY DEF Became, Knows, Idle, Payable

\* A request that goes on touches its own trade only.
LEMMA ContinuingFrame ==
    ASSUME TypeOK, TradesFit, RequestsKnow, OrdersKept, NEW r \in Requests, Others(r),
           NEW t \in Trades,
           \A u \in Trades \ {t} : SameRow(u) /\ SameOrders(u),
           (SameRow(t) /\ SameOrders(t)) \/ (Fits(t)' /\ Steady(t)),
           Steady(t) => Knows(r)'
    PROVE  TradesFit' /\ RequestsKnow'
BY StepFits DEF Others

LEMMA FundingFits ==
    ASSUME TypeOK, TradesFit, RequestsKnow, NEW r \in Requests, Continues(r),
           \/ AcceptFunding(r) \/ RefuseFunding(r) \/ FindCheckoutExpired(r)
           \/ FindTradeChanged(r) \/ RecordLatePayment(r)
    PROVE  TradesFit' /\ RequestsKnow'
<1> PICK t \in Trades, p \in Proofs : t = req[r].trade /\ p = req[r].proof
    BY Continuing DEF AcceptFunding, RefuseFunding, FindCheckoutExpired, FindTradeChanged,
       RecordLatePayment, RequestsKnow, Knows
<1>1. /\ t = req[r].trade /\ p = req[r].proof /\ t \in External /\ p # Null
      /\ Knows(r) /\ Fits(t) /\ Others(r) /\ UNCHANGED outboxVars /\ req[r] \in Request
    BY Terms, Continuing DEF AcceptFunding, RefuseFunding, FindCheckoutExpired, FindTradeChanged,
       RecordLatePayment, RequestsKnow, Knows, TradesFit
<1>2. OrdersKept /\ \A u \in Trades : SameOrders(u)
    BY <1>1, OutboxUnchanged
<1>3. amount'[SellerKey(t)] = amount[SellerKey(t)] /\ amount'[BuyerKey(t)] = amount[BuyerKey(t)]
    BY <1>1, <1>2 DEF SameOrders
<1> SUFFICES /\ \A u \in Trades \ {t} : SameRow(u)
             /\ SameRow(t) \/ (Fits(t)' /\ Steady(t))
             /\ Knows(r)'
    BY <1>1, <1>2, ContinuingFrame
<1>4. ASSUME Moved(r, "late")
      PROVE  Knows(r)'
    BY <1>1, <1>4 DEF Moved, Became, Knows, Idle, Payable, Request
<1>5. CASE AcceptFunding(r)
    <2>1. \A u \in Trades \ {t} : SameRow(u)
        BY <1>5 DEF AcceptFunding, Attach, SameRow, TypeOK
    <2>2. /\ status[t] = "pending" /\ status'[t] = "escrow_held" /\ payout'[t] = "pending"
          /\ receipt'[t] = p /\ resolution' = resolution /\ review' = review
        BY <1>1, <1>5 DEF AcceptFunding, Attach, TypeOK
    <2>3. Fits(t)' /\ Steady(t)
        BY <1>1, <1>3, <2>2 DEF Fits, Steady, RowsFit, PaysWhatIsDue, ReviewFirst, Decided, Agreed,
           Owed, SellerDue, BuyerDue, ShareOf, Closed, Ordered
    <2> QED
        BY <1>5, <2>1, <2>3, IdleKnows, Continuing
<1>6. CASE RefuseFunding(r)
    <2>1. \A u \in Trades \ {t} : SameRow(u)
        BY <1>6 DEF RefuseFunding, Attach, Dropped, SameRow, TypeOK
    <2>2. /\ status[t] = "pending" /\ status'[t] = "cancelled" /\ payout'[t] = "processing"
          /\ receipt'[t] = p /\ resolution' = resolution /\ review' = review
        BY <1>1, <1>6 DEF RefuseFunding, Attach, Dropped, TypeOK
    <2>3. Fits(t)' /\ Steady(t)
        BY <1>1, <1>3, <2>2 DEF Fits, Steady, RowsFit, PaysWhatIsDue, ReviewFirst, Decided, Agreed,
           Owed, SellerDue, BuyerDue, ShareOf, Closed, Ordered
    <2> QED
        BY <1>4, <1>6, <2>1, <2>3, Continuing
<1>7. CASE FindCheckoutExpired(r)
    <2>1. \A u \in Trades \ {t} : SameRow(u)
        BY <1>7 DEF FindCheckoutExpired, Dropped, SameRow, TypeOK
    <2>2. /\ status[t] = "pending" /\ status'[t] = "cancelled" /\ payout' = payout
          /\ receipt' = receipt /\ resolution' = resolution /\ review' = review
        BY <1>1, <1>7 DEF FindCheckoutExpired, Dropped, TypeOK
    <2>3. Fits(t)' /\ Steady(t)
        BY <1>1, <1>3, <2>2 DEF Fits, Steady, RowsFit, PaysWhatIsDue, ReviewFirst, Decided, Agreed,
           Owed, SellerDue, BuyerDue, ShareOf, Closed, Ordered
    <2> QED
        BY <1>4, <1>7, <2>1, <2>3, Continuing
<1>8. CASE FindTradeChanged(r)
    <2>1. \A u \in Trades : SameRow(u)
        BY <1>8 DEF FindTradeChanged, SameRow, tradeVars
    <2> QED
        BY <1>1, <1>4, <1>8, <2>1, IdleKnows, Continuing
<1>9. CASE RecordLatePayment(r)
    <2>1. \A u \in Trades \ {t} : SameRow(u)
        BY <1>9 DEF RecordLatePayment, Retained, Attach, SameRow, TypeOK
    <2>2. /\ status[t] = "cancelled" /\ status' = status /\ receipt'[t] = p
          /\ resolution' = resolution /\ review' = review
          /\ \/ receipt[t] = Null /\ payout'[t] = "processing"
             \/ receipt'[t] = receipt[t] /\ payout'[t] = payout[t]
        BY <1>1, <1>9 DEF RecordLatePayment, Retained, Attach, ProofIsFree, TypeOK
    <2>3. SameRow(t) \/ (Fits(t)' /\ Steady(t))
        BY <1>1, <1>3, <2>2 DEF Fits, Steady, RowsFit, PaysWhatIsDue, ReviewFirst, Decided, Agreed,
           Owed, SellerDue, BuyerDue, ShareOf, Closed, Ordered, SameRow
    <2>4. Wants(r, t, Refunding(t))
        BY <1>1, <1>9, <2>2, Continuing DEF Wants, Became, Refunding, Idle, Decided, Agreed, Owed,
           SellerDue, BuyerDue
    <2> QED
        BY <1>1, <2>1, <2>3, <2>4, WantsRefund
<1> QED
    BY <1>5, <1>6, <1>7, <1>8, <1>9

LEMMA DecisionFits ==
    ASSUME TypeOK, TradesFit, RequestsKnow, NEW r \in Requests, Continues(r),
           \/ ClaimConfirmation(r) \/ JoinConfirmation(r) \/ MarkReviewAccepted(r)
           \/ RecordDispute(r)
    PROVE  TradesFit' /\ RequestsKnow'
<1> PICK t \in Trades : t = req[r].trade
    BY Continuing
<1>1. /\ t = req[r].trade /\ Knows(r) /\ Fits(t) /\ Others(r) /\ UNCHANGED outboxVars
      /\ Price \in Shares
    BY Terms, Continuing DEF ClaimConfirmation, JoinConfirmation, MarkReviewAccepted, RecordDispute,
       RequestsKnow, TradesFit, Shares
<1>2. OrdersKept /\ \A u \in Trades : SameOrders(u)
    BY <1>1, OutboxUnchanged
<1>3. amount'[SellerKey(t)] = amount[SellerKey(t)] /\ amount'[BuyerKey(t)] = amount[BuyerKey(t)]
    BY <1>1, <1>2 DEF SameOrders
<1> SUFFICES /\ \A u \in Trades \ {t} : SameRow(u)
             /\ SameRow(t) \/ (Fits(t)' /\ Steady(t))
             /\ Knows(r)'
    BY <1>1, <1>2, ContinuingFrame
<1>4. CASE ClaimConfirmation(r)
    <2>1. \A u \in Trades \ {t} : SameRow(u)
        BY <1>4 DEF ClaimConfirmation, AdvanceReview, SameRow, TypeOK
    <2>2. /\ t \in External /\ status[t] = "pending_release" /\ status' = status
          /\ payout[t] = "pending" /\ payout'[t] = "processing"
          /\ resolution' = resolution /\ receipt' = receipt
        BY <1>1, <1>4 DEF ClaimConfirmation, TypeOK
    <2>3. Agreed(t)' /\ ShareOf(t)' = Price /\ ~ Agreed(t) /\ ~ Owed(t)
        BY <2>2 DEF Agreed, ShareOf, Owed
    <2>4. RowsFit(t)' /\ PaysWhatIsDue(t)'
        BY <1>1, <1>3, <2>2, <2>3
           DEF Fits, RowsFit, Closed, PaysWhatIsDue, SellerDue, BuyerDue, Ordered
    <2>5. ReviewFirst(t)'
        BY <1>1, <1>3, <2>2, <2>3 DEF Fits, ReviewFirst, PaysWhatIsDue, SellerDue, Ordered
    <2>6. Wants(r, t, Settling(t, "buyer_confirm", Price))
        <3>1. req'[r] = Settling(t, "buyer_confirm", Price)
            BY <1>1, <1>4, Continuing DEF Became
        <3> QED
            BY <2>2, <2>3, <3>1 DEF Wants, Settling, Idle, Decided, SellerDue, BuyerDue
    <2> QED
        BY <1>1, <2>1, <2>2, <2>3, <2>4, <2>5, <2>6, WantsDue DEF Fits, Steady, Decided
<1>5. CASE JoinConfirmation(r)
    <2>1. \A u \in Trades : SameRow(u)
        BY <1>5 DEF JoinConfirmation, SameRow, tradeVars
    <2>2. CASE Became(r, Idle)
        BY <2>1, <2>2, IdleKnows
    <2>3. CASE Became(r, Settling(t, "buyer_confirm", Price))
        <3>1. t \in External /\ UNCHANGED tradeVars
            BY <1>1, <1>5 DEF JoinConfirmation
        <3>2. status[t] = "pending_release" /\ payout[t] = "processing"
            <4>1. Settling(t, "buyer_confirm", Price) # Idle
                BY <3>1 DEF Settling, Idle
            <4> QED
                BY <1>1, <1>5, <2>3, <4>1 DEF JoinConfirmation, Became, End, TypeOK
        <3>3. Agreed(t)' /\ ShareOf(t)' = Price
            BY <3>1, <3>2 DEF Agreed, ShareOf, tradeVars
        <3>4. Wants(r, t, Settling(t, "buyer_confirm", Price))
            BY <2>3, <3>3 DEF Became, Wants, Settling, Idle, Decided, SellerDue, BuyerDue
        <3> QED
            BY <1>1, <2>1, <3>4, WantsDue
    <2> QED
        BY <1>1, <1>5, <2>2, <2>3, Continuing
<1>6. CASE MarkReviewAccepted(r)
    <2>1. \A u \in Trades \ {t} : SameRow(u)
        BY <1>6 DEF MarkReviewAccepted, AdvanceReview, SameRow, TypeOK
    <2>2. /\ t \notin External /\ UNCHANGED <<status, payout, resolution, receipt>>
          /\ review[t] = "passed" => review'[t] = "passed"
        BY <1>1, <1>6 DEF MarkReviewAccepted, AdvanceReview, TypeOK
    <2>3. Fits(t)' /\ Steady(t)
        BY <1>1, <1>3, <2>2 DEF Fits, Steady, OnLedger, ReviewFirst
    <2>4. Wants(r, t, Settling(t, "buyer_confirm", Price))
        <3>1. req'[r] = Settling(t, "buyer_confirm", Price)
            BY <1>1, <1>6, Continuing DEF Became
        <3> QED
            BY <2>2, <3>1 DEF Wants, Settling, Idle
    <2> QED
        BY <1>1, <2>1, <2>3, <2>4, WantsDue
<1>7. CASE RecordDispute(r)
    <2>1. \A u \in Trades \ {t} : SameRow(u)
        BY <1>7 DEF RecordDispute, AdvanceReview, SameRow, TypeOK
    <2>2. Knows(r)'
        BY <1>7, IdleKnows, Continuing
    <2>3. CASE MayDispute(t, req[r].seen)
        <3>1. /\ status[t] \in {"escrow_held", "pending_release"} /\ status'[t] = "disputed"
              /\ payout[t] # "processing" /\ UNCHANGED <<payout, resolution, receipt>>
            BY <1>1, <1>7, <2>3 DEF RecordDispute, MayDispute, Knows, TypeOK
        <3>2. t \in External => payout[t] = "pending" /\ resolution[t] = Null
            BY <1>1, <3>1 DEF Fits, RowsFit
        <3>3. ~ Agreed(t) /\ ~ Owed(t) /\ (t \in External => ~ Agreed(t)' /\ ~ Owed(t)')
            BY <3>1, <3>2 DEF Agreed, Owed
        <3>4. Fits(t)' /\ Steady(t)
            BY <1>1, <1>3, <3>1, <3>2, <3>3 DEF Fits, Steady, RowsFit, PaysWhatIsDue, OnLedger,
               ReviewFirst, Decided, SellerDue, BuyerDue, Closed, Ordered
        <3> QED
            BY <2>1, <2>2, <3>4
    <2>4. CASE ~ MayDispute(t, req[r].seen)
        <3>1. SameRow(t)
            BY <1>1, <1>7, <2>4 DEF RecordDispute, SameRow
        <3> QED
            BY <2>1, <2>2, <3>1
    <2> QED
        BY <2>3, <2>4
<1> QED
    BY <1>4, <1>5, <1>6, <1>7

LEMMA TransferFits ==
    ASSUME TypeOK, TradesFit, RequestsKnow, ReportsAreTrue, NEW r \in Requests, Continues(r),
           QueuePayout(r) \/ QueueRefund(r) \/ AwaitPayout(r) \/ AwaitRefund(r)
    PROVE  TradesFit' /\ RequestsKnow'
<1> PICK t \in Trades : t = req[r].trade
    BY Continuing
<1> DEFINE toSeller == req[r].toSeller
           toBuyer == req[r].toBuyer
<1>1. /\ t = req[r].trade /\ t \in External /\ req[r].at \in Payable
      /\ Settles(r) /\ Fits(t) /\ Others(r) /\ UNCHANGED tradeVars
      /\ toSeller \in Nat /\ toBuyer \in Nat /\ req[r] \in Request
    BY Terms, Continuing DEF QueuePayout, QueueRefund, AwaitPayout, AwaitRefund,
       RequestsKnow, Knows, Payable, TradesFit, Request
<1>2. /\ \A u \in Trades : SameRow(u)
      /\ Decided(t)' /\ SellerDue(t)' = SellerDue(t) /\ BuyerDue(t)' = BuyerDue(t)
      /\ RowsFit(t)' /\ Steady(t) /\ SellerDue(t) = toSeller /\ BuyerDue(t) = toBuyer
      /\ status' = status /\ payout' = payout /\ review' = review
    BY <1>1 DEF SameRow, tradeVars, Settles, Fits, RowsFit, Closed, Steady, Decided, Agreed, Owed,
                SellerDue, BuyerDue, ShareOf
<1>3. /\ SellerKey(t) \in Keys /\ BuyerKey(t) \in Keys /\ SellerKey(t) # BuyerKey(t)
      /\ \A u \in Trades \ {t} : /\ SellerKey(u) \in Keys /\ BuyerKey(u) \in Keys
                               /\ SellerKey(u) # SellerKey(t) /\ BuyerKey(u) # SellerKey(t)
                               /\ SellerKey(u) # BuyerKey(t) /\ BuyerKey(u) # BuyerKey(t)
    BY TradeKeys DEF SellerKey, BuyerKey
<1>4. CASE QueuePayout(r)
    <2>1. IF toSeller > 0 THEN Instructs(SellerKey(t), toSeller) ELSE UNCHANGED outboxVars
        BY <1>1, <1>4, Queueing
    <2>2. /\ OrdersKept /\ \A u \in Trades \ {t} : SameOrders(u)
          /\ amount'[BuyerKey(t)] = amount[BuyerKey(t)] /\ outcome' = outcome
          /\ toSeller > 0 => amount'[SellerKey(t)] = toSeller
          /\ toSeller = 0 => amount'[SellerKey(t)] = amount[SellerKey(t)]
        BY <1>1, <1>3, <2>1 DEF Instructs, outboxVars, OrdersKept, SameOrders, TypeOK
    <2>3. PaysWhatIsDue(t)'
        BY <1>1, <1>2, <2>2, Terms DEF Fits, PaysWhatIsDue, Ordered, Sent
    <2>4. ReviewFirst(t)'
        <3>1. /\ t \in Explicit => req[r].ending = "dispute" \/ review[t] = "passed"
              /\ req[r].ending = "dispute" => status[t] \in {"disputed", "resolved"}
            BY <1>1, <1>4 DEF QueuePayout, ReleaseAllowed, AgreedAcceptance, Settles
        <3> QED
            BY <1>1, <1>2, <3>1 DEF Fits, ReviewFirst
    <2>5. Moved(r, "queueRefund")
        BY <1>4, Continuing
    <2>6. Knows(r)'
        BY <1>1, <1>2, <2>2, <2>5, Terms
           DEF Moved, Became, Knows, Settles, Payable, Request, Idle, Sent
    <2> QED
        BY <1>1, <1>2, <2>2, <2>3, <2>4, <2>6, ContinuingFrame DEF Fits
<1>5. CASE QueueRefund(r)
    <2>1. IF toBuyer > 0 THEN Instructs(BuyerKey(t), toBuyer) ELSE UNCHANGED outboxVars
        BY <1>1, <1>5, Queueing
    <2>2. /\ OrdersKept /\ \A u \in Trades \ {t} : SameOrders(u)
          /\ amount'[SellerKey(t)] = amount[SellerKey(t)] /\ outcome' = outcome
          /\ toBuyer > 0 => amount'[BuyerKey(t)] = toBuyer
          /\ toBuyer = 0 => amount'[BuyerKey(t)] = amount[BuyerKey(t)]
        BY <1>1, <1>3, <2>1 DEF Instructs, outboxVars, OrdersKept, SameOrders, TypeOK
    <2>3. PaysWhatIsDue(t)' /\ ReviewFirst(t)'
        BY <1>1, <1>2, <2>2, Terms DEF Fits, PaysWhatIsDue, Ordered, Sent, ReviewFirst
    <2>4. req[r].at = "queueRefund" /\ Moved(r, "awaitPayout")
        BY <1>5, Continuing DEF QueueRefund
    <2>5. Knows(r)'
        BY <1>1, <1>2, <2>2, <2>4, Terms
           DEF Moved, Became, Knows, Settles, Payable, Request, Idle, Sent
    <2> QED
        BY <1>1, <1>2, <2>2, <2>3, <2>5, ContinuingFrame DEF Fits
<1>6. ASSUME AwaitPayout(r) \/ AwaitRefund(r)
      PROVE  OrdersKept /\ (\A u \in Trades : SameOrders(u)) /\ UNCHANGED <<amount, outcome>>
    BY <1>6, OutboxUnchanged DEF AwaitPayout, AwaitRefund, outboxVars
<1>7. CASE AwaitPayout(r)
    <2>1. CASE Became(r, Idle)
        BY <1>1, <1>2, <1>6, <1>7, <2>1, IdleKnows, ContinuingFrame
    <2>2. CASE Moved(r, "awaitRefund")
        <3>1. Confirmed(SellerKey(t), toSeller) /\ req[r].at = "awaitPayout"
            BY <1>1, <1>7, <2>2 DEF AwaitPayout, Moved, Became, End, Idle, SellerKey, TypeOK
        <3>2. Sent(SellerKey(t), toSeller)
            BY <1>1, <1>3, <3>1 DEF Confirmed, Sent, ReportsAreTrue, Settles
        <3>3. Knows(r)'
            BY <1>1, <1>2, <1>6, <1>7, <2>2, <3>1, <3>2
               DEF Moved, Became, Knows, Settles, Payable, Request, Idle, Sent
        <3> QED
            BY <1>1, <1>2, <1>6, <1>7, <3>3, ContinuingFrame
    <2> QED
        BY <1>7, <2>1, <2>2, Continuing
<1>8. CASE AwaitRefund(r)
    <2>1. CASE Became(r, Idle)
        BY <1>1, <1>2, <1>6, <1>8, <2>1, IdleKnows, ContinuingFrame
    <2>2. CASE Moved(r, "finish")
        <3>1. Confirmed(BuyerKey(t), toBuyer) /\ req[r].at = "awaitRefund"
            BY <1>1, <1>8, <2>2 DEF AwaitRefund, Moved, Became, End, Idle, BuyerKey, TypeOK
        <3>2. Sent(BuyerKey(t), toBuyer) /\ Sent(SellerKey(t), toSeller)
            BY <1>1, <1>3, <3>1 DEF Confirmed, Sent, ReportsAreTrue, Settles
        <3>3. Knows(r)'
            BY <1>1, <1>2, <1>6, <1>8, <2>2, <3>1, <3>2
               DEF Moved, Became, Knows, Settles, Payable, Request, Idle, Sent
        <3> QED
            BY <1>1, <1>2, <1>6, <1>8, <3>3, ContinuingFrame
    <2> QED
        BY <1>8, <2>1, <2>2, Continuing
<1> QED
    BY <1>4, <1>5, <1>7, <1>8

LEMMA FinishFits ==
    ASSUME TypeOK, TradesFit, RequestsKnow, NEW r \in Requests, Continues(r),
           FinalizeCompletion(r) \/ FinalizeDispute(r) \/ MarkRefunded(r) \/ Fail(r)
    PROVE  TradesFit' /\ RequestsKnow'
<1> PICK t \in Trades : t = req[r].trade
    BY Continuing
<1>1. /\ t = req[r].trade /\ Fits(t) /\ Others(r) /\ UNCHANGED outboxVars /\ Knows(r)'
      /\ Became(r, Idle) /\ req[r].toSeller \in Nat
    BY Terms, Continuing, IdleKnows DEF FinalizeCompletion, FinalizeDispute, MarkRefunded, Fail,
       RequestsKnow, TradesFit, Request
<1>2. OrdersKept /\ \A u \in Trades : SameOrders(u)
    BY <1>1, OutboxUnchanged
<1>3. /\ amount'[SellerKey(t)] = amount[SellerKey(t)] /\ amount'[BuyerKey(t)] = amount[BuyerKey(t)]
      /\ outcome' = outcome
    BY <1>1, <1>2 DEF SameOrders, outboxVars
<1> SUFFICES /\ \A u \in Trades \ {t} : SameRow(u)
             /\ SameRow(t) \/ (Fits(t)' /\ Steady(t))
    BY <1>1, <1>2, ContinuingFrame
<1>4. ASSUME t \in External, req[r].at = "finish"
      PROVE  /\ Decided(t) /\ Sent(SellerKey(t), SellerDue(t)) /\ Sent(BuyerKey(t), BuyerDue(t))
             /\ SellerDue(t) = req[r].toSeller
    BY <1>1, <1>4 DEF RequestsKnow, Knows, Settles
<1>5. CASE FinalizeCompletion(r)
    <2>1. \A u \in Trades \ {t} : SameRow(u)
        BY <1>5 DEF FinalizeCompletion, AdvanceReview, SameRow, TypeOK
    <2>2. /\ status[t] = "pending_release" /\ status'[t] = "completed" /\ payout'[t] = "complete"
          /\ resolution' = resolution /\ receipt' = receipt /\ req[r].at = "finish"
          /\ t \in Explicit => review[t] = "passed" /\ review'[t] = "passed"
        BY <1>1, <1>5 DEF FinalizeCompletion, CanComplete, ReleaseAllowed, AgreedAcceptance, TypeOK
    <2>3. ASSUME t \in External
          PROVE  Fits(t)' /\ Steady(t)
        <3>1. /\ Agreed(t) /\ Agreed(t)' /\ ShareOf(t) = Price /\ ShareOf(t)' = Price
            BY <1>4, <2>2, <2>3 DEF Decided, Owed, Agreed, ShareOf
        <3>2. RowsFit(t)'
            BY <1>1, <2>2, <2>3 DEF Fits, RowsFit, Closed
        <3>3. PaysWhatIsDue(t)'
            BY <1>1, <1>3, <1>4, <2>2, <2>3, <3>1
               DEF Fits, PaysWhatIsDue, SellerDue, BuyerDue, Ordered, Sent
        <3> QED
            BY <2>2, <2>3, <3>1, <3>2, <3>3
               DEF Fits, Steady, ReviewFirst, Decided, SellerDue, BuyerDue
    <2>4. ASSUME t \notin External
          PROVE  Fits(t)' /\ Steady(t)
        BY <1>1, <1>3, <2>2, <2>4 DEF Fits, Steady, OnLedger, ReviewFirst
    <2> QED
        BY <2>1, <2>3, <2>4
<1>6. CASE FinalizeDispute(r)
    <2>1. \A u \in Trades \ {t} : SameRow(u)
        BY <1>6 DEF FinalizeDispute, SameRow, TypeOK
    <2>2. /\ status[t] = "disputed" /\ status'[t] = "resolved" /\ payout'[t] = "complete"
          /\ resolution'[t] = req[r].toSeller /\ receipt' = receipt /\ req[r].at = "finish"
        BY <1>1, <1>6 DEF FinalizeDispute, CanResolve, TypeOK
    <2>3. ASSUME t \in External
          PROVE  Fits(t)' /\ Steady(t)
        <3>1. /\ Agreed(t) /\ Agreed(t)' /\ ShareOf(t) = resolution[t] /\ resolution[t] # Null
              /\ ShareOf(t)' = resolution[t] /\ resolution'[t] = resolution[t]
            BY <1>4, <2>2, <2>3 DEF Decided, Owed, Agreed, ShareOf, SellerDue
        <3>2. RowsFit(t)'
            BY <1>1, <2>2, <2>3, <3>1 DEF Fits, RowsFit, Closed
        <3>3. PaysWhatIsDue(t)'
            BY <1>1, <1>3, <1>4, <2>2, <2>3, <3>1
               DEF Fits, PaysWhatIsDue, SellerDue, BuyerDue, Ordered, Sent
        <3> QED
            BY <2>2, <2>3, <3>1, <3>2, <3>3
               DEF Fits, Steady, ReviewFirst, Decided, SellerDue, BuyerDue
    <2>4. ASSUME t \notin External
          PROVE  Fits(t)' /\ Steady(t)
        BY <1>1, <1>3, <2>2, <2>4 DEF Fits, Steady, OnLedger, ReviewFirst
    <2> QED
        BY <2>1, <2>3, <2>4
<1>7. CASE MarkRefunded(r)
    <2>1. \A u \in Trades \ {t} : SameRow(u)
        BY <1>7 DEF MarkRefunded, SameRow, TypeOK
    <2>2. /\ status[t] = "cancelled" /\ status' = status /\ payout'[t] = "refunded"
          /\ resolution' = resolution /\ receipt' = receipt /\ review' = review
          /\ req[r].at = "finish" /\ t \in External
        BY <1>1, <1>7 DEF MarkRefunded, Fits, OnLedger, TypeOK
    <2>3. ~ Agreed(t) /\ ~ Agreed(t)' /\ Owed(t) /\ Owed(t)'
        BY <1>4, <2>2 DEF Decided, Owed, Agreed
    <2>4. RowsFit(t)'
        BY <1>1, <2>2, <2>3 DEF Fits, RowsFit, Closed, Owed
    <2>5. PaysWhatIsDue(t)'
        BY <1>1, <1>3, <1>4, <2>2, <2>3
           DEF Fits, PaysWhatIsDue, SellerDue, BuyerDue, Ordered, Sent
    <2> QED
        BY <2>1, <2>2, <2>3, <2>4, <2>5 DEF Fits, Steady, ReviewFirst, Decided, SellerDue, BuyerDue
<1>8. CASE Fail(r)
    BY <1>8 DEF Fail, SameRow, tradeVars
<1> QED
    BY <1>5, <1>6, <1>7, <1>8

LEMMA Fitting ==
    ASSUME TypeOK, TradesFit, RequestsKnow, ReportsAreTrue, [Next]_vars
    PROVE  TradesFit' /\ RequestsKnow'
<1>1. CASE OutboxStep
    BY <1>1, OutboxFits
<1>2. CASE \E t \in Trades : \/ ReserveExternal(t) \/ CreateLedgerTrade(t) \/ DeadlinePasses(t)
                             \/ CancelByBuyer(t) \/ ExpireByCron(t) \/ Deliver(t)
    BY <1>2, TradeStepsFit
<1>3. CASE \E r \in Requests, t \in Trades : Begins(r, t)
    BY <1>3, BeginningFits
<1>4. CASE \E r \in Requests : Continues(r)
    BY <1>4, FundingFits, DecisionFits, TransferFits, FinishFits DEF Continues
<1>5. CASE UNCHANGED vars
    <2>1. OrdersKept /\ (\A t \in Trades : SameRow(t) /\ SameOrders(t)) /\ UNCHANGED req
        BY <1>5, OutboxUnchanged DEF vars, tradeVars, SameRow
    <2> QED
        BY <2>1, StepFits
<1> QED
    BY <1>1, <1>2, <1>3, <1>4, <1>5 DEF Next, Begins, Continues

-----------------------------------------------------------------------------
(* Reports, proofs and listings *)

LEMMA ReportsStayTrue ==
    ASSUME TypeOK, RequestsKnow, ReportsAreTrue, [Next]_vars
    PROVE  ReportsAreTrue'
<1>1. CASE OutboxStep
    BY <1>1 DEF OutboxStep, Outbox!Decide, Outbox!Report, Outbox!ReportOpen, TypeOK, ReportsAreTrue
<1>2. CASE UNCHANGED <<outcome, report>>
    BY <1>2 DEF ReportsAreTrue
<1>3. CASE \E t \in Trades : \/ ReserveExternal(t) \/ CreateLedgerTrade(t) \/ DeadlinePasses(t)
                             \/ CancelByBuyer(t) \/ ExpireByCron(t) \/ Deliver(t)
    BY <1>2, <1>3 DEF ReserveExternal, CreateLedgerTrade, DeadlinePasses, CancelByBuyer,
           ExpireByCron, ExpireTradePayment, Deliver, outboxVars
<1>4. CASE \E r \in Requests, t \in Trades : Begins(r, t)
    <2>1. PICK r \in Requests, t \in Trades : Begins(r, t)
        BY <1>4
    <2>2. CASE \E p \in Proofs : PresentPayment(r, t, p)
        BY <1>2, <2>2 DEF PresentPayment, outboxVars
    <2>3. CASE Confirm(r, t) \/ AutoConfirm(r, t) \/ OpenDispute(r, t) \/ RetrySettlement(r, t)
        BY <1>2, <2>3 DEF Confirm, AutoConfirm, OpenDispute, RetrySettlement, outboxVars
    <2>4. CASE \E s \in Shares : ResolveExternal(r, t, s) \/ ResolveLedger(r, t, s)
        BY <1>2, <2>4 DEF ResolveExternal, ResolveLedger, outboxVars
    <2> QED
        BY <2>1, <2>2, <2>3, <2>4 DEF Begins
<1>5. CASE \E r \in Requests : QueuePayout(r) \/ QueueRefund(r)
    BY <1>2, <1>5, Queueing DEF Instructs, outboxVars
<1>6. CASE \E r \in Requests : Continues(r) /\ ~ QueuePayout(r) /\ ~ QueueRefund(r)
    BY <1>2, <1>6 DEF Continues, AcceptFunding, RefuseFunding, FindCheckoutExpired,
           FindTradeChanged, RecordLatePayment, ClaimConfirmation, JoinConfirmation,
           MarkReviewAccepted, RecordDispute, AwaitPayout, AwaitRefund, FinalizeCompletion,
           FinalizeDispute, MarkRefunded, Fail, outboxVars
<1> QED
    BY <1>1, <1>2, <1>3, <1>4, <1>5, <1>6 DEF Next, Begins, Continues, vars, outboxVars

\* A payment is attached when no trade has it, and to a trade that has none.
Attached(t, p) ==
    /\ p \in Proofs /\ ProofIsFree(t, p)
    /\ receipt' = [receipt EXCEPT ![t] = p]

\* A listing is claimed by a reservation and freed when it is dropped.
Claims(t) ==
    /\ status[t] = "none" /\ status'[t] \in {"pending", "escrow_held"}
    /\ listing[ListingOf[t]] = "active" /\ listing' = [listing EXCEPT ![ListingOf[t]] = "sold"]
Frees(t) ==
    /\ status[t] = "pending" /\ status'[t] = "cancelled"
    /\ listing' = [listing EXCEPT ![ListingOf[t]] = "active"]
Remains(t) == listing' = listing /\ (Holds(t)' <=> Holds(t))

\* What a step may do to the payment, the status and the listing of a trade.
Touches(t) ==
    /\ \A u \in Trades \ {t} : status'[u] = status[u]
    /\ receipt' = receipt \/ \E p \in Proofs : Attached(t, p)
    /\ Claims(t) \/ Frees(t) \/ Remains(t)

LEMMA Touching ==
    ASSUME TypeOK, RequestsKnow, [Next]_vars
    PROVE  \/ UNCHANGED <<status, receipt, listing>>
           \/ \E t \in Trades : Touches(t)
<1>1. CASE OutboxStep \/ UNCHANGED vars
    BY <1>1 DEF OutboxStep, vars, tradeVars
<1>2. ASSUME NEW t \in Trades,
             \/ ReserveExternal(t) \/ CreateLedgerTrade(t) \/ DeadlinePasses(t)
             \/ CancelByBuyer(t) \/ ExpireByCron(t) \/ Deliver(t)
      PROVE  Touches(t)
    BY <1>2 DEF ReserveExternal, CreateLedgerTrade, DeadlinePasses, CancelByBuyer, ExpireByCron,
       ExpireTradePayment, Dropped, Deliver, Touches, Claims, Frees, Remains, Holds, TypeOK
<1>3. ASSUME NEW r \in Requests, NEW t \in Trades, Begins(r, t)
      PROVE  UNCHANGED <<status, receipt, listing>>
    BY <1>3 DEF Begins, PresentPayment, Confirm, AutoConfirm, OpenDispute, ResolveExternal,
       ResolveLedger, RetrySettlement, tradeVars
<1>4. ASSUME NEW r \in Requests, Continues(r)
      PROVE  UNCHANGED <<status, receipt, listing>> \/ \E t \in Trades : Touches(t)
    <2> PICK t \in Trades : t = req[r].trade
        BY <1>4, Continuing
    <2>1. CASE AcceptFunding(r) \/ RefuseFunding(r) \/ FindCheckoutExpired(r) \/ RecordLatePayment(r)
        <3> PICK p \in Proofs : p = req[r].proof
            BY <2>1 DEF RequestsKnow, Knows, AcceptFunding, RefuseFunding, FindCheckoutExpired,
                        RecordLatePayment
        <3>1. CASE AcceptFunding(r)
            BY <3>1 DEF AcceptFunding, Attach, Attached, Touches, Remains, Holds, TypeOK
        <3>2. CASE RefuseFunding(r)
            BY <3>2 DEF RefuseFunding, Attach, Attached, Dropped, Touches, Frees, TypeOK
        <3>3. CASE FindCheckoutExpired(r)
            BY <3>3 DEF FindCheckoutExpired, Dropped, Touches, Frees, TypeOK
        <3>4. CASE RecordLatePayment(r)
            BY <3>4 DEF RecordLatePayment, Retained, Attach, Attached, Touches, Remains, Holds
        <3> QED
            BY <2>1, <3>1, <3>2, <3>3, <3>4
    <2>2. CASE RecordDispute(r)
        BY <2>2 DEF RecordDispute, MayDispute, RequestsKnow, Knows, Touches, Remains, Holds, TypeOK
    <2>3. CASE FinalizeCompletion(r) \/ FinalizeDispute(r)
        BY <2>3 DEF FinalizeCompletion, FinalizeDispute, CanComplete, CanResolve, Touches, Remains,
                    Holds, TypeOK
    <2>4. CASE \/ FindTradeChanged(r) \/ ClaimConfirmation(r) \/ JoinConfirmation(r)
               \/ MarkReviewAccepted(r) \/ QueuePayout(r) \/ QueueRefund(r) \/ AwaitPayout(r)
               \/ AwaitRefund(r) \/ MarkRefunded(r) \/ Fail(r)
        BY <2>4 DEF FindTradeChanged, ClaimConfirmation, JoinConfirmation, MarkReviewAccepted,
           QueuePayout, QueueRefund, AwaitPayout, AwaitRefund, MarkRefunded, Fail, tradeVars
    <2> QED
        BY <1>4, <2>1, <2>2, <2>3, <2>4 DEF Continues
<1> QED
    BY <1>1, <1>2, <1>3, <1>4 DEF Next, Begins, Continues

LEMMA ProofsStayUnique ==
    ASSUME TypeOK, RequestsKnow, ProofsServeOnce, [Next]_vars
    PROVE  ProofsServeOnce'
<1>1. CASE receipt' = receipt
    BY <1>1 DEF ProofsServeOnce
<1>2. ASSUME NEW t \in Trades, NEW p \in Proofs, Attached(t, p)
      PROVE  ProofsServeOnce'
    BY <1>2 DEF ProofsServeOnce, Attached, ProofIsFree, TypeOK
<1> QED
    BY <1>1, <1>2, Touching DEF Touches

LEMMA ListingsStayHeld ==
    ASSUME TypeOK, RequestsKnow, ListingsHold, [Next]_vars
    PROVE  ListingsHold'
<1>1. CASE UNCHANGED <<status, listing>>
    BY <1>1 DEF ListingsHold, Holds
<1>2. ASSUME NEW t \in Trades, Touches(t)
      PROVE  ListingsHold'
    <2>1. \A u \in Trades \ {t} : Holds(u)' <=> Holds(u)
        BY <1>2 DEF Touches, Holds
    <2>2. ListingOf[t] \in Listings /\ \A u \in Trades : ListingOf[u] \in Listings
        BY Terms
    <2>3. CASE Remains(t)
        BY <2>1, <2>3 DEF Remains, ListingsHold
    <2>4. CASE Claims(t)
        <3>1. Holds(t)' /\ ~ Holds(t) /\ \A u \in Trades : Holds(u) => ListingOf[u] # ListingOf[t]
            BY <2>2, <2>4 DEF Claims, Holds, ListingsHold
        <3> QED
            BY <2>1, <2>2, <2>4, <3>1 DEF Claims, ListingsHold, TypeOK
    <2>5. CASE Frees(t)
        <3>1. Holds(t) /\ ~ Holds(t)' /\ \A u \in Trades \ {t} : Holds(u) => ListingOf[u] # ListingOf[t]
            BY <2>5 DEF Frees, Holds, ListingsHold
        <3> QED
            BY <2>1, <2>2, <2>5, <3>1 DEF Frees, ListingsHold, TypeOK
    <2> QED
        BY <1>2, <2>3, <2>4, <2>5 DEF Touches
<1> QED
    BY <1>1, <1>2, Touching

-----------------------------------------------------------------------------
(* The invariant, and what follows from it *)

LEMMA Initially == Init => IInv
<1> SUFFICES ASSUME Init
             PROVE  IInv
    OBVIOUS
<1>1. TypeOK
    BY InitTyped
<1>2. TradesFit
    BY Terms, TradeKeys DEF Init, TradesFit, Fits, RowsFit, PaysWhatIsDue, OnLedger, ReviewFirst,
       Ordered, Closed
<1>3. RequestsKnow
    BY DEF Init, RequestsKnow, Knows, Idle, Payable
<1>4. ReportsAreTrue /\ ProofsServeOnce /\ ListingsHold
    BY DEF Init, ReportsAreTrue, ProofsServeOnce, ListingsHold, Holds
<1> QED
    BY <1>1, <1>2, <1>3, <1>4 DEF IInv

LEMMA Kept == IInv /\ [Next]_vars => IInv'
BY Typed, Fitting, ReportsStayTrue, ProofsStayUnique, ListingsStayHeld DEF IInv

\* What the settlement of a trade relies on always holds, however many
\* confirmations, disputes, resolutions, late payments and cron retries of
\* lib/external-settlement.ts race.
THEOREM SettlementIsInductive == Spec => []IInv
BY Initially, Kept, PTL DEF Spec

\* The columns of trades, wallets, payment_receipts and settlement_transfers keep
\* their types; a wallet never goes below zero (wallets_balance checks of the ledger).
THEOREM EscrowIsTyped == Spec => []TypeOK
BY SettlementIsInductive, PTL DEF IInv

\* What is due of a trade divides its price, and is nothing without a payment.
LEMMA DueDivides ==
    ASSUME IInv, NEW t \in External
    PROVE  /\ SellerDue(t) \in Nat /\ BuyerDue(t) \in Nat
           /\ SellerDue(t) > 0 \/ BuyerDue(t) > 0 => receipt[t] # Null
           /\ status[t] = "cancelled" => SellerDue(t) = 0
           /\ status[t] # "cancelled" => SellerDue(t) + BuyerDue(t) <= Price
<1>1. t \in Trades /\ RowsFit(t)
    BY Terms DEF IInv, TradesFit, Fits
<1>2. Agreed(t) => ShareOf(t) \in 0 .. Price
    BY <1>1, Terms DEF Agreed, ShareOf, RowsFit, IInv, TypeOK, Shares
<1>3. Agreed(t) \/ Owed(t) => receipt[t] # Null
    BY <1>1 DEF Agreed, Owed, RowsFit
<1>4. status[t] = "cancelled" => ~ Agreed(t)
    BY DEF Agreed
<1> QED
    BY <1>2, <1>3, <1>4, Terms DEF SellerDue, BuyerDue, Owed

LEMMA InOrderIsDue ==
    ASSUME IInv, NEW t \in External
    PROVE  /\ InOrder(t, "seller_payout") \in {0, SellerDue(t)}
           /\ InOrder(t, "buyer_refund") \in {0, BuyerDue(t)}
           /\ payout[t] \in {"complete", "refunded"} =>
                  /\ InOrder(t, "seller_payout") = SellerDue(t) /\ Paid(t, "seller_payout")
                  /\ InOrder(t, "buyer_refund") = BuyerDue(t) /\ Paid(t, "buyer_refund")
<1>1. t \in Trades /\ PaysWhatIsDue(t)
    BY Terms DEF IInv, TradesFit, Fits
<1> QED
    BY <1>1, DueDivides DEF PaysWhatIsDue, Ordered, Sent, InOrder, Paid, SellerKey, BuyerKey

LEMMA LedgerOrdersNothing ==
    ASSUME IInv, NEW t \in Trades \ External
    PROVE  InOrder(t, "seller_payout") = 0 /\ InOrder(t, "buyer_refund") = 0
BY DEF IInv, TradesFit, Fits, OnLedger, InOrder, SellerKey, BuyerKey

\* settleExternallyFundedTrade and refundCancelledExternalTrade queue what the
\* trade owes and no more, and the row that says "completed", "resolved" or
\* "refunded" is written when the chain has paid exactly that.
THEOREM TradesEndAsPaid == Spec => []EndsAsPaid
<1>1. ASSUME IInv
      PROVE  EndsAsPaid
    <2>1. ASSUME NEW t \in Trades
          PROVE  LET sum == InOrder(t, "seller_payout") + InOrder(t, "buyer_refund") IN
                 /\ sum > 0 => receipt[t] # Null
                 /\ status[t] = "cancelled" => InOrder(t, "seller_payout") = 0
                 /\ status[t] # "cancelled" => sum <= Price
        <3>1. CASE t \in External
            BY <1>1, <3>1, DueDivides, InOrderIsDue, Terms
        <3>2. CASE t \notin External
            BY <1>1, <2>1, <3>2, LedgerOrdersNothing, Terms
        <3> QED
            BY <3>1, <3>2
    <2>2. ASSUME NEW t \in External
          PROVE  /\ payout[t] \in {"complete", "refunded"} =>
                        Paid(t, "seller_payout") /\ Paid(t, "buyer_refund")
                 /\ status[t] = "completed" => InOrder(t, "seller_payout") = Price
                 /\ status[t] = "resolved" =>
                        /\ InOrder(t, "seller_payout") = resolution[t]
                        /\ InOrder(t, "buyer_refund") = Price - resolution[t]
                 /\ payout[t] = "refunded" => InOrder(t, "buyer_refund") = Price + Fee
        <3>1. t \in Trades /\ RowsFit(t)
            BY <1>1, Terms DEF IInv, TradesFit, Fits
        <3>2. status[t] \in Status
            BY <1>1, <3>1 DEF IInv, TypeOK
        <3>3. Closed(t) => payout[t] = "complete" /\ Agreed(t)
            BY <3>1 DEF RowsFit, Closed, Agreed
        <3>4. payout[t] = "refunded" => Owed(t) /\ ~ Agreed(t)
            BY <3>1, <3>2 DEF RowsFit, Closed, Owed, Agreed, Status, Live
        <3> QED
            BY <1>1, <3>3, <3>4, InOrderIsDue DEF Closed, SellerDue, BuyerDue, ShareOf
    <2> QED
        BY <2>1, <2>2 DEF EndsAsPaid
<1> QED
    BY <1>1, SettlementIsInductive, PTL

\* POST /api/trades/[id]/dispute freezes the money (trade-dispute.ts grants it only
\* when nobody settles) and assertTradeReleaseAllowed keeps it until the buyer accepts.
THEOREM MoneyWaits == Spec => []MoneyWaitsForDecision
<1>1. ASSUME IInv
      PROVE  MoneyWaitsForDecision
    <2>1. ASSUME NEW t \in Trades, status[t] = "disputed", resolution[t] = Null
          PROVE  amount[SellerKey(t)] = Null /\ amount[BuyerKey(t)] = Null
        <3>1. CASE t \in External
            BY <1>1, <2>1, <3>1 DEF IInv, TradesFit, Fits, PaysWhatIsDue, Ordered, SellerDue,
               BuyerDue, Agreed, Owed
        <3>2. CASE t \notin External
            BY <1>1, <3>2 DEF IInv, TradesFit, Fits, OnLedger
        <3> QED
            BY <3>1, <3>2
    <2>2. \A t \in Explicit : t \in Trades /\ ReviewFirst(t)
        BY <1>1, TermsAssumption DEF IInv, TradesFit, Fits
    <2> QED
        BY <2>1, <2>2 DEF MoneyWaitsForDecision, ReviewFirst, Kinds, SellerKey, BuyerKey
<1> QED
    BY <1>1, SettlementIsInductive, PTL

\* A cancellation, a refused payment or the expiry cron (expireTradePayment) never
\* puts a listing up for sale that another trade holds.
THEOREM ListingsAreSoldOnce == Spec => []OneTradePerListing
<1>1. ASSUME IInv, NEW l \in Listings
      PROVE  LET on == {t \in Trades : ListingOf[t] = l /\ status[t] \notin {"none", "cancelled"}} IN
             /\ Cardinality(on) <= 1
             /\ listing[l] = "sold" <=> on # {}
    <2> DEFINE on == {t \in Trades : ListingOf[t] = l /\ status[t] \notin {"none", "cancelled"}}
    <2>1. on = {t \in Trades : ListingOf[t] = l /\ Holds(t)}
        BY DEF Holds
    <2>2. (\A t, u \in on : t = u) /\ (listing[l] = "sold" <=> on # {})
        BY <1>1, <2>1 DEF IInv, ListingsHold
    <2>3. on = {} \/ \E t \in on : on = {t}
        BY <2>2
    <2>4. Cardinality(on) <= 1
        <3>1. on = {} => Cardinality(on) = 0
            BY FS_EmptySet
        <3>2. ASSUME NEW t \in on, on = {t}
              PROVE  Cardinality(on) = 1
            BY <3>2, FS_Singleton
        <3> HIDE DEF on
        <3> QED
            BY <2>3, <3>1, <3>2
    <2> QED
        BY <2>2, <2>4
<1>2. IInv => OneTradePerListing
    BY <1>1 DEF OneTradePerListing
<1> QED
    BY <1>2, SettlementIsInductive, PTL

\* A payment the fund route verified is never lost: recordExternalTradeFunding and
\* recordCancelledExternalFunding keep its proof with one trade, and a cancelled
\* trade with a proof stays "processing" for the retry cron until it is refunded.
THEOREM PaymentsStayRetained == Spec => []PaymentsAreRetained
<1>1. ASSUME IInv, NEW t \in Trades, receipt[t] # Null
      PROVE  /\ status[t] \notin {"none", "pending"}
             /\ status[t] = "cancelled" => payout[t] \in {"processing", "refunded"}
             /\ \A u \in Trades \ {t} : receipt[u] # receipt[t]
    <2>1. t \in External /\ RowsFit(t)
        BY <1>1 DEF IInv, TradesFit, Fits, OnLedger
    <2> QED
        BY <1>1, <2>1 DEF IInv, RowsFit, ProofsServeOnce
<1>2. IInv => PaymentsAreRetained
    BY <1>1 DEF PaymentsAreRetained
<1> QED
    BY <1>2, SettlementIsInductive, PTL

-----------------------------------------------------------------------------
(* The buyer's ledger escrow *)

LedgerLive == {t \in Trades \ External : status[t] \in Live}
Total == balance["buyer"] + balance["seller"] + balance["platform"] + escrow
LedgerBacked ==
    IsFiniteSet(LedgerLive) /\ escrow = Price * Cardinality(LedgerLive) /\ Total = Funds

LEMMA LedgerMoves ==
    ASSUME IInv, [Next]_vars
    PROVE  \/ LedgerLive' = LedgerLive /\ UNCHANGED walletVars
           \/ /\ escrow' = escrow + Price /\ Total' = Total
              /\ \E t \in Trades : t \notin LedgerLive /\ LedgerLive' = LedgerLive \cup {t}
           \/ /\ escrow' = escrow - Price /\ Total' = Total
              /\ \E t \in LedgerLive : LedgerLive' = LedgerLive \ {t}
<1>1. TypeOK /\ RequestsKnow /\ \A t \in Trades : Fits(t)
    BY DEF IInv, TradesFit
<1>2. ASSUME status' = status, UNCHANGED walletVars
      PROVE  LedgerLive' = LedgerLive /\ UNCHANGED walletVars
    BY <1>2 DEF LedgerLive
<1>3. CASE OutboxStep \/ UNCHANGED vars
    BY <1>2, <1>3 DEF OutboxStep, vars, tradeVars
<1>4. ASSUME NEW t \in Trades, CreateLedgerTrade(t)
      PROVE  /\ escrow' = escrow + Price /\ Total' = Total
             /\ t \notin LedgerLive /\ LedgerLive' = LedgerLive \cup {t}
    <2>1. LedgerLive' = LedgerLive \cup {t} /\ t \notin LedgerLive
        BY <1>1, <1>4 DEF CreateLedgerTrade, LedgerLive, Live, TypeOK
    <2>2. escrow' = escrow + Price /\ Total' = Total
        BY <1>1, <1>4, Terms DEF CreateLedgerTrade, Total, TypeOK, Parties
    <2> QED
        BY <2>1, <2>2
<1>5. ASSUME NEW t \in Trades,
             \/ ReserveExternal(t) \/ DeadlinePasses(t)
             \/ CancelByBuyer(t) \/ ExpireByCron(t) \/ Deliver(t)
      PROVE  LedgerLive' = LedgerLive /\ UNCHANGED walletVars
    BY <1>1, <1>5 DEF ReserveExternal, DeadlinePasses, CancelByBuyer, ExpireByCron,
       ExpireTradePayment, Dropped, Deliver, LedgerLive, Live, Fits, OnLedger, TypeOK
<1>6. ASSUME NEW r \in Requests, NEW t \in Trades, Begins(r, t)
      PROVE  LedgerLive' = LedgerLive /\ UNCHANGED walletVars
    BY <1>2, <1>6 DEF Begins, PresentPayment, Confirm, AutoConfirm, OpenDispute, ResolveExternal,
       ResolveLedger, RetrySettlement, tradeVars
<1>7. ASSUME NEW r \in Requests, Continues(r)
      PROVE  \/ LedgerLive' = LedgerLive /\ UNCHANGED walletVars
             \/ /\ escrow' = escrow - Price /\ Total' = Total
                /\ \E t \in LedgerLive : LedgerLive' = LedgerLive \ {t}
    <2> PICK t \in Trades : t = req[r].trade
        BY <1>1, <1>7, Continuing
    <2>1. CASE \/ AcceptFunding(r) \/ RefuseFunding(r) \/ FindCheckoutExpired(r)
        <3>1. t \in External
            BY <1>1, <2>1 DEF RequestsKnow, Knows, AcceptFunding, RefuseFunding, FindCheckoutExpired
        <3> QED
            BY <1>1, <2>1, <3>1 DEF AcceptFunding, RefuseFunding, FindCheckoutExpired, Dropped,
               LedgerLive, TypeOK
    <2>2. CASE RecordDispute(r)
        <3>1. MayDispute(t, req[r].seen) => status[t] \in {"escrow_held", "pending_release"}
            BY <1>1, <2>2 DEF RequestsKnow, Knows, MayDispute, RecordDispute
        <3> QED
            BY <1>1, <2>2, <3>1 DEF RecordDispute, LedgerLive, Live, TypeOK
    <2>3. CASE FinalizeCompletion(r) \/ FinalizeDispute(r)
        <3> PICK share \in Shares : ReleaseEscrow(t, share)
            BY <1>1, <1>7, <2>3, Continuing, Terms
               DEF FinalizeCompletion, FinalizeDispute, Shares, Request
        <3>1. status[t] \in Live /\ \E s \in {"completed", "resolved"} : status' = [status EXCEPT ![t] = s]
            BY <1>1, <2>3 DEF FinalizeCompletion, FinalizeDispute, CanComplete, CanResolve, Live
        <3>2. CASE t \in External
            BY <1>1, <3>1, <3>2 DEF ReleaseEscrow, LedgerLive, TypeOK
        <3>3. CASE t \notin External
            <4>1. t \in LedgerLive /\ LedgerLive' = LedgerLive \ {t}
                BY <1>1, <3>1, <3>3 DEF LedgerLive, Live, TypeOK
            <4>2. escrow' = escrow - Price /\ Total' = Total
                BY <1>1, <3>3, Terms DEF ReleaseEscrow, Total, TypeOK, Parties, Shares
            <4> QED
                BY <4>1, <4>2
        <3> QED
            BY <3>2, <3>3
    <2>4. CASE \/ FindTradeChanged(r) \/ RecordLatePayment(r) \/ ClaimConfirmation(r)
               \/ JoinConfirmation(r) \/ MarkReviewAccepted(r) \/ QueuePayout(r) \/ QueueRefund(r)
               \/ AwaitPayout(r) \/ AwaitRefund(r) \/ MarkRefunded(r) \/ Fail(r)
        BY <1>2, <2>4 DEF FindTradeChanged, RecordLatePayment, ClaimConfirmation, JoinConfirmation,
           MarkReviewAccepted, QueuePayout, QueueRefund, AwaitPayout, AwaitRefund, MarkRefunded,
           Fail, tradeVars
    <2> QED
        BY <1>7, <2>1, <2>2, <2>3, <2>4 DEF Continues
<1> QED
    BY <1>3, <1>4, <1>5, <1>6, <1>7 DEF Next, Begins, Continues

LEMMA LedgerStaysBacked ==
    ASSUME IInv, LedgerBacked, [Next]_vars
    PROVE  LedgerBacked'
<1>1. Cardinality(LedgerLive) \in Nat
    BY FS_CardinalityType DEF LedgerBacked
<1>2. CASE LedgerLive' = LedgerLive /\ UNCHANGED walletVars
    BY <1>2 DEF LedgerBacked, Total, walletVars
<1>3. ASSUME escrow' = escrow + Price, Total' = Total, NEW t \in Trades, t \notin LedgerLive,
             LedgerLive' = LedgerLive \cup {t}
      PROVE  LedgerBacked'
    <2>1. IsFiniteSet(LedgerLive') /\ Cardinality(LedgerLive') = Cardinality(LedgerLive) + 1
        BY <1>3, FS_AddElement DEF LedgerBacked
    <2>2. Price * (Cardinality(LedgerLive) + 1) = Price * Cardinality(LedgerLive) + Price
        BY <1>1, Terms
    <2> QED
        BY <1>3, <2>1, <2>2 DEF LedgerBacked
<1>4. ASSUME escrow' = escrow - Price, Total' = Total, NEW t \in LedgerLive,
             LedgerLive' = LedgerLive \ {t}
      PROVE  LedgerBacked'
    <2>1. IsFiniteSet(LedgerLive') /\ Cardinality(LedgerLive') = Cardinality(LedgerLive) - 1
        BY <1>4, FS_RemoveElement DEF LedgerBacked
    <2>2. Price * (Cardinality(LedgerLive) - 1) = Price * Cardinality(LedgerLive) - Price
        BY <1>1, Terms
    <2> QED
        BY <1>4, <2>1, <2>2 DEF LedgerBacked
<1> QED
    BY <1>2, <1>3, <1>4, LedgerMoves

\* The ledger conserves money: createLedgerTrade moves a price into escrow once
\* and finalizeTradeCompletion or finalizeTradeDispute takes it out once, so the
\* wallet's escrow is what its unfinished trades hold, for any number of trades.
THEOREM EscrowIsBacked == Spec => []EscrowBacksLedgerTrades
<1>1. Init => LedgerBacked
    <2> SUFFICES ASSUME Init
                 PROVE  LedgerBacked
        OBVIOUS
    <2>1. LedgerLive = {}
        BY DEF Init, LedgerLive, Live
    <2>2. Total = Funds
        BY Terms DEF Init, Total, Parties
    <2> QED
        BY <2>1, <2>2, Terms, FS_EmptySet DEF LedgerBacked, Init
<1>2. LedgerBacked => EscrowBacksLedgerTrades
    BY DEF LedgerBacked, EscrowBacksLedgerTrades, LedgerLive, Total
<1>3. IInv /\ LedgerBacked /\ [Next]_vars => LedgerBacked'
    BY LedgerStaysBacked
<1> QED
    BY <1>1, <1>2, <1>3, SettlementIsInductive, PTL DEF Spec

-----------------------------------------------------------------------------
(* The agreement is kept *)

LEMMA StageTable ==
    ASSUME NEW t \in External
    PROVE  /\ status[t] \in {"none", "pending"} => StageOf(t) = "unpaid" /\ ShareOf(t) = Null
           /\ status[t] = "cancelled" =>
                  /\ ShareOf(t) = Null
                  /\ StageOf(t) = IF payout[t] = "refunded" THEN "returned"
                                  ELSE IF payout[t] = "processing" THEN "owed" ELSE "dropped"
           /\ status[t] = "escrow_held" => StageOf(t) = "held" /\ ShareOf(t) = Null
           /\ status[t] = "pending_release" =>
                  IF payout[t] = "processing" THEN StageOf(t) = "decided" /\ ShareOf(t) = Price
                                              ELSE StageOf(t) = "held" /\ ShareOf(t) = Null
           /\ status[t] = "disputed" =>
                  /\ StageOf(t) = IF resolution[t] # Null THEN "decided" ELSE "contested"
                  /\ ShareOf(t) = resolution[t]
           /\ status[t] = "completed" => StageOf(t) = "closed" /\ ShareOf(t) = Price
           /\ status[t] = "resolved" => StageOf(t) = "closed" /\ ShareOf(t) = resolution[t]
BY DEF StageOf, ShareOf, Agreed, Closed

LEMMA StageTableNext ==
    ASSUME NEW t \in External
    PROVE  /\ status'[t] \in {"none", "pending"} => StageOf(t)' = "unpaid" /\ ShareOf(t)' = Null
           /\ status'[t] = "cancelled" =>
                  /\ ShareOf(t)' = Null
                  /\ StageOf(t)' = IF payout'[t] = "refunded" THEN "returned"
                                   ELSE IF payout'[t] = "processing" THEN "owed" ELSE "dropped"
           /\ status'[t] = "escrow_held" => StageOf(t)' = "held" /\ ShareOf(t)' = Null
           /\ status'[t] = "pending_release" =>
                  IF payout'[t] = "processing" THEN StageOf(t)' = "decided" /\ ShareOf(t)' = Price
                                               ELSE StageOf(t)' = "held" /\ ShareOf(t)' = Null
           /\ status'[t] = "disputed" =>
                  /\ StageOf(t)' = IF resolution'[t] # Null THEN "decided" ELSE "contested"
                  /\ ShareOf(t)' = resolution'[t]
           /\ status'[t] = "completed" => StageOf(t)' = "closed" /\ ShareOf(t)' = Price
           /\ status'[t] = "resolved" => StageOf(t)' = "closed" /\ ShareOf(t)' = resolution'[t]
BY DEF StageOf, ShareOf, Agreed, Closed

\* A trade stays where it is in the agreement, or moves on as agreed.
Stays(t) == StageOf(t)' = StageOf(t) /\ ShareOf(t)' = ShareOf(t)
Passes(t, from, to) ==
    StageOf(t) \in from /\ StageOf(t)' = to /\ ShareOf(t)' = ShareOf(t)
Decides(t, from, share) ==
    StageOf(t) \in from /\ StageOf(t)' = "decided" /\ ShareOf(t)' = share
Evolves(t) ==
    \/ Stays(t)
    \/ Passes(t, {"unpaid"}, "dropped") \/ Passes(t, {"unpaid"}, "held")
    \/ Passes(t, {"held"}, "contested") \/ Passes(t, {"decided"}, "closed")
    \/ Passes(t, {"unpaid", "dropped"}, "owed") \/ Passes(t, {"owed"}, "returned")
    \/ Decides(t, {"held"}, Price)
    \/ \E s \in 0 .. Price : Decides(t, {"contested"}, s)

LEMMA SameStays ==
    ASSUME NEW t \in External, SameRow(t)
    PROVE  Stays(t)
BY DEF Stays, SameRow, StageOf, ShareOf, Agreed, Closed

\* A step moves one trade, and that trade as agreed.
EvolvesAlone(t) ==
    /\ \A u \in Trades \ {t} : SameRow(u)
    /\ t \in External => Evolves(t)

LEMMA TradeEvolves ==
    ASSUME IInv, IInv', NEW t \in Trades,
           \/ ReserveExternal(t) \/ CreateLedgerTrade(t) \/ DeadlinePasses(t)
           \/ CancelByBuyer(t) \/ ExpireByCron(t) \/ Deliver(t)
    PROVE  EvolvesAlone(t)
<1>1. TypeOK /\ (t \in External => RowsFit(t))
    BY DEF IInv, TradesFit, Fits
<1>2. \A u \in Trades \ {t} : SameRow(u)
    BY <1>1 DEF ReserveExternal, CreateLedgerTrade, DeadlinePasses, CancelByBuyer, ExpireByCron,
       ExpireTradePayment, Dropped, Deliver, SameRow, TypeOK
<1>3. ASSUME t \in External
      PROVE  Evolves(t)
    <2>1. CASE DeadlinePasses(t)
        BY <1>3, <2>1, SameStays DEF DeadlinePasses, SameRow, Evolves
    <2>2. CASE ReserveExternal(t)
        BY <1>1, <1>3, <2>2, StageTable, StageTableNext DEF ReserveExternal, TypeOK, Evolves, Stays
    <2>3. CASE CancelByBuyer(t) \/ ExpireByCron(t)
        <3>1. /\ status[t] = "pending" /\ status'[t] = "cancelled"
              /\ payout[t] = "pending" /\ payout' = payout
            BY <1>1, <1>3, <2>3 DEF CancelByBuyer, ExpireByCron, ExpireTradePayment, Dropped, TypeOK,
               RowsFit
        <3> QED
            BY <1>3, <3>1, StageTable, StageTableNext DEF Evolves, Passes
    <2>4. CASE Deliver(t)
        <3>1. /\ status[t] = "escrow_held" /\ status'[t] = "pending_release"
              /\ payout[t] = "pending" /\ payout' = payout
            BY <1>1, <1>3, <2>4 DEF Deliver, TypeOK, RowsFit
        <3> QED
            BY <1>3, <3>1, StageTable, StageTableNext DEF Evolves, Stays
    <2> QED
        BY <1>3, <2>1, <2>2, <2>3, <2>4 DEF CreateLedgerTrade
<1> QED
    BY <1>2, <1>3 DEF EvolvesAlone

LEMMA BeginningEvolves ==
    ASSUME IInv, IInv', NEW r \in Requests, NEW t \in Trades, Begins(r, t)
    PROVE  EvolvesAlone(t)
<1>1. TypeOK /\ (t \in External => RowsFit(t))
    BY DEF IInv, TradesFit, Fits
<1>2. CASE \/ \E p \in Proofs : PresentPayment(r, t, p)
           \/ \E s \in Shares : ResolveLedger(r, t, s)
           \/ Confirm(r, t) \/ OpenDispute(r, t) \/ RetrySettlement(r, t)
    BY <1>2, SameStays DEF PresentPayment, ResolveLedger, Confirm, OpenDispute, RetrySettlement,
       tradeVars, SameRow, EvolvesAlone, Evolves
<1>3. CASE AutoConfirm(r, t)
    <2>1. \A u \in Trades \ {t} : SameRow(u)
        BY <1>1, <1>3 DEF AutoConfirm, SameRow, TypeOK
    <2>2. t \in External => /\ status[t] = "pending_release" /\ status' = status
                            /\ payout[t] = "pending" /\ payout'[t] = "processing"
        BY <1>1, <1>3 DEF AutoConfirm, TypeOK
    <2> QED
        BY <2>1, <2>2, StageTable, StageTableNext DEF EvolvesAlone, Evolves, Decides
<1>4. CASE \E s \in Shares : ResolveExternal(r, t, s)
    <2> PICK s \in Shares : ResolveExternal(r, t, s)
        BY <1>4
    <2>1. \A u \in Trades \ {t} : SameRow(u)
        BY <1>1, <1>4 DEF ResolveExternal, SameRow, TypeOK
    <2>2. /\ status[t] = "disputed" /\ status' = status /\ s \in 0 .. Price /\ s # Null
          /\ \/ resolution[t] = Null /\ resolution'[t] = s
             \/ resolution[t] = s /\ resolution'[t] = s
        BY <1>1, Terms DEF ResolveExternal, Unresolved, TypeOK, Shares
    <2> QED
        BY <2>1, <2>2, StageTable, StageTableNext DEF EvolvesAlone, Evolves, Decides, Stays
<1> QED
    BY <1>2, <1>3, <1>4 DEF Begins

LEMMA ContinuingEvolves ==
    ASSUME IInv, IInv', NEW r \in Requests, Continues(r)
    PROVE  \E t \in Trades : EvolvesAlone(t)
<1> PICK t \in Trades : t = req[r].trade
    BY Continuing DEF IInv
<1>1. TypeOK /\ Knows(r) /\ (t \in External => RowsFit(t) /\ RowsFit(t)')
    BY Terms DEF IInv, TradesFit, Fits, RequestsKnow
<1> SUFFICES EvolvesAlone(t)
    OBVIOUS
<1>2. CASE AcceptFunding(r)
    <2>1. \A u \in Trades \ {t} : SameRow(u)
        BY <1>1, <1>2 DEF AcceptFunding, Attach, SameRow, TypeOK
    <2>2. status[t] = "pending" /\ status'[t] = "escrow_held"
        BY <1>1, <1>2 DEF AcceptFunding, TypeOK
    <2> QED
        BY <2>1, <2>2, StageTable, StageTableNext DEF EvolvesAlone, Evolves, Passes
<1>3. CASE RefuseFunding(r)
    <2>1. \A u \in Trades \ {t} : SameRow(u)
        BY <1>1, <1>3 DEF RefuseFunding, Attach, Dropped, SameRow, TypeOK
    <2>2. status[t] = "pending" /\ status'[t] = "cancelled" /\ payout'[t] = "processing"
        BY <1>1, <1>3 DEF RefuseFunding, Dropped, TypeOK
    <2> QED
        BY <2>1, <2>2, StageTable, StageTableNext DEF EvolvesAlone, Evolves, Passes
<1>4. CASE FindCheckoutExpired(r)
    <2>1. \A u \in Trades \ {t} : SameRow(u)
        BY <1>1, <1>4 DEF FindCheckoutExpired, Dropped, SameRow, TypeOK
    <2>2. /\ status[t] = "pending" /\ status'[t] = "cancelled" /\ payout' = payout
          /\ t \in External => payout[t] = "pending"
        BY <1>1, <1>4 DEF FindCheckoutExpired, Dropped, TypeOK, RowsFit
    <2> QED
        BY <2>1, <2>2, StageTable, StageTableNext DEF EvolvesAlone, Evolves, Passes
<1>5. CASE RecordLatePayment(r)
    <2>1. \A u \in Trades \ {t} : SameRow(u)
        BY <1>1, <1>5 DEF RecordLatePayment, Retained, Attach, SameRow, TypeOK
    <2>2. CASE receipt[t] = req[r].proof /\ UNCHANGED <<payout, receipt>>
        BY <1>5, <2>1, <2>2, SameStays DEF RecordLatePayment, SameRow, EvolvesAlone, Evolves
    <2>3. CASE ProofIsFree(t, req[r].proof) /\ Retained(t, req[r].proof)
        <3>1. /\ status[t] = "cancelled" /\ status' = status /\ payout'[t] = "processing"
              /\ t \in External => payout[t] = "pending"
            BY <1>1, <1>5, <2>3 DEF RecordLatePayment, Retained, ProofIsFree, TypeOK, RowsFit
        <3> QED
            BY <2>1, <3>1, StageTable, StageTableNext DEF EvolvesAlone, Evolves, Passes
    <2> QED
        BY <1>5, <2>2, <2>3 DEF RecordLatePayment
<1>6. CASE ClaimConfirmation(r)
    <2>1. \A u \in Trades \ {t} : SameRow(u)
        BY <1>1, <1>6 DEF ClaimConfirmation, AdvanceReview, SameRow, TypeOK
    <2>2. /\ status[t] = "pending_release" /\ status' = status
          /\ payout[t] = "pending" /\ payout'[t] = "processing"
        BY <1>1, <1>6 DEF ClaimConfirmation, TypeOK
    <2> QED
        BY <2>1, <2>2, StageTable, StageTableNext DEF EvolvesAlone, Evolves, Decides
<1>7. CASE MarkReviewAccepted(r)
    BY <1>1, <1>7 DEF MarkReviewAccepted, AdvanceReview, SameRow, EvolvesAlone, TypeOK
<1>8. CASE RecordDispute(r)
    <2>1. \A u \in Trades \ {t} : SameRow(u)
        BY <1>1, <1>8 DEF RecordDispute, AdvanceReview, SameRow, TypeOK
    <2>2. CASE ~ MayDispute(t, req[r].seen)
        BY <1>1, <1>8, <2>1, <2>2, SameStays DEF RecordDispute, SameRow, EvolvesAlone, Evolves
    <2>3. CASE MayDispute(t, req[r].seen)
        <3>1. /\ status[t] \in {"escrow_held", "pending_release"} /\ status'[t] = "disputed"
              /\ payout[t] # "processing" /\ resolution' = resolution
              /\ t \in External => resolution[t] = Null
            BY <1>1, <1>8, <2>3 DEF RecordDispute, MayDispute, Knows, TypeOK, RowsFit
        <3> QED
            BY <2>1, <3>1, StageTable, StageTableNext DEF EvolvesAlone, Evolves, Passes
    <2> QED
        BY <2>2, <2>3
<1>9. ASSUME t \in External, req[r].at = "finish"
      PROVE  Decided(t) /\ SellerDue(t) = req[r].toSeller
    BY <1>1, <1>9 DEF Knows, Settles
<1>10. CASE FinalizeCompletion(r)
    <2>1. \A u \in Trades \ {t} : SameRow(u)
        BY <1>1, <1>10 DEF FinalizeCompletion, AdvanceReview, SameRow, TypeOK
    <2>2. /\ status[t] = "pending_release" /\ status'[t] = "completed"
          /\ t \in External => payout[t] = "processing"
        BY <1>1, <1>9, <1>10 DEF FinalizeCompletion, CanComplete, TypeOK, Decided, Agreed, Owed
    <2> QED
        BY <2>1, <2>2, StageTable, StageTableNext DEF EvolvesAlone, Evolves, Passes
<1>11. CASE FinalizeDispute(r)
    <2>1. \A u \in Trades \ {t} : SameRow(u)
        BY <1>1, <1>11 DEF FinalizeDispute, SameRow, TypeOK
    <2>2. /\ status[t] = "disputed" /\ status'[t] = "resolved"
          /\ t \in External => resolution[t] # Null /\ resolution'[t] = resolution[t]
        BY <1>1, <1>9, <1>11
           DEF FinalizeDispute, CanResolve, TypeOK, Decided, Agreed, Owed, SellerDue, ShareOf
    <2> QED
        BY <2>1, <2>2, StageTable, StageTableNext DEF EvolvesAlone, Evolves, Passes
<1>12. CASE MarkRefunded(r)
    <2>1. \A u \in Trades \ {t} : SameRow(u)
        BY <1>1, <1>12 DEF MarkRefunded, SameRow, TypeOK
    <2>2. /\ status[t] = "cancelled" /\ status' = status /\ payout'[t] = "refunded"
          /\ t \in External => payout[t] \in {"processing", "refunded"}
        BY <1>1, <1>9, <1>12 DEF MarkRefunded, TypeOK, Decided, Agreed, Owed, RowsFit
    <2> QED
        BY <2>1, <2>2, StageTable, StageTableNext DEF EvolvesAlone, Evolves, Passes, Stays
<1>13. CASE \/ FindTradeChanged(r) \/ JoinConfirmation(r) \/ QueuePayout(r) \/ QueueRefund(r)
            \/ AwaitPayout(r) \/ AwaitRefund(r) \/ Fail(r)
    <2>1. \A u \in Trades : SameRow(u)
        BY <1>13 DEF FindTradeChanged, JoinConfirmation, QueuePayout, QueueRefund, AwaitPayout,
           AwaitRefund, Fail, tradeVars, SameRow
    <2> QED
        BY <2>1, SameStays DEF EvolvesAlone, Evolves
<1> QED
    BY <1>2, <1>3, <1>4, <1>5, <1>6, <1>7, <1>8, <1>10, <1>11, <1>12, <1>13 DEF Continues

AgreedStage == [t \in External |-> StageOf(t)]
AgreedShare == [t \in External |-> ShareOf(t)]

LEMMA AgreementStep ==
    ASSUME IInv, IInv', [Next]_vars
    PROVE  [Agreement!Next]_(Agreement!agreementVars)
<1>1. (\A u \in Trades : SameRow(u)) \/ \E t \in Trades : EvolvesAlone(t)
    <2>1. CASE OutboxStep \/ UNCHANGED vars
        BY <2>1 DEF OutboxStep, vars, tradeVars, SameRow
    <2> QED
        BY <2>1, TradeEvolves, BeginningEvolves, ContinuingEvolves DEF Next, Begins, Continues
<1>2. External \subseteq Trades
    BY Terms
<1>3. ASSUME \A u \in External : Stays(u)
      PROVE  UNCHANGED Agreement!agreementVars
    BY <1>3 DEF Stays, Agreement!agreementVars
<1>4. ASSUME \A u \in Trades : SameRow(u)
      PROVE  UNCHANGED Agreement!agreementVars
    BY <1>2, <1>3, <1>4, SameStays
<1>5. ASSUME NEW t \in External, EvolvesAlone(t)
      PROVE  [Agreement!Next]_(Agreement!agreementVars)
    <2>1. \A u \in External \ {t} : Stays(u)
        BY <1>2, <1>5, SameStays DEF EvolvesAlone
    <2>2. CASE Stays(t)
        BY <1>3, <2>1, <2>2
    <2>3. ASSUME NEW to, StageOf(t)' = to
          PROVE  AgreedStage' = [AgreedStage EXCEPT ![t] = to]
        BY <2>1, <2>3 DEF Stays, AgreedStage
    <2>4. ASSUME NEW from, NEW to, Passes(t, from, to)
          PROVE  /\ AgreedStage[t] \in from /\ AgreedStage' = [AgreedStage EXCEPT ![t] = to]
                 /\ AgreedShare' = AgreedShare
        BY <2>1, <2>3, <2>4 DEF Passes, Stays, AgreedStage, AgreedShare
    <2>5. ASSUME NEW from, NEW s, Decides(t, from, s)
          PROVE  /\ AgreedStage[t] \in from
                 /\ AgreedStage' = [AgreedStage EXCEPT ![t] = "decided"]
                 /\ AgreedShare' = [AgreedShare EXCEPT ![t] = s]
        BY <2>1, <2>3, <2>5 DEF Decides, Stays, AgreedStage, AgreedShare
    <2>6. CASE Passes(t, {"unpaid"}, "dropped")
        BY <2>4, <2>6 DEF AgreedStage, AgreedShare, Agreement!Next, Agreement!Drop, Agreement!Move
    <2>7. CASE Passes(t, {"unpaid"}, "held")
        BY <2>4, <2>7 DEF AgreedStage, AgreedShare, Agreement!Next, Agreement!Hold, Agreement!Move
    <2>8. CASE Passes(t, {"held"}, "contested")
        BY <2>4, <2>8 DEF AgreedStage, AgreedShare, Agreement!Next, Agreement!Contest, Agreement!Move
    <2>9. CASE Passes(t, {"decided"}, "closed")
        BY <2>4, <2>9 DEF AgreedStage, AgreedShare, Agreement!Next, Agreement!Close, Agreement!Move
    <2>10. CASE Passes(t, {"unpaid", "dropped"}, "owed")
        BY <2>4, <2>10 DEF AgreedStage, AgreedShare, Agreement!Next, Agreement!Owe, Agreement!Move
    <2>11. CASE Passes(t, {"owed"}, "returned")
        BY <2>4, <2>11 DEF AgreedStage, AgreedShare, Agreement!Next, Agreement!Return, Agreement!Move
    <2>12. CASE Decides(t, {"held"}, Price)
        BY <2>5, <2>12 DEF AgreedStage, AgreedShare, Agreement!Next, Agreement!Accept, Agreement!Move
    <2>13. CASE \E s \in 0 .. Price : Decides(t, {"contested"}, s)
        BY <2>5, <2>13 DEF AgreedStage, AgreedShare, Agreement!Next, Agreement!Arbitrate, Agreement!Move
    <2> QED
        BY <1>5, <2>2, <2>6, <2>7, <2>8, <2>9, <2>10, <2>11, <2>12, <2>13 DEF EvolvesAlone, Evolves
<1>6. ASSUME NEW t \in Trades \ External, EvolvesAlone(t)
      PROVE  UNCHANGED Agreement!agreementVars
    BY <1>2, <1>3, <1>6, SameStays DEF EvolvesAlone
<1> QED
    BY <1>1, <1>4, <1>5, <1>6

\* The confirm, dispute, resolve, fund and cancel routes and the cron together
\* implement EscrowAgreement: for a trade paid from outside the division of the
\* money is decided once, by whom it should be, and carried out as decided.
THEOREM TradesKeepTheAgreement == Spec => KeepsAgreement
<1>1. Init => Agreement!Init
    <2> SUFFICES ASSUME Init
                 PROVE  Agreement!Init
        OBVIOUS
    <2>1. \A t \in External : StageOf(t) = "unpaid" /\ ShareOf(t) = Null
        BY StageTable, Terms DEF Init
    <2> QED
        BY <2>1 DEF Agreement!Init
<1> QED
    BY <1>1, AgreementStep, SettlementIsInductive, PTL DEF Spec, KeepsAgreement, Agreement!Spec

=============================================================================
