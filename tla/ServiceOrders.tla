--------------------------- MODULE ServiceOrders ---------------------------
(***************************************************************************)
(* Service orders, the capacity they take at a provider and the provider's *)
(* attempt to execute them: lib/service-order-*.ts, lib/service-execution- *)
(* attempt.ts and the trade transitions that carry an order along.         *)
(*                                                                         *)
(* Every action is one database transaction.  What the requests around it  *)
(* read beforehand is read again, or put in the condition of the update,   *)
(* inside the transaction, so no request has a state of its own here; how  *)
(* requests overlap on a trade is the subject of TradeEscrow.              *)
(*                                                                         *)
(* The deadline of an attempt passes when it likes.  A heartbeat, which    *)
(* only puts off a deadline that has not passed, is therefore no action.   *)
(*                                                                         *)
(* EndsPaid and AcceptedEver are not part of the specification: each is a  *)
(* wrong variant of the definition after it.                               *)
(***************************************************************************)
EXTENDS Integers, FiniteSets

CONSTANTS
    Orders,         \* the orders ever placed
    Internal,       \* the orders paid from the ledger or from account credit
    Services,
    Leased,         \* the services whose provider protocol is leased_v1
    MaxConcurrency, \* service_definitions.max_concurrency
    Null

ASSUME OrdersAssumption ==
    /\ IsFiniteSet(Orders)
    /\ Internal \subseteq Orders
    /\ Leased \subseteq Services
    /\ MaxConcurrency \in [Services -> Nat \ {0}]
    /\ Null \notin Services \cup Orders

VARIABLES
    active,     \* service_definitions.active_orders
    order,      \* service_orders: state, service and capacity_released_at
    trade,      \* trades: status and payout_status, whether a payment is attached,
                \* and whether a resolution gave all of it back to the buyer
    attempt     \* service_execution_attempts: state, and whether the deadline it waits
                \* or works under has passed, or had when it ended

orderVars == <<active, order, trade, attempt>>

Open == {"pending", "escrow_held", "pending_release", "disputed"}
Status == Open \cup {"none", "cancelled", "completed", "resolved"}
Payout == {"pending", "processing", "complete", "refunded"}
OrderState == {"none", "awaiting_funding", "funded", "executing", "verifying",
               "completed", "cancelled", "disputed", "resolved"}
Waiting == {"queued", "accepted"}
Gone == {"declined", "acknowledgment_timed_out", "expired", "interrupted", "delivered"}

TypeOK ==
    /\ active \in [Services -> Nat]
    /\ order \in [Orders -> [state : OrderState, service : Services \cup {Null}, released : BOOLEAN]]
    /\ trade \in [Orders -> [status : Status, payout : Payout, paid : BOOLEAN, returned : BOOLEAN]]
    /\ attempt \in [Orders -> [state : {"none"} \cup Waiting \cup Gone, due : BOOLEAN]]

Init ==
    /\ active = [s \in Services |-> 0]
    /\ order = [o \in Orders |-> [state |-> "none", service |-> Null, released |-> FALSE]]
    /\ trade = [o \in Orders |-> [status |-> "none", payout |-> "pending",
                                  paid |-> FALSE, returned |-> FALSE]]
    /\ attempt = [o \in Orders |-> [state |-> "none", due |-> FALSE]]

-----------------------------------------------------------------------------
(* What every transition of a trade does to its order *)

\* The states of an order that give its capacity back.
EndsPaid == {"completed", "resolved"}
Ends == {"completed", "cancelled", "resolved"}

\* advanceServiceOrder on the order and its service.  An order that gave its
\* capacity back is never touched again; a service without an active order to
\* give back fails the transaction (SERVICE_CAPACITY_INVARIANT).
Advance(o, state) ==
    LET s == order[o].service IN
    IF order[o].released
    THEN UNCHANGED <<order, active>>
    ELSE /\ state \in Ends => active[s] > 0
         /\ order' = [order EXCEPT ![o].state = state, ![o].released = state \in Ends]
         /\ active' = [active EXCEPT ![s] = IF state \in Ends THEN @ - 1 ELSE @]

\* ... and, for a dispute or an end, on an attempt that is still under way: what
\* was overdue keeps its own reason, everything else was interrupted.
Ended(a) ==
    [a EXCEPT !.state =
        CASE a.state = "queued" /\ a.due -> "acknowledgment_timed_out"
          [] a.state = "accepted" /\ a.due -> "expired"
          [] a.state \in Waiting /\ ~ a.due -> "interrupted"
          [] OTHER -> a.state]

EndAttempt(o) == attempt' = [attempt EXCEPT ![o] = Ended(@)]

\* queueFundedWorkOrder: a leased service's order waits for its provider.
QueueAttempt(o, s) ==
    attempt' = IF s \in Leased THEN [attempt EXCEPT ![o].state = "queued"] ELSE attempt

Move(o, status) == trade' = [trade EXCEPT ![o].status = status]

-----------------------------------------------------------------------------
(* Reservation and funding *)

\* reserveServiceOrder: the capacity is claimed, trade and order are opened; an
\* order paid from the ledger or from credit is funded at once.
Reserve(o, s) ==
    LET paid == o \in Internal IN
    /\ trade[o].status = "none" /\ active[s] < MaxConcurrency[s]
    /\ active' = [active EXCEPT ![s] = @ + 1]
    /\ order' = [order EXCEPT ![o].service = s,
                              ![o].state = IF paid THEN "funded" ELSE "awaiting_funding"]
    /\ Move(o, IF paid THEN "escrow_held" ELSE "pending")
    /\ IF paid THEN QueueAttempt(o, s) ELSE UNCHANGED attempt

\* recordExternalTradeFunding: the payment is verified and the order eligible ...
Fund(o) ==
    /\ trade[o].status = "pending"
    /\ trade' = [trade EXCEPT ![o].status = "escrow_held", ![o].paid = TRUE]
    /\ Advance(o, "funded")
    /\ QueueAttempt(o, order[o].service)

\* ... or it is not, and the payment goes back.
RejectFunding(o) ==
    /\ trade[o].status = "pending"
    /\ trade' = [trade EXCEPT ![o].status = "cancelled", ![o].payout = "processing", ![o].paid = TRUE]
    /\ Advance(o, "cancelled")
    /\ EndAttempt(o)

\* expireTradePayment: for the buyer, for the cron, and for each overdue order
\* of a service before a new one is reserved.
Cancel(o) ==
    /\ trade[o].status = "pending"
    /\ Move(o, "cancelled")
    /\ Advance(o, "cancelled")
    /\ EndAttempt(o)

\* recordCancelledExternalFunding: the payment arrives after the end.
LatePayment(o) ==
    /\ trade[o].status = "cancelled" /\ ~ trade[o].paid
    /\ trade' = [trade EXCEPT ![o].payout = "processing", ![o].paid = TRUE]
    /\ UNCHANGED <<active, order, attempt>>

\* refundCancelledExternalTrade, once its transfer is confirmed.
Refund(o) ==
    /\ trade[o].status = "cancelled" /\ trade[o].payout = "processing"
    /\ trade' = [trade EXCEPT ![o].payout = "refunded"]
    /\ UNCHANGED <<active, order, attempt>>

-----------------------------------------------------------------------------
(* Execution *)

\* startServiceOrderExecution, for providers without a lease.
Start(o) ==
    /\ order[o].service \notin Leased
    /\ trade[o].status = "escrow_held" /\ order[o].state = "funded"
    /\ Advance(o, "executing")
    /\ UNCHANGED <<trade, attempt>>

\* changeServiceExecutionAttempt: the order is the provider's to execute.
Workable(o) ==
    /\ trade[o].status = "escrow_held" /\ ~ order[o].released
    /\ order[o].state \in {"funded", "executing"}

Answerable(o) == attempt[o].state = "queued" /\ ~ attempt[o].due

Accept(o) ==
    /\ Workable(o) /\ Answerable(o) /\ order[o].state = "funded"
    /\ attempt' = [attempt EXCEPT ![o] = [state |-> "accepted", due |-> FALSE]]
    /\ Advance(o, "executing")
    /\ UNCHANGED trade

Decline(o) ==
    /\ Workable(o) /\ Answerable(o) /\ order[o].state = "funded"
    /\ attempt' = [attempt EXCEPT ![o].state = "declined"]
    /\ UNCHANGED <<active, order, trade>>

\* The acknowledgment deadline or the lease runs out.
DeadlinePasses(o) ==
    /\ attempt[o].state \in Waiting /\ ~ attempt[o].due
    /\ attempt' = [attempt EXCEPT ![o].due = TRUE]
    /\ UNCHANGED <<active, order, trade>>

\* expireServiceAcknowledgmentAttempts
ExpireAcknowledgment(o) ==
    /\ attempt[o].state = "queued" /\ attempt[o].due
    /\ trade[o].status = "escrow_held" /\ order[o].state = "funded" /\ ~ order[o].released
    /\ attempt' = [attempt EXCEPT ![o].state = "acknowledgment_timed_out"]
    /\ UNCHANGED <<active, order, trade>>

\* expireServiceExecutionAttempts
ExpireLease(o) ==
    /\ attempt[o].state = "accepted" /\ attempt[o].due
    /\ attempt' = [attempt EXCEPT ![o].state = "expired"]
    /\ UNCHANGED <<active, order, trade>>

\* The lease of an accepted attempt still runs.
AcceptedEver(o) == attempt[o].state = "accepted"
Living(o) == attempt[o].state = "accepted" /\ ~ attempt[o].due

\* submitTradeDelivery: a leased order only through its living attempt.
Deliver(o) ==
    /\ trade[o].status = "escrow_held"
    /\ IF order[o].service \in Leased
       THEN /\ Living(o)
            /\ attempt' = [attempt EXCEPT ![o].state = "delivered"]
       ELSE UNCHANGED attempt
    /\ Move(o, "pending_release")
    /\ Advance(o, "verifying")

-----------------------------------------------------------------------------
(* Confirmation, dispute, resolution *)

\* confirmBuyerTrade or the auto-confirm cron claims an external settlement.
ClaimSettlement(o) ==
    /\ o \notin Internal
    /\ trade[o].status = "pending_release" /\ trade[o].payout = "pending"
    /\ trade' = [trade EXCEPT ![o].payout = "processing"]
    /\ UNCHANGED <<active, order, attempt>>

\* finalizeTradeCompletion
Complete(o) ==
    /\ trade[o].status = "pending_release"
    /\ o \notin Internal => trade[o].payout = "processing"
    /\ trade' = [trade EXCEPT ![o].status = "completed", ![o].payout = "complete"]
    /\ Advance(o, "completed")
    /\ EndAttempt(o)

\* The dispute route.
Dispute(o) ==
    /\ trade[o].status \in {"escrow_held", "pending_release"} /\ trade[o].payout # "processing"
    /\ Move(o, "disputed")
    /\ Advance(o, "disputed")
    /\ EndAttempt(o)

\* finalizeTradeDispute; an external division was paid out before.
Resolve(o, toBuyer) ==
    /\ trade[o].status = "disputed"
    /\ trade' = [trade EXCEPT ![o].status = "resolved", ![o].payout = "complete",
                              ![o].returned = toBuyer]
    /\ Advance(o, "resolved")
    /\ EndAttempt(o)

OrderStep(o) ==
    \/ \E s \in Services : Reserve(o, s)
    \/ Fund(o) \/ RejectFunding(o) \/ Cancel(o) \/ LatePayment(o) \/ Refund(o)
    \/ Start(o) \/ Accept(o) \/ Decline(o) \/ DeadlinePasses(o)
    \/ ExpireAcknowledgment(o) \/ ExpireLease(o) \/ Deliver(o)
    \/ ClaimSettlement(o) \/ Complete(o) \/ Dispute(o)
    \/ \E toBuyer \in BOOLEAN : Resolve(o, toBuyer)

Next == \E o \in Orders : OrderStep(o)

Spec == Init /\ [][Next]_orderVars

-----------------------------------------------------------------------------
(* What must hold *)

OpenAt(s) == {o \in Orders : order[o].service = s /\ trade[o].status \in Open}

\* A provider's counter is the number of its orders that can still cost it work,
\* whichever way the others ended, and never above its limit.
CapacityAddsUp ==
    \A s \in Services :
        /\ active[s] = Cardinality(OpenAt(s))
        /\ active[s] <= MaxConcurrency[s]

\* An order says of itself what its trade is (so reconcileTerminalServiceOrders
\* finds nothing), and the attempt tells how a leased order got there: it waits
\* or works only while the money is held; one that delivered, declined or was
\* interrupted had not run out of time, one called timed out or expired had
\* (changeServiceExecutionAttempt, submitTradeDelivery and advanceServiceOrder
\* against the clock).
OrderFollowsTrade ==
    \A o \in Orders :
        LET status == trade[o].status
            state == order[o].state
            work == attempt[o].state
        IN
        /\ order[o].released <=> status \in Ends
        /\ status = "pending" <=> state = "awaiting_funding"
        /\ status = "escrow_held" <=> state \in {"funded", "executing"}
        /\ status = "pending_release" <=> state = "verifying"
        /\ status \in Ends \cup {"disputed"} => state = status
        /\ work \in Waiting => status = "escrow_held"
        /\ work \in {"acknowledgment_timed_out", "expired"} => attempt[o].due
        /\ work \in {"delivered", "declined", "interrupted"} => ~ attempt[o].due
        /\ order[o].service \in Leased =>
               /\ state = "funded" => work \in {"queued", "declined", "acknowledgment_timed_out"}
               /\ state = "executing" => work \in {"accepted", "expired"}
               /\ state \in {"verifying", "completed"} => work = "delivered"
               /\ work = "delivered" => status \notin {"pending", "escrow_held", "cancelled"}

=============================================================================
