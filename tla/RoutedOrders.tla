---------------------------- MODULE RoutedOrders ----------------------------
(***************************************************************************)
(* A buyer's route: a plan with saved candidates, its execution, the       *)
(* mandate that may pay for it and the funded retry with another provider, *)
(* over the service orders of ServiceOrders, which other buyers use too    *)
(* (app/api/routes/**, lib/route-*.ts, and the route's part of             *)
(* lib/service-order-reservation.ts and lib/service-order-state.ts).       *)
(*                                                                         *)
(* The execute route awaits between its transactions, several requests may *)
(* execute the route at once, and each may die at any await: a request is  *)
(* a record of exec.  Everything else is one transaction that reads again  *)
(* what it depends on.  Each service has a seller of its own, so a service *)
(* that was tried stands for its provider.                                 *)
(*                                                                         *)
(* MandateUnchecked, ReconciledUnpaid, FollowsRaw and FollowsEnds are not  *)
(* part of the specification: each is a wrong variant of the definition    *)
(* after it.                                                               *)
(***************************************************************************)
EXTENDS ServiceOrders, Sequences, Functions

CONSTANTS
    Executors,      \* requests to execute the route, under way at once
    Candidates,     \* the plan's candidates, best first
    MaxAttempts,    \* retry_policy.max_attempts
    Price,          \* what a service costs the buyer, in minor units
    MaxAggregate,   \* the mandate's limits: in all, ...
    MaxRetryBudget, \* ... for the retries ...
    MaxSteps        \* ... and in attempts

ASSUME RouteAssumption ==
    /\ Candidates \in Seq(Services)
    /\ \A i, j \in DOMAIN Candidates : Candidates[i] = Candidates[j] => i = j
    /\ MaxAttempts \in 1 .. 3
    /\ Price \in [Services -> Nat]
    /\ MaxAggregate \in Nat /\ MaxRetryBudget \in Nat /\ MaxSteps \in 1 .. 3

VARIABLES
    route,      \* route_plans: state, service_order_id, and whether expires_at passed
    candidate,  \* route_attempts by attempt_number: state, service, service_order_id
    mandate,    \* route_payment_mandates: state and reserved_minor
    steps,      \* route_funding_steps and then route_retry_funding_steps
    exec        \* the requests that execute the route

routeVars == <<route, candidate, mandate, steps, exec>>
routedVars == <<orderVars, routeVars>>

Numbers == 1 .. MaxAttempts
Tries == {i \in Numbers : i <= Len(Candidates)}     \* the attempts of an execution
External == Orders \ Internal
Linked == {"awaiting_funding", "funded", "executing", "awaiting_buyer", "settling",
           "completed", "cancelled", "disputed", "resolved"}

Idle == [at |-> "idle", number |-> 1, seen |-> "planned", mandated |-> FALSE]

RoutedTypeOK ==
    /\ TypeOK
    /\ route \in [state : {"planned", "reserving", "failed"} \cup Linked,
                  order : External \cup {Null}, expired : BOOLEAN]
    /\ candidate \in [Numbers -> [state : {"none", "checking", "ineligible", "reserved"},
                                  service : Services \cup {Null}, order : External \cup {Null}]]
    /\ mandate \in [state : {"none", "active", "inactive"}, reserved : Nat]
    /\ steps \in Seq([order : External, amount : Nat, state : {"reserved", "funded", "rejected"}])
    /\ exec \in [Executors -> [at : {"idle", "claim", "begin", "reserve", "mark", "fail"},
                               number : 1 .. MaxAttempts + 1,
                               seen : {"planned", "reserving"}, mandated : BOOLEAN]]

RouteInit ==
    /\ Init
    /\ route = [state |-> "planned", order |-> Null, expired |-> FALSE]
    /\ candidate = [i \in Numbers |-> [state |-> "none", service |-> Null, order |-> Null]]
    /\ mandate = [state |-> "none", reserved |-> 0]
    /\ steps = <<>>
    /\ exec = [e \in Executors |-> Idle]

-----------------------------------------------------------------------------
(* The plan and its mandate *)

RouteExpires ==
    /\ ~ route.expired
    /\ route' = [route EXCEPT !.expired = TRUE]
    /\ UNCHANGED <<orderVars, candidate, mandate, steps, exec>>

\* DELETE of a plan nobody executes yet; with an order it is the order's Cancel.
CancelPlan ==
    /\ route.state = "planned"
    /\ route' = [route EXCEPT !.state = "cancelled"]
    /\ UNCHANGED <<orderVars, candidate, mandate, steps, exec>>

\* createRouteMandate: before anybody executes the plan.
CreateMandate ==
    /\ mandate.state = "none"
    /\ route.state = "planned" /\ route.order = Null /\ ~ route.expired
    /\ mandate' = [mandate EXCEPT !.state = "active"]
    /\ UNCHANGED <<orderVars, route, candidate, steps, exec>>

\* revokeRouteMandate, or the mandate expires, or its owner loses the buyer.
EndMandate ==
    /\ mandate.state = "active"
    /\ mandate' = [mandate EXCEPT !.state = "inactive"]
    /\ UNCHANGED <<orderVars, route, candidate, steps, exec>>

Mandated == mandate.state # "none"

\* reserveMandateExposure: an amount the mandate still covers, and its step.
Spent(from) == SumFunctionOnSet([i \in DOMAIN steps |-> steps[i].amount], from .. Len(steps))

ReserveExposure(o, amount, retry) ==
    /\ mandate.state = "active"
    /\ retry = (steps # <<>>) /\ Len(steps) < MaxSteps
    /\ retry => Spent(2) + amount <= MaxRetryBudget
    /\ amount <= MaxAggregate - mandate.reserved
    /\ mandate' = [mandate EXCEPT !.reserved = @ + amount]
    /\ steps' = Append(steps, [order |-> o, amount |-> amount, state |-> "reserved"])

\* The order becomes the route's, for the attempt with this number.
Link(o, number, s) ==
    /\ route' = [route EXCEPT !.state = "awaiting_funding", !.order = o]
    /\ candidate' = [candidate EXCEPT ![number] = [state |-> "reserved", service |-> s, order |-> o]]

-----------------------------------------------------------------------------
(* POST /api/routes/[id]/execute *)

Goto(e, at) == exec' = [exec EXCEPT ![e].at = at]
Proceed(e) == exec' = [exec EXCEPT ![e].at = "begin", ![e].seen = "planned"]
TryNext(e) == exec' = [exec EXCEPT ![e].at = "begin", ![e].number = @ + 1]
End(e) == exec' = [exec EXCEPT ![e] = Idle]

\* A route that was not linked by the time this is written has failed.
FailUnlinked ==
    route' = IF route.state = "reserving" THEN [route EXCEPT !.state = "failed"] ELSE route

\* The request reads the plan and the mandate, which it must name and which must
\* be active; a linked plan is only answered with its order.
StartExecution(e) ==
    /\ exec[e] = Idle
    /\ route.order = Null /\ route.state \in {"planned", "reserving"}
    /\ Mandated => mandate.state = "active"
    /\ exec' = [exec EXCEPT ![e] = [Idle EXCEPT !.at = "claim", !.seen = route.state,
                                                !.mandated = Mandated]]
    /\ UNCHANGED <<orderVars, route, candidate, mandate, steps>>

\* An expired plan fails if it still is what was read; a plan read as planned is
\* claimed, by this request or by another one; then the candidates are tried.
ClaimRoute(e) ==
    /\ exec[e].at = "claim"
    /\ \/ /\ route.expired
          /\ route' = IF route.state = exec[e].seen THEN [route EXCEPT !.state = "failed"] ELSE route
          /\ End(e)
       \/ /\ ~ route.expired /\ exec[e].seen = "planned" /\ route.state = "planned"
          /\ route' = [route EXCEPT !.state = "reserving"]
          /\ Proceed(e)
       \/ /\ ~ route.expired /\ exec[e].seen = "planned" /\ route.state # "planned"
          /\ IF route.state = "reserving" THEN Proceed(e) ELSE End(e)
          /\ UNCHANGED route
       \/ /\ ~ route.expired /\ exec[e].seen = "reserving"
          /\ Proceed(e)
          /\ UNCHANGED route
    /\ UNCHANGED <<orderVars, candidate, mandate, steps>>

\* beginRouteAttempt: the attempt is inserted, or found as another request left it.
BeginAttempt(e) ==
    LET i == exec[e].number
        found == candidate[i]
    IN
    /\ exec[e].at = "begin" /\ i \in Tries
    /\ candidate' = [candidate EXCEPT ![i] =
           IF @.state = "none" THEN [@ EXCEPT !.state = "checking", !.service = Candidates[i]] ELSE @]
    /\ IF found.state = "none" THEN Goto(e, "reserve")
       ELSE IF found.service # Candidates[i] \/ found.state = "reserved" THEN End(e)
       ELSE IF found.state = "checking" THEN Goto(e, "reserve")
       ELSE TryNext(e)
    /\ UNCHANGED <<orderVars, route, mandate, steps>>

\* No candidate is left.
Exhaust(e) ==
    /\ exec[e].at = "begin" /\ exec[e].number \notin Tries
    /\ FailUnlinked
    /\ End(e)
    /\ UNCHANGED <<orderVars, candidate, mandate, steps>>

\* reserveServiceOrder for the route.  The transaction looks again whether the
\* route is still to be reserved, whether it got a mandate in the meantime and
\* whether the attempt is still open; all of it is committed or nothing.
MandateUnchecked(e) == TRUE
MandateNamed(e) == Mandated => exec[e].mandated

ReserveForRoute(e, o) ==
    LET i == exec[e].number
        s == Candidates[i]
    IN
    /\ exec[e].at = "reserve" /\ o \in External
    /\ route.state = "reserving" /\ route.order = Null /\ ~ route.expired
    /\ MandateNamed(e)
    /\ candidate[i].state = "checking"
    /\ Reserve(o, s)
    /\ IF exec[e].mandated THEN ReserveExposure(o, Price[s], FALSE) ELSE UNCHANGED <<mandate, steps>>
    /\ Link(o, i, s)
    /\ End(e)

\* The reservation is refused: for a reason of the provider's, and the next one is
\* tried, or for another, and the route fails.
Refuse(e) ==
    /\ exec[e].at = "reserve"
    /\ \E at \in {"mark", "fail"} : Goto(e, at)
    /\ UNCHANGED <<orderVars, route, candidate, mandate, steps>>

\* markRouteAttemptIneligible
MarkIneligible(e) ==
    LET i == exec[e].number IN
    /\ exec[e].at = "mark"
    /\ candidate' = [candidate EXCEPT ![i].state = IF @ = "checking" THEN "ineligible" ELSE @]
    /\ TryNext(e)
    /\ UNCHANGED <<orderVars, route, mandate, steps>>

FailRoute(e) ==
    /\ exec[e].at = "fail"
    /\ FailUnlinked
    /\ End(e)
    /\ UNCHANGED <<orderVars, candidate, mandate, steps>>

\* The process dies, or the request ends on an error that changes nothing or on
\* the order another request reserved.
Crash(e) ==
    /\ exec[e] # Idle
    /\ End(e)
    /\ UNCHANGED <<orderVars, route, candidate, mandate, steps>>

-----------------------------------------------------------------------------
(* reserveFundedRouteRetry *)

\* inspectAttemptReconciliation: the payment is there and all of it went back.
ReconciledUnpaid(o) ==
    \/ trade[o].status = "cancelled" /\ (trade[o].paid => trade[o].payout = "refunded")
    \/ trade[o].status = "resolved" /\ trade[o].returned
Reconciled(o) ==
    /\ trade[o].paid /\ order[o].released
    /\ \/ trade[o].status = "cancelled" /\ trade[o].payout = "refunded"
       \/ trade[o].status = "resolved" /\ trade[o].returned

Tried == {i \in Numbers : candidate[i].state # "none"}

\* The next attempt, with a provider that was not tried, under the same mandate.
Retry(o, s) ==
    LET number == Cardinality(Tried) + 1 IN
    /\ o \in External
    /\ s \in {Candidates[i] : i \in DOMAIN Candidates} \ {candidate[i].service : i \in Tried}
    /\ route.state \in {"cancelled", "resolved"} /\ route.order # Null /\ ~ route.expired
    /\ number \in Numbers
    /\ steps # <<>> /\ \A i \in DOMAIN steps : Reconciled(steps[i].order)
    /\ Reserve(o, s)
    /\ ReserveExposure(o, Price[s], TRUE)
    /\ Link(o, number, s)
    /\ UNCHANGED exec

-----------------------------------------------------------------------------
(* The transitions of an order, with what they do to its route *)

\* advanceServiceOrder: the route follows the order it is linked to.
FollowsRaw(o, state) ==
    route' = IF route.order = o THEN [route EXCEPT !.state = state] ELSE route
FollowsEnds(o, state) ==
    route' = IF route.order = o /\ state \notin {"executing", "disputed"}
             THEN [route EXCEPT !.state = IF state = "verifying" THEN "awaiting_buyer" ELSE state]
             ELSE route
Follow(o, state) ==
    route' = IF route.order = o
             THEN [route EXCEPT !.state = IF state = "verifying" THEN "awaiting_buyer" ELSE state]
             ELSE route

\* recordMandateFunding
RecordFunding(o, state) ==
    steps' = [i \in DOMAIN steps |->
                 IF steps[i].order = o THEN [steps[i] EXCEPT !.state = state] ELSE steps[i]]

\* mandateFundingEligibility: a step of an active mandate for the linked order, or
\* neither a step nor a mandate.
Covered(o) ==
    \/ /\ mandate.state = "active" /\ route.order = o
       /\ \E i \in DOMAIN steps : steps[i].order = o /\ steps[i].state = "reserved"
    \/ /\ \A i \in DOMAIN steps : steps[i].order # o
       /\ route.order = o => ~ Mandated

FundOrder(o) ==
    /\ Fund(o) /\ Covered(o)
    /\ Follow(o, "funded") /\ RecordFunding(o, "funded")
    /\ UNCHANGED <<candidate, mandate, exec>>

RejectOrderFunding(o) ==
    /\ RejectFunding(o)
    /\ Follow(o, "cancelled") /\ RecordFunding(o, "rejected")
    /\ UNCHANGED <<candidate, mandate, exec>>

LateOrderPayment(o) ==
    /\ LatePayment(o)
    /\ RecordFunding(o, "rejected")
    /\ UNCHANGED <<route, candidate, mandate, exec>>

\* The buyer's claim shows on the route, the timer's does not.
ConfirmOrder(o) ==
    /\ ClaimSettlement(o)
    /\ route' = IF route.order = o THEN [route EXCEPT !.state = "settling"] ELSE route
    /\ UNCHANGED <<candidate, mandate, steps, exec>>

AdvanceRoute(o) ==
    /\ \/ Cancel(o) /\ Follow(o, "cancelled")
       \/ Start(o) /\ Follow(o, "executing")
       \/ Accept(o) /\ Follow(o, "executing")
       \/ Deliver(o) /\ Follow(o, "verifying")
       \/ Complete(o) /\ Follow(o, "completed")
       \/ Dispute(o) /\ Follow(o, "disputed")
       \/ \E toBuyer \in BOOLEAN : Resolve(o, toBuyer) /\ Follow(o, "resolved")
    /\ UNCHANGED <<candidate, mandate, steps, exec>>

\* What happens to an order beside its route, and to the orders of other buyers.
BesideRoute(o) ==
    /\ \/ \E s \in Services : Reserve(o, s)
       \/ Refund(o) \/ Decline(o) \/ DeadlinePasses(o)
       \/ ExpireAcknowledgment(o) \/ ExpireLease(o) \/ ClaimSettlement(o)
    /\ UNCHANGED routeVars

RouteNext ==
    \/ RouteExpires \/ CancelPlan \/ CreateMandate \/ EndMandate
    \/ \E e \in Executors :
        \/ StartExecution(e) \/ ClaimRoute(e) \/ BeginAttempt(e) \/ Exhaust(e)
        \/ \E o \in Orders : ReserveForRoute(e, o)
        \/ Refuse(e) \/ MarkIneligible(e) \/ FailRoute(e) \/ Crash(e)
    \/ \E o \in Orders :
        \/ \E s \in Services : Retry(o, s)
        \/ FundOrder(o) \/ RejectOrderFunding(o) \/ LateOrderPayment(o)
        \/ ConfirmOrder(o) \/ AdvanceRoute(o) \/ BesideRoute(o)

RoutedSpec == RouteInit /\ [][RouteNext]_routedVars

-----------------------------------------------------------------------------
(* What must hold *)

Routed == {candidate[i].order : i \in Numbers} \ {Null}

\* The route tells the buyer what its order does, however requests raced to
\* execute it: no attempt leaves an order behind that is open beside the linked
\* one, and a failed route has none.
RouteFollowsOrder ==
    /\ route.order = Null <=> Routed = {}
    /\ route.order = Null => route.state \in {"planned", "reserving", "cancelled", "failed"}
    /\ route.order # Null =>
           \/ route.state = order[route.order].state
           \/ route.state = "awaiting_buyer" /\ order[route.order].state = "verifying"
           \/ /\ route.state = "settling" /\ order[route.order].state = "verifying"
              /\ trade[route.order].payout = "processing"
    /\ \A o \in Routed : o = route.order \/ trade[o].status \in Ends

\* The mandate's books: what it reserved is what its steps cost, within its
\* limits; and no order of a route with a mandate escapes them, also when the
\* mandate came while the route was being executed.
MandateBooks ==
    /\ mandate.reserved = Spent(1) /\ mandate.reserved <= MaxAggregate
    /\ Spent(2) <= MaxRetryBudget /\ Len(steps) <= MaxSteps
    /\ {steps[i].order : i \in DOMAIN steps} = IF Mandated THEN Routed ELSE {}
    /\ Len(steps) = Cardinality({steps[i].order : i \in DOMAIN steps})

\* Whatever is retried and however late a payment comes, at most one payment of
\* the route is out at a time: an earlier one came and returned completely before
\* the next order existed.
Returned(o) == trade[o].payout = "refunded" \/ trade[o].returned

OnePaymentOut ==
    /\ Cardinality({o \in Routed : trade[o].paid /\ ~ Returned(o)}) <= 1
    /\ \A o \in Routed \ {route.order} : trade[o].paid /\ Returned(o)

=============================================================================
