------------------------- MODULE RoutedOrders_proofs -------------------------
(***************************************************************************)
(* First the service orders of ServiceOrders: a provider's counter adds    *)
(* up, and every order says of itself what its trade is, for any number of *)
(* orders, services and any capacities.  The argument: one transaction     *)
(* changes the rows of one order.  Whatever the transition, the new rows   *)
(* fit together (RowsFit), and the counter of the order's service moves    *)
(* exactly when the order becomes open or stops being open.                *)
(*                                                                         *)
(* Then the routes of RoutedOrders.  A route is only another client of the *)
(* service orders: whatever is executed, retried and refused, RoutedSpec   *)
(* implements the specification of the orders.  On top of that, a route    *)
(* tells what its order does, has at most one payment out, and its         *)
(* mandate's books add up, for any number of candidates, executors and     *)
(* orders of other buyers.                                                 *)
(***************************************************************************)
EXTENDS RoutedOrders, SumLemmas

OrderRow == [state : OrderState, service : Services \cup {Null}, released : BOOLEAN]
TradeRow == [status : Status, payout : Payout, paid : BOOLEAN, returned : BOOLEAN]
AttemptRow == [state : {"none"} \cup Waiting \cup Gone, due : BOOLEAN]

\* An attempt that is over is called late exactly when it was.
Timely(a) ==
    /\ a.state \in {"acknowledgment_timed_out", "expired"} => a.due
    /\ a.state \in {"delivered", "declined", "interrupted"} => ~a.due

\* The rows of one order fit together: what OrderFollowsTrade says, and that an
\* order has a service from the start and an attempt only if that is leased.
RowsFit(r, t, a) ==
    /\ r \in OrderRow /\ t \in TradeRow /\ a \in AttemptRow
    /\ t.status = "none" => r.state = "none" /\ a.state = "none"
    /\ t.status # "none" => r.service \in Services
    /\ r.service \notin Leased => a.state = "none"
    /\ r.released <=> t.status \in Ends
    /\ t.status = "pending" <=> r.state = "awaiting_funding"
    /\ t.status = "escrow_held" <=> r.state \in {"funded", "executing"}
    /\ t.status = "pending_release" <=> r.state = "verifying"
    /\ t.status \in Ends \cup {"disputed"} => r.state = t.status
    /\ a.state \in Waiting => t.status = "escrow_held"
    /\ Timely(a)
    /\ r.service \in Leased =>
           /\ r.state = "funded" => a.state \in {"queued", "declined", "acknowledgment_timed_out"}
           /\ r.state = "executing" => a.state \in {"accepted", "expired"}
           /\ r.state \in {"verifying", "completed"} => a.state = "delivered"
           /\ a.state = "delivered" => t.status \notin {"pending", "escrow_held", "cancelled"}

Fits(o) == RowsFit(order[o], trade[o], attempt[o])

IInv ==
    /\ TypeOK
    /\ \A o \in Orders : Fits(o)
    /\ CapacityAddsUp

\* A step changes the rows of one order only, ...
Changes(o) ==
    /\ order' = [order EXCEPT ![o] = order'[o]]
    /\ trade' = [trade EXCEPT ![o] = trade'[o]]
    /\ attempt' = [attempt EXCEPT ![o] = attempt'[o]]

\* ... and the counter of its service as the order opens or ends.
Kept(o) ==
    /\ active' = active
    /\ order'[o].service = order[o].service
    /\ trade'[o].status \in Open <=> trade[o].status \in Open
Taken(o, s) ==
    /\ active[s] < MaxConcurrency[s] /\ active' = [active EXCEPT ![s] = @ + 1]
    /\ order'[o].service = s
    /\ trade[o].status \notin Open /\ trade'[o].status \in Open
GivenBack(o) ==
    /\ order[o].service \in Services /\ active[order[o].service] > 0
    /\ active' = [active EXCEPT ![order[o].service] = @ - 1]
    /\ trade[o].status \in Open /\ trade'[o].status \notin Open

OneOrder(o) ==
    /\ Changes(o)
    /\ RowsFit(order'[o], trade'[o], attempt'[o])
    /\ Kept(o) \/ GivenBack(o) \/ \E s \in Services : Taken(o, s)

-----------------------------------------------------------------------------

\* The orders open at a service are finitely many.
LEMMA OpenAreFinite ==
    ASSUME NEW s
    PROVE  IsFiniteSet(OpenAt(s)) /\ Cardinality(OpenAt(s)) \in Nat
<1>1. OpenAt(s) \in SUBSET Orders
    BY DEF OpenAt
<1> QED
    BY <1>1, OrdersAssumption, FS_Subset, FS_CardinalityType

\* A step on one order keeps the types and every order's rows fitting.
LEMMA RowsKept ==
    ASSUME IInv, NEW o \in Orders, OneOrder(o)
    PROVE  /\ order' \in [Orders -> OrderRow]
           /\ trade' \in [Orders -> TradeRow]
           /\ attempt' \in [Orders -> AttemptRow]
           /\ \A p \in Orders : RowsFit(order'[p], trade'[p], attempt'[p])
           /\ \A p \in Orders \ {o} : order'[p] = order[p] /\ trade'[p] = trade[p]
<1>1. /\ order \in [Orders -> OrderRow] /\ trade \in [Orders -> TradeRow]
      /\ attempt \in [Orders -> AttemptRow]
    BY DEF IInv, TypeOK, OrderRow, TradeRow, AttemptRow
<1>2. order'[o] \in OrderRow /\ trade'[o] \in TradeRow /\ attempt'[o] \in AttemptRow
    BY DEF OneOrder, RowsFit
<1>3. /\ order' \in [Orders -> OrderRow] /\ trade' \in [Orders -> TradeRow]
      /\ attempt' \in [Orders -> AttemptRow]
    BY <1>1, <1>2 DEF OneOrder, Changes
<1>4. \A p \in Orders \ {o} :
          order'[p] = order[p] /\ trade'[p] = trade[p] /\ attempt'[p] = attempt[p]
    BY <1>1 DEF OneOrder, Changes
<1>5. \A p \in Orders : RowsFit(order[p], trade[p], attempt[p])
    BY DEF IInv, Fits
<1>6. \A p \in Orders : RowsFit(order'[p], trade'[p], attempt'[p])
    BY <1>4, <1>5 DEF OneOrder
<1> QED
    BY <1>3, <1>4, <1>6

\* A step on one order keeps the counters right.
LEMMA CountersKept ==
    ASSUME IInv, NEW o \in Orders, OneOrder(o)
    PROVE  active' \in [Services -> Nat] /\ CapacityAddsUp'
<1>1. active \in [Services -> Nat] /\ MaxConcurrency \in [Services -> Nat \ {0}]
    BY OrdersAssumption DEF IInv, TypeOK
<1>2. \A p \in Orders \ {o} : order'[p] = order[p] /\ trade'[p] = trade[p]
    BY RowsKept
<1>3. \A s \in Services : active[s] = Cardinality(OpenAt(s)) /\ active[s] <= MaxConcurrency[s]
    BY DEF IInv, CapacityAddsUp
<1>4. CASE Kept(o)
    <2>1. \A s \in Services : OpenAt(s)' = OpenAt(s)
        BY <1>2, <1>4 DEF OpenAt, Kept
    <2> QED
        BY <1>1, <1>3, <1>4, <2>1 DEF Kept, CapacityAddsUp
<1>5. ASSUME NEW at \in Services, at = order[o].service, GivenBack(o)
      PROVE  active' \in [Services -> Nat] /\ CapacityAddsUp'
    <2>1. o \in OpenAt(at) /\ OpenAt(at)' = OpenAt(at) \ {o}
        BY <1>2, <1>5 DEF OpenAt, GivenBack
    <2>2. \A s \in Services \ {at} : OpenAt(s)' = OpenAt(s)
        BY <1>2, <1>5 DEF OpenAt, GivenBack
    <2>3. Cardinality(OpenAt(at) \ {o}) = Cardinality(OpenAt(at)) - 1
        BY <2>1, OpenAreFinite, FS_RemoveElement
    <2>4. at \in Services /\ active' = [active EXCEPT ![at] = @ - 1] /\ active[at] > 0
        BY <1>5 DEF GivenBack
    <2>5. \A s \in Services : active'[s] = Cardinality(OpenAt(s)')
        BY <1>1, <1>3, <2>1, <2>2, <2>3, <2>4
    <2> QED
        BY <1>1, <1>3, <2>4, <2>5 DEF CapacityAddsUp
<1>6. ASSUME NEW at \in Services, Taken(o, at)
      PROVE  active' \in [Services -> Nat] /\ CapacityAddsUp'
    <2>1. o \notin OpenAt(at) /\ OpenAt(at)' = OpenAt(at) \cup {o}
        BY <1>2, <1>6 DEF OpenAt, Taken
    <2>2. \A s \in Services \ {at} : OpenAt(s)' = OpenAt(s)
        BY <1>2, <1>6 DEF OpenAt, Taken
    <2>3. Cardinality(OpenAt(at) \cup {o}) = Cardinality(OpenAt(at)) + 1
        BY <2>1, OpenAreFinite, FS_AddElement
    <2>4. active' = [active EXCEPT ![at] = @ + 1] /\ active[at] < MaxConcurrency[at]
        BY <1>6 DEF Taken
    <2>5. \A s \in Services : active'[s] = Cardinality(OpenAt(s)')
        BY <1>1, <1>3, <2>1, <2>2, <2>3, <2>4
    <2> QED
        BY <1>1, <1>3, <2>4, <2>5 DEF CapacityAddsUp
<1> QED
    BY <1>4, <1>5, <1>6 DEF OneOrder, GivenBack

LEMMA OneOrderKeepsIInv ==
    ASSUME IInv, NEW o \in Orders, OneOrder(o)
    PROVE  IInv'
<1>1. TypeOK'
    BY RowsKept, CountersKept DEF TypeOK, OrderRow, TradeRow, AttemptRow
<1>2. \A p \in Orders : Fits(p)'
    BY RowsKept DEF Fits
<1> QED
    BY <1>1, <1>2, CountersKept DEF IInv

-----------------------------------------------------------------------------

LEMMA InitIInv == Init => IInv
<1> SUFFICES ASSUME Init PROVE IInv
    OBVIOUS
<1>1. TypeOK
    BY DEF Init, TypeOK, OrderState, Status, Payout, Open
<1>2. \A o \in Orders : Fits(o)
    BY DEF Init, Fits, RowsFit, Timely, OrderRow, TradeRow, AttemptRow, OrderState, Status, Payout, Open,
           Ends, Waiting
<1>3. \A s \in Services : OpenAt(s) = {}
    BY DEF Init, OpenAt, Open
<1>4. \A s \in Services : active[s] = 0 /\ MaxConcurrency[s] \in Nat
    BY OrdersAssumption DEF Init
<1>5. CapacityAddsUp
    BY <1>3, <1>4, FS_EmptySet DEF CapacityAddsUp
<1> QED
    BY <1>1, <1>2, <1>5 DEF IInv

\* What is known of one order before a step.
LEMMA Before ==
    ASSUME IInv, NEW o \in Orders
    PROVE  /\ RowsFit(order[o], trade[o], attempt[o])
           /\ order \in [Orders -> OrderRow] /\ trade \in [Orders -> TradeRow]
           /\ attempt \in [Orders -> AttemptRow]
BY DEF IInv, Fits, TypeOK, OrderRow, TradeRow, AttemptRow

\* advanceServiceOrder on an order that is open.
LEMMA AdvanceOpen ==
    ASSUME IInv, NEW o \in Orders, trade[o].status \in Open, NEW state, Advance(o, state)
    PROVE  /\ order' = [order EXCEPT ![o] = [state |-> state, service |-> order[o].service,
                                             released |-> state \in Ends]]
           /\ order[o].service \in Services
           /\ state \notin Ends => active' = active
           /\ state \in Ends => /\ active[order[o].service] > 0
                                /\ active' = [active EXCEPT ![order[o].service] = @ - 1]
<1>1. RowsFit(order[o], trade[o], attempt[o]) /\ order \in [Orders -> OrderRow]
    BY Before
<1>2. ~ order[o].released /\ order[o].service \in Services
    BY <1>1 DEF RowsFit, Open, Ends, TradeRow, OrderRow
<1>3. order' = [order EXCEPT ![o].state = state, ![o].released = state \in Ends]
    BY <1>2 DEF Advance
<1>4. order[o] \in OrderRow
    BY <1>1
<1>5. order'[o] = [state |-> state, service |-> order[o].service, released |-> state \in Ends]
    BY <1>1, <1>3, <1>4 DEF OrderRow
<1>6. order' = [order EXCEPT ![o] = order'[o]]
    BY <1>1, <1>3
<1>7. active \in [Services -> Nat]
    BY DEF IInv, TypeOK
<1>8. active' = [active EXCEPT ![order[o].service] = IF state \in Ends THEN @ - 1 ELSE @]
      /\ (state \in Ends => active[order[o].service] > 0)
    BY <1>2 DEF Advance
<1> QED
    BY <1>2, <1>5, <1>6, <1>7, <1>8

\* What a dispute or an end does to an attempt.
LEMMA EndedAttempt ==
    ASSUME NEW a \in AttemptRow
    PROVE  /\ Ended(a) \in AttemptRow
           /\ a.state \in Waiting =>
                  Ended(a).state \in {"acknowledgment_timed_out", "expired", "interrupted"}
           /\ a.state \notin Waiting => Ended(a).state = a.state
           /\ Timely(a) => Timely(Ended(a))
<1>1. CASE a.state = "queued"
    BY <1>1 DEF AttemptRow, Ended, Waiting, Gone, Timely
<1>2. CASE a.state = "accepted"
    BY <1>2 DEF AttemptRow, Ended, Waiting, Gone, Timely
<1>3. CASE a.state \notin Waiting
  <2>1. Ended(a) = a
      BY <1>3 DEF AttemptRow, Ended, Waiting
  <2> QED
      BY <1>3, <2>1
<1> QED
    BY <1>1, <1>2, <1>3 DEF Waiting

-----------------------------------------------------------------------------
(* Reservation and funding *)

LEMMA ReserveStep ==
    ASSUME IInv, NEW o \in Orders, NEW s \in Services, Reserve(o, s)
    PROVE  OneOrder(o)
<1> DEFINE paid == o \in Internal
<1>1. /\ RowsFit(order[o], trade[o], attempt[o])
      /\ order \in [Orders -> OrderRow] /\ trade \in [Orders -> TradeRow]
      /\ attempt \in [Orders -> AttemptRow] /\ active \in [Services -> Nat]
    BY Before DEF IInv, TypeOK
<1>2. order[o] \in OrderRow /\ trade[o] \in TradeRow /\ attempt[o] \in AttemptRow
    BY <1>1
<1>3. /\ order[o].state = "none" /\ ~ order[o].released /\ attempt[o].state = "none"
      /\ trade[o].status = "none"
    BY <1>1, <1>2 DEF RowsFit, Reserve, Ends, OrderRow, TradeRow
<1>4. order'[o] = [state |-> IF paid THEN "funded" ELSE "awaiting_funding", service |-> s,
                   released |-> FALSE]
    BY <1>1, <1>2, <1>3 DEF Reserve, OrderRow
<1>5. trade'[o] = [trade[o] EXCEPT !.status = IF paid THEN "escrow_held" ELSE "pending"]
    BY <1>1 DEF Reserve, Move
<1>6. attempt'[o] = IF paid /\ s \in Leased THEN [attempt[o] EXCEPT !.state = "queued"] ELSE attempt[o]
    BY <1>1 DEF Reserve, QueueAttempt
<1>7. Changes(o)
    BY <1>1 DEF Changes, Reserve, Move, QueueAttempt
<1>8. RowsFit(order'[o], trade'[o], attempt'[o])
    BY <1>2, <1>3, <1>4, <1>5, <1>6
    DEF RowsFit, Timely, OrderRow, TradeRow, AttemptRow, OrderState, Status, Open, Ends, Waiting, Gone
<1>9. Taken(o, s)
    BY <1>2, <1>3, <1>4, <1>5 DEF Taken, Reserve, Open, TradeRow
<1> QED
    BY <1>7, <1>8, <1>9 DEF OneOrder

LEMMA FundStep ==
    ASSUME IInv, NEW o \in Orders, Fund(o)
    PROVE  OneOrder(o)
<1>1. /\ RowsFit(order[o], trade[o], attempt[o])
      /\ order \in [Orders -> OrderRow] /\ trade \in [Orders -> TradeRow]
      /\ attempt \in [Orders -> AttemptRow]
    BY Before
<1>2. order[o] \in OrderRow /\ trade[o] \in TradeRow /\ attempt[o] \in AttemptRow
    BY <1>1
<1>3. trade[o].status \in Open
    BY DEF Fund, Open
<1>4. /\ order' = [order EXCEPT ![o] = [state |-> "funded", service |-> order[o].service,
                                       released |-> "funded" \in Ends]]
      /\ order[o].service \in Services
      /\ "funded" \notin Ends => active' = active
      /\ "funded" \in Ends => /\ active[order[o].service] > 0
                             /\ active' = [active EXCEPT ![order[o].service] = @ - 1]
    BY <1>3, AdvanceOpen DEF Fund
<1>5. trade' = [trade EXCEPT ![o] = trade'[o]] /\ trade'[o] = [trade[o] EXCEPT !.status = "escrow_held", !.paid = TRUE]
    BY <1>1 DEF Fund, Move
<1>6. attempt' = [attempt EXCEPT ![o] = attempt'[o]] /\ attempt'[o] = IF order[o].service \in Leased THEN [attempt[o] EXCEPT !.state = "queued"] ELSE attempt[o]
    BY <1>1 DEF Fund, EndAttempt, QueueAttempt
<1>7. Changes(o)
    BY <1>1, <1>4, <1>5, <1>6 DEF Changes
<1>8. RowsFit(order'[o], trade'[o], attempt'[o])
  <2>1. trade'[o] \in TradeRow /\ trade'[o].status = "escrow_held"
    BY <1>2, <1>5 DEF TradeRow, Status, Open
  <2>2. /\ order'[o] \in OrderRow /\ order'[o].state = "funded"
        /\ order'[o].service = order[o].service /\ order'[o].released = ("funded" \in Ends)
    BY <1>1, <1>4 DEF OrderRow, OrderState
  <2>3. /\ attempt'[o] \in AttemptRow
        /\ order[o].service \in Leased => attempt'[o].state = "queued"
        /\ order[o].service \notin Leased => attempt'[o].state = "none"
        /\ Timely(attempt'[o])
    BY <1>1, <1>2, <1>6 DEF AttemptRow, RowsFit, Waiting, Timely
  <2> QED
    BY <1>4, <2>1, <2>2, <2>3 DEF RowsFit, Ends, Waiting
<1>9. Kept(o)
    BY <1>1, <1>2, <1>4, <1>5 DEF Fund, Kept, Open, Ends, TradeRow, OrderRow
<1> QED
    BY <1>7, <1>8, <1>9 DEF OneOrder

LEMMA RejectFundingStep ==
    ASSUME IInv, NEW o \in Orders, RejectFunding(o)
    PROVE  OneOrder(o)
<1>1. /\ RowsFit(order[o], trade[o], attempt[o])
      /\ order \in [Orders -> OrderRow] /\ trade \in [Orders -> TradeRow]
      /\ attempt \in [Orders -> AttemptRow]
    BY Before
<1>2. order[o] \in OrderRow /\ trade[o] \in TradeRow /\ attempt[o] \in AttemptRow
    BY <1>1
<1>3. trade[o].status \in Open
    BY DEF RejectFunding, Open
<1>4. /\ order' = [order EXCEPT ![o] = [state |-> "cancelled", service |-> order[o].service,
                                       released |-> "cancelled" \in Ends]]
      /\ order[o].service \in Services
      /\ "cancelled" \notin Ends => active' = active
      /\ "cancelled" \in Ends => /\ active[order[o].service] > 0
                             /\ active' = [active EXCEPT ![order[o].service] = @ - 1]
    BY <1>3, AdvanceOpen DEF RejectFunding
<1>5. trade' = [trade EXCEPT ![o] = trade'[o]] /\ trade'[o] = [trade[o] EXCEPT !.status = "cancelled", !.payout = "processing", !.paid = TRUE]
    BY <1>1 DEF RejectFunding, Move
<1>6. attempt' = [attempt EXCEPT ![o] = attempt'[o]] /\ attempt'[o] = Ended(attempt[o])
    BY <1>1 DEF RejectFunding, EndAttempt, QueueAttempt
<1>7. Changes(o)
    BY <1>1, <1>4, <1>5, <1>6 DEF Changes
<1>8. RowsFit(order'[o], trade'[o], attempt'[o])
  <2>1. trade'[o] \in TradeRow /\ trade'[o].status = "cancelled"
    BY <1>2, <1>5 DEF TradeRow, Status, Payout
  <2>2. /\ order'[o] \in OrderRow /\ order'[o].state = "cancelled"
        /\ order'[o].service = order[o].service /\ order'[o].released = ("cancelled" \in Ends)
    BY <1>1, <1>4 DEF OrderRow, OrderState
  <2>3. trade[o].status = "pending" /\ attempt[o].state \notin Waiting
    BY <1>1, <1>3 DEF RejectFunding, RowsFit
  <2>4. attempt'[o] \in AttemptRow /\ attempt'[o].state = attempt[o].state
        /\ Timely(attempt'[o])
    BY <1>1, <1>2, <1>6, <2>3, EndedAttempt DEF RowsFit
  <2>5. /\ order[o].service \in Services
        /\ order[o].service \notin Leased => attempt[o].state = "none"
        /\ order[o].service \in Leased => attempt[o].state # "delivered"
    BY <1>1, <2>3 DEF RowsFit
  <2> QED
    BY <2>1, <2>2, <2>3, <2>4, <2>5 DEF RowsFit, Ends
<1>9. GivenBack(o)
    BY <1>1, <1>2, <1>4, <1>5 DEF RejectFunding, GivenBack, Open, Ends, TradeRow, OrderRow
<1> QED
    BY <1>7, <1>8, <1>9 DEF OneOrder

LEMMA CancelStep ==
    ASSUME IInv, NEW o \in Orders, Cancel(o)
    PROVE  OneOrder(o)
<1>1. /\ RowsFit(order[o], trade[o], attempt[o])
      /\ order \in [Orders -> OrderRow] /\ trade \in [Orders -> TradeRow]
      /\ attempt \in [Orders -> AttemptRow]
    BY Before
<1>2. order[o] \in OrderRow /\ trade[o] \in TradeRow /\ attempt[o] \in AttemptRow
    BY <1>1
<1>3. trade[o].status \in Open
    BY DEF Cancel, Open
<1>4. /\ order' = [order EXCEPT ![o] = [state |-> "cancelled", service |-> order[o].service,
                                       released |-> "cancelled" \in Ends]]
      /\ order[o].service \in Services
      /\ "cancelled" \notin Ends => active' = active
      /\ "cancelled" \in Ends => /\ active[order[o].service] > 0
                             /\ active' = [active EXCEPT ![order[o].service] = @ - 1]
    BY <1>3, AdvanceOpen DEF Cancel
<1>5. trade' = [trade EXCEPT ![o] = trade'[o]] /\ trade'[o] = [trade[o] EXCEPT !.status = "cancelled"]
    BY <1>1 DEF Cancel, Move
<1>6. attempt' = [attempt EXCEPT ![o] = attempt'[o]] /\ attempt'[o] = Ended(attempt[o])
    BY <1>1 DEF Cancel, EndAttempt, QueueAttempt
<1>7. Changes(o)
    BY <1>1, <1>4, <1>5, <1>6 DEF Changes
<1>8. RowsFit(order'[o], trade'[o], attempt'[o])
  <2>1. trade'[o] \in TradeRow /\ trade'[o].status = "cancelled"
    BY <1>2, <1>5 DEF TradeRow, Status
  <2>2. /\ order'[o] \in OrderRow /\ order'[o].state = "cancelled"
        /\ order'[o].service = order[o].service /\ order'[o].released = ("cancelled" \in Ends)
    BY <1>1, <1>4 DEF OrderRow, OrderState
  <2>3. trade[o].status = "pending" /\ attempt[o].state \notin Waiting
    BY <1>1, <1>3 DEF Cancel, RowsFit
  <2>4. attempt'[o] \in AttemptRow /\ attempt'[o].state = attempt[o].state
        /\ Timely(attempt'[o])
    BY <1>1, <1>2, <1>6, <2>3, EndedAttempt DEF RowsFit
  <2>5. /\ order[o].service \in Services
        /\ order[o].service \notin Leased => attempt[o].state = "none"
        /\ order[o].service \in Leased => attempt[o].state # "delivered"
    BY <1>1, <2>3 DEF RowsFit
  <2> QED
    BY <2>1, <2>2, <2>3, <2>4, <2>5 DEF RowsFit, Ends
<1>9. GivenBack(o)
    BY <1>1, <1>2, <1>4, <1>5 DEF Cancel, GivenBack, Open, Ends, TradeRow, OrderRow
<1> QED
    BY <1>7, <1>8, <1>9 DEF OneOrder

LEMMA LatePaymentStep ==
    ASSUME IInv, NEW o \in Orders, LatePayment(o)
    PROVE  OneOrder(o)
<1>1. /\ RowsFit(order[o], trade[o], attempt[o])
      /\ order \in [Orders -> OrderRow] /\ trade \in [Orders -> TradeRow]
      /\ attempt \in [Orders -> AttemptRow]
    BY Before
<1>2. order[o] \in OrderRow /\ trade[o] \in TradeRow /\ attempt[o] \in AttemptRow
    BY <1>1
<1>3. order' = order /\ active' = active
    BY DEF LatePayment
<1>5. trade' = [trade EXCEPT ![o] = trade'[o]] /\ trade'[o] = [trade[o] EXCEPT !.payout = "processing", !.paid = TRUE]
    BY <1>1 DEF LatePayment, Move
<1>6. attempt' = attempt
    BY DEF LatePayment
<1>7. Changes(o)
    BY <1>1, <1>3, <1>5, <1>6 DEF Changes
<1>8. RowsFit(order'[o], trade'[o], attempt'[o])
    BY <1>1, <1>2, <1>3, <1>5, <1>6
    DEF LatePayment, RowsFit, Timely, OrderRow, TradeRow, AttemptRow, OrderState, Status, Payout,
        Open, Ends, Waiting, Gone
<1>9. Kept(o)
    BY <1>1, <1>2, <1>3, <1>5 DEF LatePayment, Kept, Open, Ends, TradeRow, OrderRow
<1> QED
    BY <1>7, <1>8, <1>9 DEF OneOrder

LEMMA RefundStep ==
    ASSUME IInv, NEW o \in Orders, Refund(o)
    PROVE  OneOrder(o)
<1>1. /\ RowsFit(order[o], trade[o], attempt[o])
      /\ order \in [Orders -> OrderRow] /\ trade \in [Orders -> TradeRow]
      /\ attempt \in [Orders -> AttemptRow]
    BY Before
<1>2. order[o] \in OrderRow /\ trade[o] \in TradeRow /\ attempt[o] \in AttemptRow
    BY <1>1
<1>3. order' = order /\ active' = active
    BY DEF Refund
<1>5. trade' = [trade EXCEPT ![o] = trade'[o]] /\ trade'[o] = [trade[o] EXCEPT !.payout = "refunded"]
    BY <1>1 DEF Refund, Move
<1>6. attempt' = attempt
    BY DEF Refund
<1>7. Changes(o)
    BY <1>1, <1>3, <1>5, <1>6 DEF Changes
<1>8. RowsFit(order'[o], trade'[o], attempt'[o])
    BY <1>1, <1>2, <1>3, <1>5, <1>6
    DEF Refund, RowsFit, Timely, OrderRow, TradeRow, AttemptRow, OrderState, Status, Payout,
        Open, Ends, Waiting, Gone
<1>9. Kept(o)
    BY <1>1, <1>2, <1>3, <1>5 DEF Refund, Kept, Open, Ends, TradeRow, OrderRow
<1> QED
    BY <1>7, <1>8, <1>9 DEF OneOrder

-----------------------------------------------------------------------------
(* Execution *)

LEMMA StartStep ==
    ASSUME IInv, NEW o \in Orders, Start(o)
    PROVE  OneOrder(o)
<1>1. /\ RowsFit(order[o], trade[o], attempt[o])
      /\ order \in [Orders -> OrderRow] /\ trade \in [Orders -> TradeRow]
      /\ attempt \in [Orders -> AttemptRow]
    BY Before
<1>2. order[o] \in OrderRow /\ trade[o] \in TradeRow /\ attempt[o] \in AttemptRow
    BY <1>1
<1>3. trade[o].status \in Open
    BY DEF Start, Open
<1>4. /\ order' = [order EXCEPT ![o] = [state |-> "executing", service |-> order[o].service,
                                       released |-> "executing" \in Ends]]
      /\ order[o].service \in Services
      /\ "executing" \notin Ends => active' = active
      /\ "executing" \in Ends => /\ active[order[o].service] > 0
                             /\ active' = [active EXCEPT ![order[o].service] = @ - 1]
    BY <1>3, AdvanceOpen DEF Start
<1>5. trade' = trade
    BY DEF Start
<1>6. attempt' = attempt
    BY DEF Start
<1>7. Changes(o)
    BY <1>1, <1>4, <1>5, <1>6 DEF Changes
<1>8. RowsFit(order'[o], trade'[o], attempt'[o])
    BY <1>1, <1>2, <1>4, <1>5, <1>6
    DEF Start, RowsFit, Timely, OrderRow, TradeRow, AttemptRow, OrderState, Status, Payout,
        Open, Ends, Waiting, Gone
<1>9. Kept(o)
    BY <1>1, <1>2, <1>4, <1>5 DEF Start, Kept, Open, Ends, TradeRow, OrderRow
<1> QED
    BY <1>7, <1>8, <1>9 DEF OneOrder

LEMMA AcceptStep ==
    ASSUME IInv, NEW o \in Orders, Accept(o)
    PROVE  OneOrder(o)
<1>1. /\ RowsFit(order[o], trade[o], attempt[o])
      /\ order \in [Orders -> OrderRow] /\ trade \in [Orders -> TradeRow]
      /\ attempt \in [Orders -> AttemptRow]
    BY Before
<1>2. order[o] \in OrderRow /\ trade[o] \in TradeRow /\ attempt[o] \in AttemptRow
    BY <1>1
<1>3. trade[o].status \in Open
    BY DEF Accept, Workable, Open
<1>4. /\ order' = [order EXCEPT ![o] = [state |-> "executing", service |-> order[o].service,
                                       released |-> "executing" \in Ends]]
      /\ order[o].service \in Services
      /\ "executing" \notin Ends => active' = active
      /\ "executing" \in Ends => /\ active[order[o].service] > 0
                             /\ active' = [active EXCEPT ![order[o].service] = @ - 1]
    BY <1>3, AdvanceOpen DEF Accept
<1>5. trade' = trade
    BY DEF Accept
<1>6. attempt' = [attempt EXCEPT ![o] = attempt'[o]] /\ attempt'[o] = [state |-> "accepted", due |-> FALSE]
    BY <1>1 DEF Accept, EndAttempt, QueueAttempt
<1>7. Changes(o)
    BY <1>1, <1>4, <1>5, <1>6 DEF Changes
<1>8. RowsFit(order'[o], trade'[o], attempt'[o])
    BY <1>1, <1>2, <1>4, <1>5, <1>6
    DEF Accept, Workable, Answerable, RowsFit, Timely, OrderRow, TradeRow, AttemptRow, OrderState, Status, Payout,
        Open, Ends, Waiting, Gone
<1>9. Kept(o)
    BY <1>1, <1>2, <1>4, <1>5 DEF Accept, Kept, Open, Ends, TradeRow, OrderRow
<1> QED
    BY <1>7, <1>8, <1>9 DEF OneOrder

LEMMA DeclineStep ==
    ASSUME IInv, NEW o \in Orders, Decline(o)
    PROVE  OneOrder(o)
<1>1. /\ RowsFit(order[o], trade[o], attempt[o])
      /\ order \in [Orders -> OrderRow] /\ trade \in [Orders -> TradeRow]
      /\ attempt \in [Orders -> AttemptRow]
    BY Before
<1>2. order[o] \in OrderRow /\ trade[o] \in TradeRow /\ attempt[o] \in AttemptRow
    BY <1>1
<1>3. order' = order /\ active' = active
    BY DEF Decline
<1>5. trade' = trade
    BY DEF Decline
<1>6. attempt' = [attempt EXCEPT ![o] = attempt'[o]] /\ attempt'[o] = [attempt[o] EXCEPT !.state = "declined"]
    BY <1>1 DEF Decline, EndAttempt, QueueAttempt
<1>7. Changes(o)
    BY <1>1, <1>3, <1>5, <1>6 DEF Changes
<1>8. RowsFit(order'[o], trade'[o], attempt'[o])
    BY <1>1, <1>2, <1>3, <1>5, <1>6
    DEF Decline, Workable, Answerable, RowsFit, Timely, OrderRow, TradeRow, AttemptRow, OrderState, Status, Payout,
        Open, Ends, Waiting, Gone
<1>9. Kept(o)
    BY <1>1, <1>2, <1>3, <1>5 DEF Decline, Kept, Open, Ends, TradeRow, OrderRow
<1> QED
    BY <1>7, <1>8, <1>9 DEF OneOrder

LEMMA DeadlinePassesStep ==
    ASSUME IInv, NEW o \in Orders, DeadlinePasses(o)
    PROVE  OneOrder(o)
<1>1. /\ RowsFit(order[o], trade[o], attempt[o])
      /\ order \in [Orders -> OrderRow] /\ trade \in [Orders -> TradeRow]
      /\ attempt \in [Orders -> AttemptRow]
    BY Before
<1>2. order[o] \in OrderRow /\ trade[o] \in TradeRow /\ attempt[o] \in AttemptRow
    BY <1>1
<1>3. order' = order /\ active' = active
    BY DEF DeadlinePasses
<1>5. trade' = trade
    BY DEF DeadlinePasses
<1>6. attempt' = [attempt EXCEPT ![o] = attempt'[o]] /\ attempt'[o] = [attempt[o] EXCEPT !.due = TRUE]
    BY <1>1 DEF DeadlinePasses, EndAttempt, QueueAttempt
<1>7. Changes(o)
    BY <1>1, <1>3, <1>5, <1>6 DEF Changes
<1>8. RowsFit(order'[o], trade'[o], attempt'[o])
    BY <1>1, <1>2, <1>3, <1>5, <1>6
    DEF DeadlinePasses, RowsFit, Timely, OrderRow, TradeRow, AttemptRow, OrderState, Status, Payout,
        Open, Ends, Waiting, Gone
<1>9. Kept(o)
    BY <1>1, <1>2, <1>3, <1>5 DEF DeadlinePasses, Kept, Open, Ends, TradeRow, OrderRow
<1> QED
    BY <1>7, <1>8, <1>9 DEF OneOrder

LEMMA ExpireAcknowledgmentStep ==
    ASSUME IInv, NEW o \in Orders, ExpireAcknowledgment(o)
    PROVE  OneOrder(o)
<1>1. /\ RowsFit(order[o], trade[o], attempt[o])
      /\ order \in [Orders -> OrderRow] /\ trade \in [Orders -> TradeRow]
      /\ attempt \in [Orders -> AttemptRow]
    BY Before
<1>2. order[o] \in OrderRow /\ trade[o] \in TradeRow /\ attempt[o] \in AttemptRow
    BY <1>1
<1>3. order' = order /\ active' = active
    BY DEF ExpireAcknowledgment
<1>5. trade' = trade
    BY DEF ExpireAcknowledgment
<1>6. attempt' = [attempt EXCEPT ![o] = attempt'[o]] /\ attempt'[o] = [attempt[o] EXCEPT !.state = "acknowledgment_timed_out"]
    BY <1>1 DEF ExpireAcknowledgment, EndAttempt, QueueAttempt
<1>7. Changes(o)
    BY <1>1, <1>3, <1>5, <1>6 DEF Changes
<1>8. RowsFit(order'[o], trade'[o], attempt'[o])
    BY <1>1, <1>2, <1>3, <1>5, <1>6
    DEF ExpireAcknowledgment, RowsFit, Timely, OrderRow, TradeRow, AttemptRow, OrderState, Status, Payout,
        Open, Ends, Waiting, Gone
<1>9. Kept(o)
    BY <1>1, <1>2, <1>3, <1>5 DEF ExpireAcknowledgment, Kept, Open, Ends, TradeRow, OrderRow
<1> QED
    BY <1>7, <1>8, <1>9 DEF OneOrder

LEMMA ExpireLeaseStep ==
    ASSUME IInv, NEW o \in Orders, ExpireLease(o)
    PROVE  OneOrder(o)
<1>1. /\ RowsFit(order[o], trade[o], attempt[o])
      /\ order \in [Orders -> OrderRow] /\ trade \in [Orders -> TradeRow]
      /\ attempt \in [Orders -> AttemptRow]
    BY Before
<1>2. order[o] \in OrderRow /\ trade[o] \in TradeRow /\ attempt[o] \in AttemptRow
    BY <1>1
<1>3. order' = order /\ active' = active
    BY DEF ExpireLease
<1>5. trade' = trade
    BY DEF ExpireLease
<1>6. attempt' = [attempt EXCEPT ![o] = attempt'[o]] /\ attempt'[o] = [attempt[o] EXCEPT !.state = "expired"]
    BY <1>1 DEF ExpireLease, EndAttempt, QueueAttempt
<1>7. Changes(o)
    BY <1>1, <1>3, <1>5, <1>6 DEF Changes
<1>8. RowsFit(order'[o], trade'[o], attempt'[o])
    BY <1>1, <1>2, <1>3, <1>5, <1>6
    DEF ExpireLease, RowsFit, Timely, OrderRow, TradeRow, AttemptRow, OrderState, Status, Payout,
        Open, Ends, Waiting, Gone
<1>9. Kept(o)
    BY <1>1, <1>2, <1>3, <1>5 DEF ExpireLease, Kept, Open, Ends, TradeRow, OrderRow
<1> QED
    BY <1>7, <1>8, <1>9 DEF OneOrder

LEMMA DeliverStep ==
    ASSUME IInv, NEW o \in Orders, Deliver(o)
    PROVE  OneOrder(o)
<1>1. /\ RowsFit(order[o], trade[o], attempt[o])
      /\ order \in [Orders -> OrderRow] /\ trade \in [Orders -> TradeRow]
      /\ attempt \in [Orders -> AttemptRow]
    BY Before
<1>2. order[o] \in OrderRow /\ trade[o] \in TradeRow /\ attempt[o] \in AttemptRow
    BY <1>1
<1>3. trade[o].status \in Open
    BY DEF Deliver, Open
<1>4. /\ order' = [order EXCEPT ![o] = [state |-> "verifying", service |-> order[o].service,
                                       released |-> "verifying" \in Ends]]
      /\ order[o].service \in Services
      /\ "verifying" \notin Ends => active' = active
      /\ "verifying" \in Ends => /\ active[order[o].service] > 0
                             /\ active' = [active EXCEPT ![order[o].service] = @ - 1]
    BY <1>3, AdvanceOpen DEF Deliver
<1>5. trade' = [trade EXCEPT ![o] = trade'[o]] /\ trade'[o] = [trade[o] EXCEPT !.status = "pending_release"]
    BY <1>1 DEF Deliver, Move
<1>6. attempt' = [attempt EXCEPT ![o] = attempt'[o]] /\ attempt'[o] = IF order[o].service \in Leased THEN [attempt[o] EXCEPT !.state = "delivered"] ELSE attempt[o]
    BY <1>1 DEF Deliver, EndAttempt, QueueAttempt
<1>7. Changes(o)
    BY <1>1, <1>4, <1>5, <1>6 DEF Changes
<1>8. RowsFit(order'[o], trade'[o], attempt'[o])
  <2>1. trade'[o] \in TradeRow /\ trade'[o].status = "pending_release"
    BY <1>2, <1>5 DEF TradeRow, Status, Open
  <2>2. /\ order'[o] \in OrderRow /\ order'[o].state = "verifying"
        /\ order'[o].service = order[o].service /\ order'[o].released = ("verifying" \in Ends)
    BY <1>1, <1>4 DEF OrderRow, OrderState
  <2>3. CASE order[o].service \in Leased
    <3>1. attempt[o].state = "accepted" /\ ~attempt[o].due
      BY <2>3 DEF Deliver, Living
    <3>2. /\ attempt'[o] \in AttemptRow /\ attempt'[o].state = "delivered"
          /\ Timely(attempt'[o])
      BY <1>2, <1>6, <2>3, <3>1 DEF AttemptRow, Waiting, Gone, Timely
    <3> QED
      BY <1>4, <2>1, <2>2, <2>3, <3>2 DEF RowsFit, Ends, Waiting
  <2>4. CASE order[o].service \notin Leased
    <3>1. attempt'[o] = attempt[o] /\ attempt[o].state = "none" /\ Timely(attempt[o])
      BY <1>1, <1>6, <2>4 DEF RowsFit
    <3> QED
      BY <1>2, <1>4, <2>1, <2>2, <2>4, <3>1 DEF RowsFit, Ends, Waiting
  <2> QED
    BY <2>3, <2>4
<1>9. Kept(o)
    BY <1>1, <1>2, <1>4, <1>5 DEF Deliver, Kept, Open, Ends, TradeRow, OrderRow
<1> QED
    BY <1>7, <1>8, <1>9 DEF OneOrder

-----------------------------------------------------------------------------
(* Confirmation, dispute, resolution *)

LEMMA ClaimSettlementStep ==
    ASSUME IInv, NEW o \in Orders, ClaimSettlement(o)
    PROVE  OneOrder(o)
<1>1. /\ RowsFit(order[o], trade[o], attempt[o])
      /\ order \in [Orders -> OrderRow] /\ trade \in [Orders -> TradeRow]
      /\ attempt \in [Orders -> AttemptRow]
    BY Before
<1>2. order[o] \in OrderRow /\ trade[o] \in TradeRow /\ attempt[o] \in AttemptRow
    BY <1>1
<1>3. order' = order /\ active' = active
    BY DEF ClaimSettlement
<1>5. trade' = [trade EXCEPT ![o] = trade'[o]] /\ trade'[o] = [trade[o] EXCEPT !.payout = "processing"]
    BY <1>1 DEF ClaimSettlement, Move
<1>6. attempt' = attempt
    BY DEF ClaimSettlement
<1>7. Changes(o)
    BY <1>1, <1>3, <1>5, <1>6 DEF Changes
<1>8. RowsFit(order'[o], trade'[o], attempt'[o])
    BY <1>1, <1>2, <1>3, <1>5, <1>6
    DEF ClaimSettlement, RowsFit, Timely, OrderRow, TradeRow, AttemptRow, OrderState, Status, Payout,
        Open, Ends, Waiting, Gone
<1>9. Kept(o)
    BY <1>1, <1>2, <1>3, <1>5 DEF ClaimSettlement, Kept, Open, Ends, TradeRow, OrderRow
<1> QED
    BY <1>7, <1>8, <1>9 DEF OneOrder

LEMMA CompleteStep ==
    ASSUME IInv, NEW o \in Orders, Complete(o)
    PROVE  OneOrder(o)
<1>1. /\ RowsFit(order[o], trade[o], attempt[o])
      /\ order \in [Orders -> OrderRow] /\ trade \in [Orders -> TradeRow]
      /\ attempt \in [Orders -> AttemptRow]
    BY Before
<1>2. order[o] \in OrderRow /\ trade[o] \in TradeRow /\ attempt[o] \in AttemptRow
    BY <1>1
<1>3. trade[o].status \in Open
    BY DEF Complete, Open
<1>4. /\ order' = [order EXCEPT ![o] = [state |-> "completed", service |-> order[o].service,
                                       released |-> "completed" \in Ends]]
      /\ order[o].service \in Services
      /\ "completed" \notin Ends => active' = active
      /\ "completed" \in Ends => /\ active[order[o].service] > 0
                             /\ active' = [active EXCEPT ![order[o].service] = @ - 1]
    BY <1>3, AdvanceOpen DEF Complete
<1>5. trade' = [trade EXCEPT ![o] = trade'[o]] /\ trade'[o] = [trade[o] EXCEPT !.status = "completed", !.payout = "complete"]
    BY <1>1 DEF Complete, Move
<1>6. attempt' = [attempt EXCEPT ![o] = attempt'[o]] /\ attempt'[o] = Ended(attempt[o])
    BY <1>1 DEF Complete, EndAttempt, QueueAttempt
<1>7. Changes(o)
    BY <1>1, <1>4, <1>5, <1>6 DEF Changes
<1>8. RowsFit(order'[o], trade'[o], attempt'[o])
    <2>1. trade[o].status = "pending_release"
        BY DEF Complete
    <2>2. order'[o] = [state |-> "completed", service |-> order[o].service, released |-> TRUE]
        BY <1>1, <1>4 DEF Ends
    <2>3. attempt[o].state \notin Waiting
        BY <1>1, <2>1 DEF RowsFit
    <2>4. attempt'[o] \in AttemptRow /\ attempt'[o].state = attempt[o].state
          /\ Timely(attempt'[o])
        BY <1>1, <1>2, <1>6, <2>3, EndedAttempt DEF RowsFit
    <2> QED
        BY <1>1, <1>2, <1>4, <1>5, <2>1, <2>2, <2>3, <2>4
        DEF RowsFit, OrderRow, TradeRow, OrderState, Status, Payout, Open, Ends, Waiting
<1>9. GivenBack(o)
    BY <1>1, <1>2, <1>4, <1>5 DEF Complete, GivenBack, Open, Ends, TradeRow, OrderRow
<1> QED
    BY <1>7, <1>8, <1>9 DEF OneOrder

LEMMA DisputeStep ==
    ASSUME IInv, NEW o \in Orders, Dispute(o)
    PROVE  OneOrder(o)
<1>1. /\ RowsFit(order[o], trade[o], attempt[o])
      /\ order \in [Orders -> OrderRow] /\ trade \in [Orders -> TradeRow]
      /\ attempt \in [Orders -> AttemptRow]
    BY Before
<1>2. order[o] \in OrderRow /\ trade[o] \in TradeRow /\ attempt[o] \in AttemptRow
    BY <1>1
<1>3. trade[o].status \in Open
    BY DEF Dispute, Open
<1>4. /\ order' = [order EXCEPT ![o] = [state |-> "disputed", service |-> order[o].service,
                                       released |-> "disputed" \in Ends]]
      /\ order[o].service \in Services
      /\ "disputed" \notin Ends => active' = active
      /\ "disputed" \in Ends => /\ active[order[o].service] > 0
                             /\ active' = [active EXCEPT ![order[o].service] = @ - 1]
    BY <1>3, AdvanceOpen DEF Dispute
<1>5. trade' = [trade EXCEPT ![o] = trade'[o]] /\ trade'[o] = [trade[o] EXCEPT !.status = "disputed"]
    BY <1>1 DEF Dispute, Move
<1>6. attempt' = [attempt EXCEPT ![o] = attempt'[o]] /\ attempt'[o] = Ended(attempt[o])
    BY <1>1 DEF Dispute, EndAttempt, QueueAttempt
<1>7. Changes(o)
    BY <1>1, <1>4, <1>5, <1>6 DEF Changes
<1>8. RowsFit(order'[o], trade'[o], attempt'[o])
    BY <1>1, <1>2, <1>4, <1>5, <1>6, EndedAttempt
    DEF Dispute, RowsFit, Timely, OrderRow, TradeRow, AttemptRow, OrderState, Status, Payout,
        Open, Ends, Waiting, Gone
<1>9. Kept(o)
    BY <1>1, <1>2, <1>4, <1>5 DEF Dispute, Kept, Open, Ends, TradeRow, OrderRow
<1> QED
    BY <1>7, <1>8, <1>9 DEF OneOrder

LEMMA ResolveStep ==
    ASSUME IInv, NEW o \in Orders, NEW toBuyer \in BOOLEAN, Resolve(o, toBuyer)
    PROVE  OneOrder(o)
<1>1. /\ RowsFit(order[o], trade[o], attempt[o])
      /\ order \in [Orders -> OrderRow] /\ trade \in [Orders -> TradeRow]
      /\ attempt \in [Orders -> AttemptRow]
    BY Before
<1>2. order[o] \in OrderRow /\ trade[o] \in TradeRow /\ attempt[o] \in AttemptRow
    BY <1>1
<1>3. trade[o].status \in Open
    BY DEF Resolve, Open
<1>4. /\ order' = [order EXCEPT ![o] = [state |-> "resolved", service |-> order[o].service,
                                       released |-> "resolved" \in Ends]]
      /\ order[o].service \in Services
      /\ "resolved" \notin Ends => active' = active
      /\ "resolved" \in Ends => /\ active[order[o].service] > 0
                             /\ active' = [active EXCEPT ![order[o].service] = @ - 1]
    BY <1>3, AdvanceOpen DEF Resolve
<1>5. trade' = [trade EXCEPT ![o] = trade'[o]] /\ trade'[o] = [trade[o] EXCEPT !.status = "resolved", !.payout = "complete",
                                              !.returned = toBuyer]
    BY <1>1 DEF Resolve, Move
<1>6. attempt' = [attempt EXCEPT ![o] = attempt'[o]] /\ attempt'[o] = Ended(attempt[o])
    BY <1>1 DEF Resolve, EndAttempt, QueueAttempt
<1>7. Changes(o)
    BY <1>1, <1>4, <1>5, <1>6 DEF Changes
<1>8. RowsFit(order'[o], trade'[o], attempt'[o])
    <2>1. trade[o].status = "disputed"
        BY DEF Resolve
    <2>2. order'[o] = [state |-> "resolved", service |-> order[o].service, released |-> TRUE]
        BY <1>1, <1>4 DEF Ends
    <2>3. attempt[o].state \notin Waiting
        BY <1>1, <2>1 DEF RowsFit
    <2>4. attempt'[o] \in AttemptRow /\ attempt'[o].state = attempt[o].state
          /\ Timely(attempt'[o])
        BY <1>1, <1>2, <1>6, <2>3, EndedAttempt DEF RowsFit
    <2> QED
        BY <1>1, <1>2, <1>4, <1>5, <2>1, <2>2, <2>3, <2>4
        DEF RowsFit, OrderRow, TradeRow, OrderState, Status, Payout, Open, Ends, Waiting
<1>9. GivenBack(o)
    BY <1>1, <1>2, <1>4, <1>5 DEF Resolve, GivenBack, Open, Ends, TradeRow, OrderRow
<1> QED
    BY <1>7, <1>8, <1>9 DEF OneOrder

-----------------------------------------------------------------------------

LEMMA NextStep ==
    ASSUME IInv, [Next]_orderVars
    PROVE  IInv'
<1>1. ASSUME NEW o \in Orders, OrderStep(o) PROVE IInv'
    <2>1. OneOrder(o)
        BY <1>1, ReserveStep, FundStep, RejectFundingStep, CancelStep, LatePaymentStep, RefundStep,
           StartStep, AcceptStep, DeclineStep, DeadlinePassesStep, ExpireAcknowledgmentStep,
           ExpireLeaseStep, DeliverStep, ClaimSettlementStep, CompleteStep, DisputeStep, ResolveStep
        DEF OrderStep
    <2> QED
        BY <2>1, OneOrderKeepsIInv
<1>2. CASE UNCHANGED orderVars
    BY <1>2 DEF orderVars, IInv, TypeOK, Fits, CapacityAddsUp, OpenAt
<1> QED
    BY <1>1, <1>2 DEF Next

LEMMA AlwaysIInv == Spec => []IInv
BY InitIInv, NextStep, PTL DEF Spec

\* The rows keep their types: no transition writes a state the tables do not have,
\* and no counter goes below zero (the types of the model's rows).
THEOREM OrdersAreTyped == Spec => []TypeOK
<1>1. IInv => TypeOK
    BY DEF IInv
<1> QED
    BY <1>1, AlwaysIInv, PTL

\* advanceServiceOrder takes and returns capacity exactly: the counter of every
\* service is the number of its open orders, however each of them ends.
THEOREM CapacityIsExact == Spec => []CapacityAddsUp
<1>1. IInv => CapacityAddsUp
    BY DEF IInv
<1> QED
    BY <1>1, AlwaysIInv, PTL

\* Order, trade and attempt tell one story, whatever the order of requests,
\* deadlines and payments: reconcileTerminalServiceOrders finds nothing.
THEOREM OrdersFollowTrades == Spec => []OrderFollowsTrade
<1>1. IInv => OrderFollowsTrade
    <2> SUFFICES ASSUME IInv, NEW o \in Orders
                 PROVE  RowsFit(order[o], trade[o], attempt[o])
        BY Zenon DEF OrderFollowsTrade, RowsFit, Timely
    <2> QED
        BY DEF IInv, Fits
<1> QED
    BY <1>1, AlwaysIInv, PTL

-----------------------------------------------------------------------------

RouteRow == [state : {"planned", "reserving", "failed"} \cup Linked,
             order : External \cup {Null}, expired : BOOLEAN]
CandidateRow == [state : {"none", "checking", "ineligible", "reserved"},
                 service : Services \cup {Null}, order : External \cup {Null}]
StepRow == [order : External, amount : Nat, state : {"reserved", "funded", "rejected"}]
ExecRow == [at : {"idle", "claim", "begin", "reserve", "mark", "fail"},
            number : 1 .. MaxAttempts + 1, seen : {"planned", "reserving"}, mandated : BOOLEAN]

\* The route's own rows, and that a request reserves or marks a candidate it has.
RouteRows ==
    /\ route \in RouteRow
    /\ candidate \in [Numbers -> CandidateRow]
    /\ mandate \in [state : {"none", "active", "inactive"}, reserved : Nat]
    /\ steps \in Seq(StepRow)
    /\ exec \in [Executors -> ExecRow]
    /\ \A e \in Executors : exec[e].at \in {"reserve", "mark"} => exec[e].number \in Tries

-----------------------------------------------------------------------------
(* The rows of a route *)

LEMMA Constants ==
    /\ MaxAttempts \in Nat /\ Len(Candidates) \in Nat
    /\ Numbers = 1 .. MaxAttempts /\ Tries \subseteq Numbers
    /\ \A i \in Tries : Candidates[i] \in Services
    /\ \A i \in Tries : i \in DOMAIN Candidates
    /\ Price \in [Services -> Nat]
    /\ External \subseteq Orders /\ Null \notin Orders
BY RouteAssumption, OrdersAssumption DEF Numbers, Tries, External

LEMMA InitRows == RouteInit => RouteRows
BY Constants DEF RouteInit, RouteRows, RouteRow, CandidateRow, StepRow, ExecRow, Linked, Idle

\* Where a request may go next.
LEMMA ExecMoves ==
    ASSUME exec \in [Executors -> ExecRow], NEW e \in Executors,
           NEW at \in {"begin", "reserve", "mark", "fail"}
    PROVE  /\ Goto(e, at) => /\ exec' \in [Executors -> ExecRow]
                             /\ exec'[e].at = at /\ exec'[e].number = exec[e].number
           /\ Proceed(e) => exec' \in [Executors -> ExecRow] /\ exec'[e].at = "begin"
           /\ TryNext(e) /\ exec[e].number \in Numbers
                 => exec' \in [Executors -> ExecRow] /\ exec'[e].at = "begin"
           /\ End(e) => exec' \in [Executors -> ExecRow] /\ exec'[e].at = "idle"
           /\ Goto(e, at) \/ Proceed(e) \/ TryNext(e) \/ End(e)
                 => \A f \in Executors \ {e} : exec'[f] = exec[f]
<1>1. exec[e] \in ExecRow
    OBVIOUS
<1>2. 1 \in 1 .. MaxAttempts + 1
    BY Constants
<1>3. [exec[e] EXCEPT !.at = at] \in ExecRow
    BY <1>1 DEF ExecRow
<1>4. [exec[e] EXCEPT !.at = "begin", !.seen = "planned"] \in ExecRow
    BY <1>1 DEF ExecRow
<1>5. exec[e].number \in Numbers
        => [exec[e] EXCEPT !.at = "begin", !.number = @ + 1] \in ExecRow
    <2>1. MaxAttempts \in Nat /\ Numbers = 1 .. MaxAttempts
        BY Constants
    <2>2. \A i \in Numbers : i + 1 \in 1 .. MaxAttempts + 1
        BY <2>1
    <2> QED
        BY <1>1, <2>2 DEF ExecRow
<1>6. Idle \in ExecRow
    BY <1>2 DEF ExecRow, Idle
<1>7. ASSUME Goto(e, at)
      PROVE  /\ exec' \in [Executors -> ExecRow] /\ exec'[e].at = at
             /\ exec'[e].number = exec[e].number
             /\ \A f \in Executors \ {e} : exec'[f] = exec[f]
    BY <1>1, <1>3, <1>7 DEF Goto, ExecRow
<1>8. ASSUME Proceed(e)
      PROVE  /\ exec' \in [Executors -> ExecRow] /\ exec'[e].at = "begin"
             /\ \A f \in Executors \ {e} : exec'[f] = exec[f]
    BY <1>1, <1>4, <1>8 DEF Proceed, ExecRow
<1>9. ASSUME TryNext(e)
      PROVE  /\ exec[e].number \in Numbers => exec' \in [Executors -> ExecRow]
             /\ exec'[e].at = "begin"
             /\ \A f \in Executors \ {e} : exec'[f] = exec[f]
    BY <1>1, <1>5, <1>9 DEF TryNext, ExecRow
<1>10. ASSUME End(e)
       PROVE  /\ exec' \in [Executors -> ExecRow] /\ exec'[e].at = "idle"
              /\ \A f \in Executors \ {e} : exec'[f] = exec[f]
    BY <1>6, <1>10 DEF End, Idle
<1> QED
    BY <1>7, <1>8, <1>9, <1>10

LEMMA RequestRows ==
    ASSUME RouteRows, NEW e \in Executors,
           \/ StartExecution(e) \/ ClaimRoute(e) \/ BeginAttempt(e) \/ Exhaust(e)
           \/ Refuse(e) \/ MarkIneligible(e) \/ FailRoute(e) \/ Crash(e)
    PROVE  RouteRows'
<1>1. exec \in [Executors -> ExecRow] /\ exec[e] \in ExecRow
    BY DEF RouteRows
<1>2. CASE StartExecution(e)
    <2> DEFINE row == [Idle EXCEPT !.at = "claim", !.seen = route.state, !.mandated = Mandated]
    <2>1. 1 \in 1 .. MaxAttempts + 1
        BY Constants
    <2>2. row \in ExecRow /\ row.at = "claim"
        BY <1>2, <2>1 DEF StartExecution, ExecRow, Idle, Mandated
    <2>3. exec' = [exec EXCEPT ![e] = row] /\ UNCHANGED <<route, candidate, mandate, steps>>
        BY <1>2 DEF StartExecution
    <2> HIDE DEF row
    <2> QED
        BY <1>1, <2>2, <2>3 DEF RouteRows
<1>3. CASE ClaimRoute(e)
    <2>1. route' \in RouteRow
        BY <1>3 DEF ClaimRoute, RouteRows, RouteRow, Linked
    <2>2. Proceed(e) \/ End(e)
        BY <1>3 DEF ClaimRoute
    <2> QED
        BY <1>1, <1>3, <2>1, <2>2, ExecMoves DEF ClaimRoute, RouteRows
<1>4. CASE BeginAttempt(e)
    <2> DEFINE i == exec[e].number
    <2>1. i \in Tries /\ i \in Numbers /\ Candidates[i] \in Services
        BY <1>4, Constants DEF BeginAttempt
    <2>2. candidate[i] \in CandidateRow
        BY <2>1 DEF RouteRows
    <2>3. candidate' \in [Numbers -> CandidateRow]
        BY <1>4, <2>1, <2>2 DEF BeginAttempt, RouteRows, CandidateRow
    <2>4. Goto(e, "reserve") \/ End(e) \/ TryNext(e)
        BY <1>4 DEF BeginAttempt
    <2>5. UNCHANGED <<route, mandate, steps>>
        BY <1>4 DEF BeginAttempt
    <2> QED
        BY <1>1, <2>1, <2>3, <2>4, <2>5, ExecMoves DEF RouteRows
<1>5. CASE Exhaust(e) \/ FailRoute(e)
    <2>1. route' \in RouteRow
        BY <1>5 DEF Exhaust, FailRoute, FailUnlinked, RouteRows, RouteRow
    <2> QED
        BY <1>1, <1>5, <2>1, ExecMoves DEF Exhaust, FailRoute, RouteRows
<1>6. CASE Refuse(e)
    <2>1. PICK at \in {"mark", "fail"} : Goto(e, at)
        BY <1>6 DEF Refuse
    <2>2. exec[e].number \in Tries /\ UNCHANGED <<route, candidate, mandate, steps>>
        BY <1>6 DEF Refuse, RouteRows
    <2> QED
        BY <1>1, <2>1, <2>2, ExecMoves DEF RouteRows
<1>7. CASE MarkIneligible(e)
    <2>1. exec[e].number \in Tries
        BY <1>7 DEF MarkIneligible, RouteRows
    <2>2. candidate[exec[e].number] \in CandidateRow
        BY <2>1, Constants DEF RouteRows
    <2>3. candidate' \in [Numbers -> CandidateRow]
        BY <1>7, <2>2 DEF MarkIneligible, RouteRows, CandidateRow
    <2> QED
        BY <1>1, <1>7, <2>1, <2>3, Constants, ExecMoves DEF MarkIneligible, RouteRows
<1>8. CASE Crash(e)
    BY <1>1, <1>8, ExecMoves DEF Crash, RouteRows
<1> QED
    BY <1>2, <1>3, <1>4, <1>5, <1>6, <1>7, <1>8

\* reserveServiceOrder links an order of the route that was Null before, with what
\* the mandate reserved for it.
LEMMA LinkRows ==
    ASSUME RouteRows, NEW o \in External, NEW i \in Numbers, NEW s \in Services, NEW retry,
           Link(o, i, s), ReserveExposure(o, Price[s], retry) \/ UNCHANGED <<mandate, steps>>
    PROVE  /\ route' \in RouteRow /\ candidate' \in [Numbers -> CandidateRow]
           /\ mandate' \in [state : {"none", "active", "inactive"}, reserved : Nat]
           /\ steps' \in Seq(StepRow)
<1>1. route' \in RouteRow /\ candidate' \in [Numbers -> CandidateRow]
    BY DEF Link, RouteRows, RouteRow, CandidateRow, Linked
<1>2. CASE UNCHANGED <<mandate, steps>>
    BY <1>1, <1>2 DEF RouteRows
<1>3. CASE ReserveExposure(o, Price[s], retry)
    <2>1. Price[s] \in Nat
        BY Constants
    <2>2. mandate' \in [state : {"none", "active", "inactive"}, reserved : Nat]
        BY <1>3, <2>1 DEF ReserveExposure, RouteRows
    <2>3. [order |-> o, amount |-> Price[s], state |-> "reserved"] \in StepRow
        BY <2>1 DEF StepRow
    <2>4. steps' \in Seq(StepRow)
        BY <1>3, <2>3 DEF ReserveExposure, RouteRows
    <2> QED
        BY <1>1, <2>2, <2>4
<1> QED
    BY <1>2, <1>3

LEMMA ReserveForRouteRows ==
    ASSUME RouteRows, NEW e \in Executors, NEW o \in Orders, ReserveForRoute(e, o)
    PROVE  RouteRows' /\ Candidates[exec[e].number] \in Services
<1>1. exec \in [Executors -> ExecRow] /\ exec[e].number \in Tries /\ o \in External
    BY DEF RouteRows, ReserveForRoute
<1>2. exec[e].number \in Numbers /\ Candidates[exec[e].number] \in Services
    BY <1>1, Constants
<1>3. /\ Link(o, exec[e].number, Candidates[exec[e].number]) /\ End(e)
      /\ \/ ReserveExposure(o, Price[Candidates[exec[e].number]], FALSE)
         \/ UNCHANGED <<mandate, steps>>
    BY DEF ReserveForRoute
<1>4. /\ route' \in RouteRow /\ candidate' \in [Numbers -> CandidateRow]
      /\ mandate' \in [state : {"none", "active", "inactive"}, reserved : Nat]
      /\ steps' \in Seq(StepRow)
    BY <1>1, <1>2, <1>3, LinkRows
<1>5. exec' \in [Executors -> ExecRow] /\ exec'[e].at = "idle"
      /\ \A f \in Executors \ {e} : exec'[f] = exec[f]
    BY <1>1, <1>3, ExecMoves
<1> QED
    BY <1>2, <1>4, <1>5 DEF RouteRows

LEMMA RetryRows ==
    ASSUME RouteRows, NEW o \in Orders, NEW s \in Services, Retry(o, s)
    PROVE  RouteRows'
<1> DEFINE number == Cardinality(Tried) + 1
<1>1. /\ o \in External /\ number \in Numbers /\ Link(o, number, s) /\ exec' = exec
      /\ ReserveExposure(o, Price[s], TRUE)
    BY DEF Retry
<1> HIDE DEF number
<1>2. /\ route' \in RouteRow /\ candidate' \in [Numbers -> CandidateRow]
      /\ mandate' \in [state : {"none", "active", "inactive"}, reserved : Nat]
      /\ steps' \in Seq(StepRow)
    BY <1>1, LinkRows
<1> QED
    BY <1>1, <1>2 DEF RouteRows

\* A route row takes the state of its order.
LEMMA FollowRows ==
    ASSUME RouteRows, NEW o \in Orders,
           NEW state \in {"funded", "executing", "verifying", "completed", "cancelled",
                          "disputed", "resolved"},
           Follow(o, state)
    PROVE  route' \in RouteRow
BY DEF Follow, RouteRows, RouteRow, Linked

LEMMA FundingRows ==
    ASSUME RouteRows, NEW o \in Orders, NEW state \in {"funded", "rejected"}, RecordFunding(o, state)
    PROVE  steps' \in Seq(StepRow) /\ DOMAIN steps' = DOMAIN steps
           /\ \A i \in DOMAIN steps :
                  steps'[i].order = steps[i].order /\ steps'[i].amount = steps[i].amount
<1>1. steps \in Seq(StepRow) /\ Len(steps) \in Nat /\ DOMAIN steps = 1 .. Len(steps)
    BY DEF RouteRows
<1>2. \A i \in DOMAIN steps : steps[i] \in StepRow
    BY <1>1
<1>3. steps' = [i \in 1 .. Len(steps) |->
                  IF steps[i].order = o THEN [steps[i] EXCEPT !.state = state] ELSE steps[i]]
    BY <1>1 DEF RecordFunding
<1>4. \A i \in 1 .. Len(steps) : /\ steps'[i] \in StepRow
                               /\ steps'[i].order = steps[i].order /\ steps'[i].amount = steps[i].amount
    BY <1>1, <1>2, <1>3 DEF StepRow
<1>5. steps' \in [1 .. Len(steps) -> StepRow]
    BY <1>3, <1>4
<1>6. steps' \in Seq(StepRow)
    BY <1>1, <1>5
<1> QED
    BY <1>1, <1>3, <1>4, <1>6

LEMMA TransitionRows ==
    ASSUME RouteRows, NEW o \in Orders,
           \/ FundOrder(o) \/ RejectOrderFunding(o) \/ LateOrderPayment(o)
           \/ ConfirmOrder(o) \/ AdvanceRoute(o) \/ BesideRoute(o)
    PROVE  RouteRows'
<1>1. CASE FundOrder(o) \/ RejectOrderFunding(o)
    <2>1. route' \in RouteRow
        BY <1>1, FollowRows DEF FundOrder, RejectOrderFunding
    <2>2. steps' \in Seq(StepRow)
        BY <1>1, FundingRows DEF FundOrder, RejectOrderFunding
    <2> QED
        BY <1>1, <2>1, <2>2 DEF FundOrder, RejectOrderFunding, RouteRows
<1>2. CASE LateOrderPayment(o)
    BY <1>2, FundingRows DEF LateOrderPayment, RouteRows
<1>3. CASE ConfirmOrder(o)
    BY <1>3 DEF ConfirmOrder, RouteRows, RouteRow, Linked
<1>4. CASE AdvanceRoute(o)
    <2>1. route' \in RouteRow
        BY <1>4, FollowRows DEF AdvanceRoute
    <2> QED
        BY <1>4, <2>1 DEF AdvanceRoute, RouteRows
<1>5. CASE BesideRoute(o)
    BY <1>5 DEF BesideRoute, routeVars, RouteRows
<1> QED
    BY <1>1, <1>2, <1>3, <1>4, <1>5

LEMMA RowsStep ==
    ASSUME RouteRows, [RouteNext]_routedVars
    PROVE  RouteRows'
<1>1. CASE RouteExpires \/ CancelPlan
    BY <1>1 DEF RouteExpires, CancelPlan, RouteRows, RouteRow, Linked
<1>2. CASE CreateMandate \/ EndMandate
    BY <1>2 DEF CreateMandate, EndMandate, RouteRows
<1>3. CASE UNCHANGED routedVars
    BY <1>3 DEF routedVars, routeVars, RouteRows
<1> QED
    BY <1>1, <1>2, <1>3, RequestRows, ReserveForRouteRows, RetryRows, TransitionRows DEF RouteNext

-----------------------------------------------------------------------------
(* A route implements its orders *)

LEMMA RouteStepIsOrderStep ==
    ASSUME RouteRows, [RouteNext]_routedVars
    PROVE  [Next]_orderVars
<1>1. CASE RouteExpires \/ CancelPlan \/ CreateMandate \/ EndMandate
    BY <1>1 DEF RouteExpires, CancelPlan, CreateMandate, EndMandate
<1>2. CASE \E e \in Executors : StartExecution(e) \/ ClaimRoute(e) \/ BeginAttempt(e) \/ Exhaust(e)
                                \/ Refuse(e) \/ MarkIneligible(e) \/ FailRoute(e) \/ Crash(e)
    BY <1>2 DEF StartExecution, ClaimRoute, BeginAttempt, Exhaust, Refuse, MarkIneligible,
                FailRoute, Crash
<1>3. ASSUME NEW e \in Executors, NEW o \in Orders, ReserveForRoute(e, o)
      PROVE  Next
    BY <1>3, ReserveForRouteRows DEF ReserveForRoute, Next, OrderStep
<1>4. ASSUME NEW o \in Orders, NEW s \in Services, Retry(o, s)
      PROVE  Next
    BY <1>4 DEF Retry, Next, OrderStep
<1>5. ASSUME NEW o \in Orders,
             FundOrder(o) \/ RejectOrderFunding(o) \/ LateOrderPayment(o) \/ ConfirmOrder(o)
      PROVE  Next
    BY <1>5 DEF FundOrder, RejectOrderFunding, LateOrderPayment, ConfirmOrder, Next, OrderStep
<1>6. ASSUME NEW o \in Orders, AdvanceRoute(o) \/ BesideRoute(o)
      PROVE  Next
    BY <1>6 DEF AdvanceRoute, BesideRoute, Next, OrderStep
<1>7. CASE UNCHANGED routedVars
    BY <1>7 DEF routedVars
<1> QED
    BY <1>1, <1>2, <1>3, <1>4, <1>5, <1>6, <1>7 DEF RouteNext

LEMMA AlwaysRows == RoutedSpec => []RouteRows
BY InitRows, RowsStep, PTL DEF RoutedSpec

\* Whatever a route, its executions, its mandate and its retries do, they do to the
\* orders only what reserveServiceOrder and the transitions of an order do.
THEOREM RoutesUseOrders == RoutedSpec => Spec
<1>1. RouteInit => Init
    BY DEF RouteInit
<1> QED
    BY <1>1, AlwaysRows, RouteStepIsOrderStep, PTL DEF RoutedSpec, Spec

\* Types of the rows, with a route on top of the orders.
THEOREM RoutesAreTyped == RoutedSpec => []RoutedTypeOK
<1>1. RouteRows /\ TypeOK => RoutedTypeOK
    BY DEF RouteRows, RoutedTypeOK, RouteRow, CandidateRow, StepRow, ExecRow
<1> QED
    BY <1>1, AlwaysRows, RoutesUseOrders, OrdersAreTyped, PTL

\* Racing executions and retries of a route never leave a provider's counter wrong.
THEOREM CapacityIsExactForRoutes == RoutedSpec => []CapacityAddsUp
BY RoutesUseOrders, CapacityIsExact, PTL

\* ... nor an order that disagrees with its trade.
THEOREM RoutedOrdersFollowTrades == RoutedSpec => []OrderFollowsTrade
BY RoutesUseOrders, OrdersFollowTrades, PTL

-----------------------------------------------------------------------------
(* What an order may do to a trade that is already there *)

\* All of the payment came back, for good.
Settled(o) ==
    /\ trade[o].paid
    /\ \/ trade[o].status = "cancelled" /\ trade[o].payout = "refunded"
       \/ trade[o].status = "resolved" /\ trade[o].returned

\* A placed trade stays placed, an ended one ended, a settled one settled.
Onward(p) ==
    /\ trade[p].status # "none" => trade'[p].status # "none"
    /\ trade[p].status \in Ends => trade'[p].status \in Ends
    /\ Settled(p) => Settled(p)'

LEMMA OnlyOneOrder ==
    ASSUME IInv, NEW o \in Orders, OrderStep(o)
    PROVE  OneOrder(o)
BY ReserveStep, FundStep, RejectFundingStep, CancelStep, LatePaymentStep, RefundStep,
   StartStep, AcceptStep, DeclineStep, DeadlinePassesStep, ExpireAcknowledgmentStep,
   ExpireLeaseStep, DeliverStep, ClaimSettlementStep, CompleteStep, DisputeStep, ResolveStep
DEF OrderStep

LEMMA OnwardStep ==
    ASSUME IInv, NEW o \in Orders, OrderStep(o), NEW p \in Orders
    PROVE  Onward(p)
<1>1. trade \in [Orders -> TradeRow] /\ trade[o] \in TradeRow
    BY Before
<1>2. CASE p # o
    <2>1. trade'[p] = trade[p]
        BY <1>2, OnlyOneOrder, RowsKept
    <2> QED
        BY <2>1 DEF Onward, Settled
<1>3. CASE p = o
    <2>1. CASE \/ \E s \in Services : Reserve(o, s)
               \/ Fund(o) \/ RejectFunding(o) \/ Cancel(o)
        <3>1. CASE \E s \in Services : Reserve(o, s)
            BY <1>1, <1>3, <3>1 DEF Reserve, Onward, Settled, Ends, TradeRow
        <3>2. CASE Fund(o)
            BY <1>1, <1>3, <3>2 DEF Fund, Move, Onward, Settled, Ends, TradeRow
        <3>3. CASE RejectFunding(o)
            BY <1>1, <1>3, <3>3 DEF RejectFunding, Move, Onward, Settled, Ends, TradeRow
        <3>4. CASE Cancel(o)
            BY <1>1, <1>3, <3>4 DEF Cancel, Move, Onward, Settled, Ends, TradeRow
        <3> QED
            BY <2>1, <3>1, <3>2, <3>3, <3>4
    <2>2. CASE LatePayment(o) \/ Refund(o)
        BY <1>1, <1>3, <2>2 DEF LatePayment, Refund, Onward, Settled, Ends, TradeRow
    <2>3. CASE Start(o) \/ Accept(o) \/ Decline(o) \/ DeadlinePasses(o) \/ ExpireAcknowledgment(o)
               \/ ExpireLease(o)
        BY <2>3 DEF Start, Accept, Decline, DeadlinePasses, ExpireAcknowledgment, ExpireLease,
                    Onward, Settled
    <2>4. CASE Deliver(o) \/ ClaimSettlement(o) \/ Complete(o) \/ Dispute(o)
        BY <1>1, <1>3, <2>4 DEF Deliver, ClaimSettlement, Complete, Dispute, Move, Onward, Settled,
                                Ends, TradeRow
    <2>5. CASE \E toBuyer \in BOOLEAN : Resolve(o, toBuyer)
        BY <1>1, <1>3, <2>5 DEF Resolve, Onward, Settled, Ends, TradeRow
    <2> QED
        BY <2>1, <2>2, <2>3, <2>4, <2>5 DEF OrderStep
<1> QED
    BY <1>2, <1>3

-----------------------------------------------------------------------------
(* A route tells what its order does *)

Unlinked == {"planned", "reserving", "cancelled", "failed"}

\* What the route's own rows say of its orders: each was placed, the steps name
\* all of them once there is one, and all but the linked one are settled.
Links ==
    /\ \A o \in Routed : o \in Orders /\ trade[o].status # "none"
    /\ route.order # Null => route.order \in Routed
    /\ route.order = Null => Routed = {} /\ steps = <<>> /\ route.state \in Unlinked
    /\ steps # <<>> => Routed \subseteq {steps[i].order : i \in DOMAIN steps}
    /\ \A o \in Routed \ {route.order} : Settled(o)

Shows ==
    route.order # Null =>
        \/ route.state = order[route.order].state
        \/ route.state = "awaiting_buyer" /\ order[route.order].state = "verifying"
        \/ /\ route.state = "settling" /\ order[route.order].state = "verifying"
           /\ trade[route.order].payout = "processing"

RInv == IInv /\ RouteRows /\ Links /\ Shows

LEMMA RInvSaysIt ==
    ASSUME RInv
    PROVE  RouteFollowsOrder /\ OnePaymentOut
<1>1. \A o \in Routed \ {route.order} : trade[o].status \in Ends /\ trade[o].paid /\ Returned(o)
    BY DEF RInv, Links, Settled, Returned, Ends
<1>2. RouteFollowsOrder
    BY <1>1 DEF RInv, Links, Shows, RouteFollowsOrder, Unlinked
<1> DEFINE out == {o \in Routed : trade[o].paid /\ ~ Returned(o)}
<1>3. out \subseteq {route.order}
    BY <1>1
<1>4. Cardinality({route.order}) = 1 /\ IsFiniteSet({route.order})
    BY FS_Singleton
<1>5. Cardinality(out) <= 1
    BY <1>3, <1>4, FS_Subset
<1> QED
    BY <1>1, <1>2, <1>5 DEF OnePaymentOut

LEMMA InitRInv == RouteInit => RInv
<1> SUFFICES ASSUME RouteInit PROVE RInv
    OBVIOUS
<1>1. IInv
    BY InitIInv DEF RouteInit
<1>2. Routed = {}
    BY DEF RouteInit, Routed
<1> QED
    BY <1>1, <1>2, InitRows DEF RInv, Links, Shows, RouteInit, Unlinked

\* As long as no order is linked, the links only need the orders to move on.
LEMMA LinksKept ==
    ASSUME RInv, \A p \in Orders : Onward(p),
           route'.order = route.order, Routed' = Routed,
           route.order = Null => steps' = <<>> /\ route'.state \in Unlinked,
           steps' # <<>> => steps # <<>>
               /\ {steps'[i].order : i \in DOMAIN steps'} = {steps[i].order : i \in DOMAIN steps}
    PROVE  Links'
<1>1. \A p \in Routed : p \in Orders /\ trade'[p].status # "none"
    BY DEF RInv, Links, Onward
<1>2. \A p \in Routed \ {route.order} : Settled(p)'
    BY <1>1 DEF RInv, Links, Onward
<1> QED
    BY <1>1, <1>2 DEF RInv, Links

\* The orders of the route, by attempt.
LEMMA RoutedSame ==
    ASSUME \A i \in Numbers : candidate'[i].order = candidate[i].order
    PROVE  Routed' = Routed
BY DEF Routed, Numbers

\* A linked route is not to be reserved.
LEMMA LinkedState ==
    ASSUME RInv, route.order # Null
    PROVE  route.state \notin {"planned", "reserving"} /\ route.order \in Orders
<1>1. route.order \in Orders
    BY DEF RInv, Links
<1>2. order[route.order].state \in OrderState
    BY <1>1 DEF RInv, IInv, TypeOK
<1> QED
    BY <1>1, <1>2 DEF RInv, Shows, OrderState

LEMMA RequestsKeepLinks ==
    ASSUME RInv,
           \/ RouteExpires \/ CancelPlan \/ CreateMandate \/ EndMandate \/ UNCHANGED routedVars
           \/ \E e \in Executors :
                  \/ StartExecution(e) \/ ClaimRoute(e) \/ BeginAttempt(e) \/ Exhaust(e)
                  \/ Refuse(e) \/ MarkIneligible(e) \/ FailRoute(e) \/ Crash(e)
    PROVE  Links' /\ Shows'
<1>1. UNCHANGED <<order, trade>> /\ steps' = steps
    BY DEF RouteExpires, CancelPlan, CreateMandate, EndMandate, routedVars, routeVars, orderVars,
           StartExecution, ClaimRoute, BeginAttempt, Exhaust, Refuse, MarkIneligible, FailRoute, Crash
<1>2. route \in RouteRow /\ candidate \in [Numbers -> CandidateRow] /\ exec \in [Executors -> ExecRow]
    BY DEF RInv, RouteRows
<1>3. /\ route'.order = route.order
      /\ \/ route'.state = route.state
         \/ route.state \in {"planned", "reserving"} /\ route'.state \in Unlinked
    BY <1>2 DEF RouteExpires, CancelPlan, CreateMandate, EndMandate, routedVars, routeVars,
           StartExecution, ClaimRoute, BeginAttempt, Exhaust, Refuse, MarkIneligible, FailRoute, Crash,
           FailUnlinked, Unlinked, RouteRow, ExecRow
<1>4. \A i \in Numbers : candidate'[i].order = candidate[i].order
    <2>1. CASE UNCHANGED candidate
        BY <2>1
    <2>2. ASSUME NEW e \in Executors, BeginAttempt(e)
          PROVE  \A i \in Numbers : candidate'[i].order = candidate[i].order
        BY <1>2, <2>2 DEF BeginAttempt, CandidateRow
    <2>3. ASSUME NEW e \in Executors, MarkIneligible(e)
          PROVE  \A i \in Numbers : candidate'[i].order = candidate[i].order
        BY <1>2, <2>3 DEF MarkIneligible, CandidateRow
    <2> QED
        BY <2>1, <2>2, <2>3 DEF RouteExpires, CancelPlan, CreateMandate, EndMandate, routedVars,
           routeVars, StartExecution, ClaimRoute, Exhaust, Refuse, FailRoute, Crash
<1>5. Routed' = Routed
    BY <1>4, RoutedSame
<1>6. \A p \in Orders : Onward(p)
    BY <1>1 DEF Onward, Settled
<1>7. Links'
    BY <1>1, <1>3, <1>5, <1>6, LinksKept DEF RInv, Links
<1>8. Shows'
    BY <1>1, <1>3, LinkedState DEF RInv, Shows
<1> QED
    BY <1>7, <1>8

\* A new order of the route, whose earlier orders are settled.
LEMMA NewLink ==
    ASSUME RInv, NEW o \in External, NEW s \in Services, NEW i \in Numbers, NEW retry,
           Reserve(o, s), Link(o, i, s),
           \A p \in Routed : Settled(p),
           \/ ReserveExposure(o, Price[s], retry)
                /\ Routed \subseteq {steps[j].order : j \in DOMAIN steps}
           \/ steps = <<>> /\ steps' = <<>>
    PROVE  Links' /\ Shows'
<1>1. o \in Orders /\ o \notin Internal /\ o # Null
    BY Constants DEF External
<1>2. /\ order \in [Orders -> OrderRow] /\ trade \in [Orders -> TradeRow]
      /\ route \in RouteRow /\ candidate \in [Numbers -> CandidateRow] /\ steps \in Seq(StepRow)
    BY <1>1, Before DEF RInv, RouteRows
<1>3. /\ order'[o].state = "awaiting_funding" /\ trade'[o].status = "pending"
    BY <1>1, <1>2 DEF Reserve, Move, OrderRow, TradeRow
<1>4. \A p \in Orders : Onward(p)
    BY <1>1, OnwardStep DEF OrderStep, RInv
<1>5. route'.order = o /\ route'.state = "awaiting_funding"
    BY <1>2 DEF Link, RouteRow
<1>6. /\ candidate'[i].order = o
      /\ \A j \in Numbers \ {i} : candidate'[j] = candidate[j]
    BY <1>2 DEF Link
<1>7. Routed' \subseteq Routed \cup {o} /\ o \in Routed'
    BY <1>1, <1>6 DEF Routed, Numbers
<1>8. \A p \in Routed' : p \in Orders /\ trade'[p].status # "none"
    BY <1>1, <1>3, <1>4, <1>7 DEF RInv, Links, Onward
<1>9. \A p \in Routed' \ {o} : Settled(p)'
    BY <1>4, <1>7 DEF RInv, Links, Onward
<1>10. steps' # <<>> => Routed' \subseteq {steps'[j].order : j \in DOMAIN steps'}
    <2>1. CASE steps' = <<>>
        BY <2>1
    <2>2. CASE /\ ReserveExposure(o, Price[s], retry)
               /\ Routed \subseteq {steps[j].order : j \in DOMAIN steps}
        <3> DEFINE new == [order |-> o, amount |-> Price[s], state |-> "reserved"]
        <3>1. steps' = Append(steps, new) /\ new \in StepRow
            BY <2>2, Constants DEF ReserveExposure, StepRow
        <3>2. /\ Len(steps) \in Nat /\ DOMAIN steps = 1 .. Len(steps)
              /\ DOMAIN steps' = 1 .. Len(steps) + 1 /\ steps'[Len(steps) + 1] = new
              /\ \A j \in 1 .. Len(steps) : steps'[j] = steps[j]
            BY <1>2, <3>1
        <3>3. o \in {steps'[j].order : j \in DOMAIN steps'}
            BY <3>2
        <3>4. {steps[j].order : j \in DOMAIN steps} \subseteq {steps'[j].order : j \in DOMAIN steps'}
            BY <3>2
        <3> QED
            BY <1>7, <2>2, <3>3, <3>4
    <2> QED
        BY <2>1, <2>2
<1>11. Links'
    BY <1>1, <1>5, <1>7, <1>8, <1>9, <1>10 DEF Links
<1>12. Shows'
    BY <1>3, <1>5 DEF Shows
<1> QED
    BY <1>11, <1>12

LEMMA NewLinks ==
    ASSUME RInv, NEW o \in Orders,
           \/ \E e \in Executors : ReserveForRoute(e, o)
           \/ \E s \in Services : Retry(o, s)
    PROVE  Links' /\ Shows'
<1>1. ASSUME NEW e \in Executors, ReserveForRoute(e, o)
      PROVE  Links' /\ Shows'
    <2> DEFINE i == exec[e].number
               s == Candidates[i]
    <2>1. i \in Numbers /\ s \in Services /\ o \in External
        BY <1>1, Constants DEF ReserveForRoute, RInv, RouteRows
    <2>2. Routed = {} /\ steps = <<>>
        BY <1>1 DEF ReserveForRoute, RInv, Links
    <2>3. /\ Reserve(o, s) /\ Link(o, i, s)
          /\ ReserveExposure(o, Price[s], FALSE) \/ steps' = steps
        BY <1>1 DEF ReserveForRoute
    <2> HIDE DEF i, s
    <2> QED
        BY <2>1, <2>2, <2>3, NewLink
<1>2. ASSUME NEW s \in Services, Retry(o, s)
      PROVE  Links' /\ Shows'
    <2> DEFINE i == Cardinality(Tried) + 1
    <2>1. /\ i \in Numbers /\ o \in External /\ Reserve(o, s) /\ Link(o, i, s)
          /\ ReserveExposure(o, Price[s], TRUE)
          /\ steps # <<>> /\ \A j \in DOMAIN steps : Reconciled(steps[j].order)
        BY <1>2 DEF Retry
    <2>2. Routed \subseteq {steps[j].order : j \in DOMAIN steps}
        BY <2>1 DEF RInv, Links
    <2>3. \A p \in Routed : Settled(p)
        BY <2>1, <2>2 DEF Reconciled, Settled
    <2> HIDE DEF i
    <2> QED
        BY <2>1, <2>2, <2>3, NewLink
<1> QED
    BY <1>1, <1>2

\* A transition of an order takes the links of its route along.
LEMMA TransitionKeepsLinks ==
    ASSUME RInv, NEW o \in Orders,
           \/ FundOrder(o) \/ RejectOrderFunding(o) \/ LateOrderPayment(o)
           \/ ConfirmOrder(o) \/ AdvanceRoute(o) \/ BesideRoute(o)
    PROVE  Links'
<1>1. OrderStep(o)
    BY DEF FundOrder, RejectOrderFunding, LateOrderPayment, ConfirmOrder, AdvanceRoute, BesideRoute,
           OrderStep
<1>2. \A p \in Orders : Onward(p)
    BY <1>1, OnwardStep DEF RInv
<1>3. Routed' = Routed
    <2>1. UNCHANGED candidate
        BY DEF FundOrder, RejectOrderFunding, LateOrderPayment, ConfirmOrder, AdvanceRoute,
               BesideRoute, routeVars
    <2> QED
        BY <2>1, RoutedSame
<1>4. /\ route'.order = route.order
      /\ route.order = Null => route' = route
    <2>1. route \in RouteRow /\ o # Null
        BY Constants DEF RInv, RouteRows
    <2> QED
        BY <2>1 DEF FundOrder, RejectOrderFunding, LateOrderPayment, ConfirmOrder, AdvanceRoute,
                    BesideRoute, routeVars, Follow, RouteRow
<1>5. /\ DOMAIN steps' = DOMAIN steps
      /\ \A i \in DOMAIN steps : steps'[i].order = steps[i].order
    <2>1. CASE UNCHANGED steps
        BY <2>1
    <2>2. CASE \E state \in {"funded", "rejected"} : RecordFunding(o, state)
        BY <2>2, FundingRows DEF RInv
    <2> QED
        BY <2>1, <2>2 DEF FundOrder, RejectOrderFunding, LateOrderPayment, ConfirmOrder,
                          AdvanceRoute, BesideRoute, routeVars
<1>6. /\ steps = <<>> => steps' = <<>>
      /\ steps' # <<>> => steps # <<>>
      /\ {steps'[i].order : i \in DOMAIN steps'} = {steps[i].order : i \in DOMAIN steps}
    <2>1. steps \in Seq(StepRow) /\ steps' \in Seq(StepRow)
        BY TransitionRows DEF RInv, RouteRows
    <2>2. Len(steps) = Len(steps')
        BY <1>5, <2>1
    <2>3. steps = <<>> <=> steps' = <<>>
        BY <2>1, <2>2
    <2> QED
        BY <1>5, <2>3
<1> QED
    BY <1>2, <1>3, <1>4, <1>6, LinksKept DEF RInv, Links

\* The route of an order that moves shows where it moved.
LEMMA FollowShows ==
    ASSUME RInv, NEW o \in Orders, OrderStep(o),
           NEW state \in {"funded", "executing", "verifying", "completed", "cancelled",
                          "disputed", "resolved"},
           trade[o].status \in Open, Advance(o, state), Follow(o, state)
    PROVE  Shows'
<1>1. order' = [order EXCEPT ![o] = [state |-> state, service |-> order[o].service,
                                    released |-> state \in Ends]]
    BY AdvanceOpen DEF RInv
<1>2. route \in RouteRow /\ order \in [Orders -> OrderRow]
    BY Before DEF RInv, RouteRows
<1>3. \A p \in Orders \ {o} : order'[p] = order[p] /\ trade'[p] = trade[p]
    BY OnlyOneOrder, RowsKept DEF RInv
<1>4. CASE route.order = o
    BY <1>1, <1>2, <1>4 DEF Follow, Shows, RouteRow
<1>5. CASE route.order # o
    <2>1. route' = route
        BY <1>5 DEF Follow
    <2> QED
        BY <1>3, <1>5, <2>1, LinkedState DEF RInv, Shows
<1> QED
    BY <1>4, <1>5

\* A step that leaves the order and its payout alone, or that starts a payout of
\* finished work, can be read off the route as before.
LEMMA SameShows ==
    ASSUME RInv, NEW o \in Orders, OrderStep(o), route' = route,
           route.order = o => /\ order' = order
                              /\ trade'[o].payout \in {trade[o].payout, "processing"}
                                   \/ order[o].state # "verifying"
    PROVE  Shows'
<1>1. \A p \in Orders \ {o} : order'[p] = order[p] /\ trade'[p] = trade[p]
    BY OnlyOneOrder, RowsKept DEF RInv
<1>2. CASE route.order = o
    BY <1>2 DEF RInv, Shows
<1>3. CASE route.order # o
    BY <1>1, <1>3, LinkedState DEF RInv, Shows
<1> QED
    BY <1>2, <1>3

LEMMA TransitionShows ==
    ASSUME RInv, NEW o \in Orders,
           \/ FundOrder(o) \/ RejectOrderFunding(o) \/ LateOrderPayment(o)
           \/ ConfirmOrder(o) \/ AdvanceRoute(o) \/ BesideRoute(o)
    PROVE  Shows'
<1>1. OrderStep(o)
    BY DEF FundOrder, RejectOrderFunding, LateOrderPayment, ConfirmOrder, AdvanceRoute, BesideRoute,
           OrderStep
<1>2. /\ RowsFit(order[o], trade[o], attempt[o])
      /\ order \in [Orders -> OrderRow] /\ trade \in [Orders -> TradeRow]
      /\ route \in RouteRow
    BY Before DEF RInv, RouteRows
<1>3. CASE FundOrder(o) \/ RejectOrderFunding(o)
    <2>1. trade[o].status \in Open
        BY <1>3 DEF FundOrder, RejectOrderFunding, Fund, RejectFunding, Open
    <2>2. \E state \in {"funded", "cancelled"} : Advance(o, state) /\ Follow(o, state)
        BY <1>3 DEF FundOrder, RejectOrderFunding, Fund, RejectFunding
    <2> QED
        BY <1>1, <2>1, <2>2, FollowShows
<1>4. CASE AdvanceRoute(o)
    <2>1. trade[o].status \in Open
        BY <1>4 DEF AdvanceRoute, Cancel, Start, Accept, Workable, Deliver, Complete, Dispute,
                    Resolve, Open
    <2>2. \E state \in {"executing", "verifying", "completed", "cancelled", "disputed", "resolved"} :
              Advance(o, state) /\ Follow(o, state)
        BY <1>4 DEF AdvanceRoute, Cancel, Start, Accept, Deliver, Complete, Dispute, Resolve
    <2> QED
        BY <1>1, <2>1, <2>2, FollowShows
<1>5. CASE LateOrderPayment(o)
    <2>1. order' = order /\ route' = route /\ trade[o].status = "cancelled"
        BY <1>5 DEF LateOrderPayment, LatePayment
    <2>2. order[o].state # "verifying"
        BY <1>2, <2>1 DEF RowsFit
    <2> QED
        BY <1>1, <2>1, <2>2, SameShows
<1>6. CASE ConfirmOrder(o)
    <2>1. order' = order /\ trade[o].status = "pending_release" /\ trade'[o].payout = "processing"
        BY <1>2, <1>6 DEF ConfirmOrder, ClaimSettlement, TradeRow
    <2>2. order[o].state = "verifying"
        BY <1>2, <2>1 DEF RowsFit
    <2>3. CASE route.order = o
        BY <1>2, <1>6, <2>1, <2>2, <2>3 DEF ConfirmOrder, Shows, RouteRow
    <2>4. CASE route.order # o
        <3>1. route' = route
            BY <1>6, <2>4 DEF ConfirmOrder
        <3> QED
            BY <1>1, <2>4, <3>1, SameShows
    <2> QED
        BY <2>3, <2>4
<1>7. CASE BesideRoute(o)
    <2>1. route' = route
        BY <1>7 DEF BesideRoute, routeVars
    <2>2. CASE \E s \in Services : Reserve(o, s)
        <3>1. route.order # o
            BY <2>2, Constants DEF Reserve, RInv, Links
        <3> QED
            BY <1>1, <2>1, <3>1, SameShows
    <2>3. CASE Refund(o)
        <3>1. order' = order /\ trade[o].status = "cancelled"
            BY <2>3 DEF Refund
        <3>2. order[o].state # "verifying"
            BY <1>2, <3>1 DEF RowsFit
        <3> QED
            BY <1>1, <2>1, <3>1, <3>2, SameShows
    <2>4. CASE Decline(o) \/ DeadlinePasses(o) \/ ExpireAcknowledgment(o) \/ ExpireLease(o)
        <3>1. order' = order /\ trade' = trade
            BY <2>4 DEF Decline, DeadlinePasses, ExpireAcknowledgment, ExpireLease
        <3> QED
            BY <1>1, <2>1, <3>1, SameShows
    <2>5. CASE ClaimSettlement(o)
        <3>1. order' = order /\ trade'[o].payout = "processing"
            BY <1>2, <2>5 DEF ClaimSettlement, TradeRow
        <3> QED
            BY <1>1, <2>1, <3>1, SameShows
    <2> QED
        BY <1>7, <2>2, <2>3, <2>4, <2>5 DEF BesideRoute
<1> QED
    BY <1>3, <1>4, <1>5, <1>6, <1>7

LEMMA RInvStep ==
    ASSUME RInv, [RouteNext]_routedVars
    PROVE  RInv'
<1>1. IInv'
    BY RouteStepIsOrderStep, NextStep DEF RInv
<1>2. RouteRows'
    BY RowsStep DEF RInv
<1>3. Links' /\ Shows'
    BY RequestsKeepLinks, NewLinks, TransitionKeepsLinks, TransitionShows DEF RouteNext
<1> QED
    BY <1>1, <1>2, <1>3 DEF RInv

\* However requests race to execute a route, the buyer is told what the linked
\* order does, no other order of the route is open, and a failed route has none.
THEOREM RoutesTellTheirOrders == RoutedSpec => []RouteFollowsOrder
<1>1. RInv => RouteFollowsOrder
    BY RInvSaysIt
<1> QED
    BY <1>1, InitRInv, RInvStep, PTL DEF RoutedSpec

\* inspectAttemptReconciliation lets a route be retried only when all of the
\* earlier payments came and went back, so at most one is out, whatever is late.
THEOREM RoutesPayOnce == RoutedSpec => []OnePaymentOut
<1>1. RInv => OnePaymentOut
    BY RInvSaysIt
<1> QED
    BY <1>1, InitRInv, RInvStep, PTL DEF RoutedSpec

-----------------------------------------------------------------------------
(* The mandate's books *)

\* The attempts are tried in order, and only a reserved one has an order.
Attempts ==
    /\ \A i \in Numbers : candidate[i].state # "reserved" => candidate[i].order = Null
    /\ \A i \in Tried, j \in Numbers : j < i => j \in Tried
    /\ \A e \in Executors :
        /\ \A j \in Numbers : j < exec[e].number => j \in Tried
        /\ exec[e].at \in {"reserve", "mark"} => exec[e].number \in Tried

BooksInv == RInv /\ Attempts /\ MandateBooks

\* The number of attempts that were tried is the last one, so the next is free.
LEMMA NextNumber ==
    ASSUME Attempts, NEW n, n = Cardinality(Tried) + 1, n \in Numbers
    PROVE  n \notin Tried /\ \A j \in Numbers : j < n => j \in Tried
<1>1. /\ MaxAttempts \in Nat /\ Numbers = 1 .. MaxAttempts
      /\ n \in Int /\ 1 <= n /\ n <= MaxAttempts
    BY Constants
<1>2. IsFiniteSet(Numbers) /\ Tried \subseteq Numbers
    BY <1>1, FS_Interval DEF Tried
<1>3. IsFiniteSet(Tried) /\ Cardinality(Tried) \in Nat
    BY <1>2, FS_Subset, FS_CardinalityType
<1>4. n \notin Tried
    <2> SUFFICES ASSUME n \in Tried PROVE FALSE
        OBVIOUS
    <2>1. 1 .. n \subseteq Tried
        BY <1>1 DEF Attempts
    <2>2. Cardinality(1 .. n) = n
        BY <1>1, FS_Interval
    <2>3. Cardinality(1 .. n) <= Cardinality(Tried)
        BY <1>3, <2>1, FS_Subset
    <2> QED
        BY <1>1, <1>3, <2>2, <2>3
<1>5. ASSUME NEW j \in Numbers, j < n, j \notin Tried
      PROVE  FALSE
    <2>1. Tried \subseteq 1 .. (j - 1)
        <3>1. ASSUME NEW t \in Tried
              PROVE  t \in 1 .. (j - 1)
            <4>1. ~ (j < t) /\ j # t
                BY <1>5 DEF Attempts
            <4>2. t \in 1 .. MaxAttempts /\ j \in 1 .. MaxAttempts
                BY <1>1, <1>2
            <4> QED
                BY <1>1, <4>1, <4>2
        <3> QED
            BY <3>1
    <2>2. IsFiniteSet(1 .. (j - 1)) /\ Cardinality(1 .. (j - 1)) = j - 1
        <3>1. 1 \in Int /\ j - 1 \in Int /\ 0 <= j - 1
            BY <1>1
        <3> DEFINE k == j - 1
        <3>2. IsFiniteSet(1 .. k) /\ Cardinality(1 .. k) = IF 1 > k THEN 0 ELSE k - 1 + 1
            <4> HIDE DEF k
            <4>1. k \in Int
                BY <3>1 DEF k
            <4> QED
                BY <4>1, FS_Interval
        <3> QED
            BY <3>1, <3>2
    <2>3. Cardinality(Tried) <= Cardinality(1 .. (j - 1))
        BY <2>1, <2>2, FS_Subset
    <2> QED
        BY <1>1, <1>3, <1>5, <2>2, <2>3
<1> QED
    BY <1>4, <1>5

\* A request that goes on to a number it may have reached.
LEMMA AttemptsGo ==
    ASSUME Attempts, NEW e \in Executors,
           Tried \subseteq Tried', \A i \in Tried', j \in Numbers : j < i => j \in Tried',
           \A i \in Numbers : candidate'[i].state # "reserved" => candidate'[i].order = Null,
           \A f \in Executors \ {e} : exec'[f] = exec[f],
           \A j \in Numbers : j < exec'[e].number => j \in Tried',
           exec'[e].at \in {"reserve", "mark"} => exec'[e].number \in Tried'
    PROVE  Attempts'
<1>1. ASSUME NEW f \in Executors
      PROVE  /\ \A j \in Numbers : j < exec'[f].number => j \in Tried'
             /\ exec'[f].at \in {"reserve", "mark"} => exec'[f].number \in Tried'
    <2>1. CASE f = e
        BY <2>1
    <2>2. CASE f # e
        BY <2>2 DEF Attempts
    <2> QED
        BY <2>1, <2>2
<1> QED
    BY <1>1 DEF Attempts

\* Requests that link no order keep the attempts in order.
LEMMA RequestsKeepAttempts ==
    ASSUME RouteRows, Attempts, NEW e \in Executors,
           \/ StartExecution(e) \/ ClaimRoute(e) \/ BeginAttempt(e) \/ Exhaust(e)
           \/ Refuse(e) \/ MarkIneligible(e) \/ FailRoute(e) \/ Crash(e)
    PROVE  Attempts'
<1>1. /\ exec \in [Executors -> ExecRow] /\ exec[e] \in ExecRow
      /\ candidate \in [Numbers -> CandidateRow]
      /\ MaxAttempts \in Nat /\ Numbers = 1 .. MaxAttempts
      /\ Tried \subseteq Numbers
    BY Constants DEF RouteRows, Tried
<1>2. exec[e].number \in Int /\ exec[e].number >= 1
    BY <1>1 DEF ExecRow
<1>3. /\ \A j \in Numbers : j < exec[e].number => j \in Tried
      /\ exec[e].at \in {"reserve", "mark"} => exec[e].number \in Tried
      /\ \A i \in Tried, j \in Numbers : j < i => j \in Tried
      /\ \A i \in Numbers : candidate[i].state # "reserved" => candidate[i].order = Null
    BY DEF Attempts
<1>4. CASE \/ StartExecution(e) \/ ClaimRoute(e) \/ Exhaust(e) \/ Refuse(e) \/ FailRoute(e) \/ Crash(e)
    <2>1. candidate' = candidate
        BY <1>4 DEF StartExecution, ClaimRoute, Exhaust, Refuse, FailRoute, Crash
    <2>2. Tried' = Tried
        BY <2>1 DEF Tried
    <2>3. CASE StartExecution(e) \/ End(e)
        <3>1. exec'[e].number = 1 /\ exec'[e].at \in {"idle", "claim"}
            <4>1. CASE StartExecution(e)
                <5>1. exec'[e] = [Idle EXCEPT !.at = "claim", !.seen = route.state,
                                              !.mandated = Mandated]
                    BY <1>1, <4>1 DEF StartExecution
                <5> QED
                    BY <5>1 DEF Idle
            <4>2. CASE End(e)
                BY <1>1, <4>2 DEF End, Idle
            <4> QED
                BY <2>3, <4>1, <4>2
        <3>2. \A f \in Executors \ {e} : exec'[f] = exec[f]
            BY <1>1, <2>3 DEF StartExecution, End
        <3> QED
            BY <1>1, <1>3, <2>1, <2>2, <3>1, <3>2, AttemptsGo
    <2>4. CASE Proceed(e)
        <3>1. exec'[e].number = exec[e].number /\ exec'[e].at = "begin"
            BY <1>1, <2>4 DEF Proceed, ExecRow
        <3>2. \A f \in Executors \ {e} : exec'[f] = exec[f]
            BY <1>1, <2>4 DEF Proceed
        <3> QED
            BY <1>3, <2>1, <2>2, <3>1, <3>2, AttemptsGo
    <2>5. CASE Refuse(e)
        <3>1. exec'[e].number = exec[e].number /\ exec[e].at = "reserve"
            BY <1>1, <2>5 DEF Refuse, Goto, ExecRow
        <3>2. \A f \in Executors \ {e} : exec'[f] = exec[f]
            BY <1>1, <2>5 DEF Refuse, Goto
        <3> QED
            BY <1>3, <2>1, <2>2, <3>1, <3>2, AttemptsGo
    <2> QED
        BY <1>4, <2>3, <2>4, <2>5 DEF ClaimRoute, Exhaust, FailRoute, Crash
<1>5. CASE MarkIneligible(e)
    <2> DEFINE i == exec[e].number
    <2>1. i \in Tried /\ i \in Numbers
        BY <1>1, <1>3, <1>5 DEF MarkIneligible
    <2>2. /\ candidate' = [candidate EXCEPT ![i].state = IF @ = "checking" THEN "ineligible" ELSE @]
          /\ exec' = [exec EXCEPT ![e].at = "begin", ![e].number = @ + 1]
        BY <1>5 DEF MarkIneligible, TryNext
    <2>3. candidate[i] \in CandidateRow
        BY <1>1, <2>1
    <2>4. \A j \in Numbers \ {i} : candidate'[j] = candidate[j]
        BY <1>1, <2>1, <2>2
    <2>5. /\ candidate'[i].order = candidate[i].order
          /\ candidate'[i].state = "reserved" <=> candidate[i].state = "reserved"
          /\ candidate'[i].state # "none"
        BY <1>1, <2>1, <2>2, <2>3 DEF CandidateRow, Tried
    <2>6. Tried' = Tried
        BY <2>1, <2>4, <2>5 DEF Tried
    <2>7. \A j \in Numbers : candidate'[j].state # "reserved" => candidate'[j].order = Null
        BY <1>3, <2>4, <2>5
    <2>8. exec'[e].number = i + 1 /\ exec'[e].at = "begin"
        BY <1>1, <2>2 DEF ExecRow
    <2>9. \A f \in Executors \ {e} : exec'[f] = exec[f]
        BY <1>1, <2>2
    <2>10. \A j \in Numbers : j < exec'[e].number => j \in Tried
        BY <1>1, <1>2, <1>3, <2>1, <2>8
    <2> HIDE DEF i
    <2> QED
        BY <1>3, <2>6, <2>7, <2>8, <2>9, <2>10, AttemptsGo
<1>6. CASE BeginAttempt(e)
    <2> DEFINE i == exec[e].number
    <2>1. i \in Numbers
        BY <1>6, Constants DEF BeginAttempt
    <2>2. candidate' = [candidate EXCEPT ![i] =
              IF @.state = "none" THEN [@ EXCEPT !.state = "checking", !.service = Candidates[i]] ELSE @]
        BY <1>6 DEF BeginAttempt
    <2>3. candidate[i] \in CandidateRow
        BY <1>1, <2>1
    <2>4. \A j \in Numbers \ {i} : candidate'[j] = candidate[j]
        BY <1>1, <2>1, <2>2
    <2>5. /\ candidate'[i].order = candidate[i].order
          /\ candidate'[i].state = "reserved" <=> candidate[i].state = "reserved"
          /\ candidate'[i].state # "none"
        BY <1>1, <2>1, <2>2, <2>3 DEF CandidateRow
    <2>6. Tried' = Tried \cup {i}
        BY <2>1, <2>4, <2>5 DEF Tried
    <2>7. \A j \in Numbers : candidate'[j].state # "reserved" => candidate'[j].order = Null
        BY <1>3, <2>4, <2>5
    <2>8. \A k \in Tried', j \in Numbers : j < k => j \in Tried'
        BY <1>3, <2>6
    <2>9. /\ exec'[e].number \in {1, i, i + 1}
          /\ exec'[e].at \in {"reserve", "mark"} => exec'[e].number = i
        BY <1>1, <1>6 DEF BeginAttempt, Goto, End, TryNext, ExecRow, Idle
    <2>10. \A f \in Executors \ {e} : exec'[f] = exec[f]
        BY <1>1, <1>6 DEF BeginAttempt, Goto, End, TryNext
    <2>11. \A j \in Numbers : j < exec'[e].number => j \in Tried'
        <3>1. \A j \in Numbers : j < i => j \in Tried'
            BY <1>3, <2>6
        <3>2. i \in Tried' /\ i \in Int
            BY <1>1, <2>1, <2>6
        <3> HIDE DEF i
        <3> QED
            BY <1>1, <2>9, <3>1, <3>2
    <2>12. Tried \subseteq Tried' /\ i \in Tried'
        BY <2>6
    <2> HIDE DEF i
    <2> QED
        BY <1>3, <2>7, <2>8, <2>9, <2>10, <2>11, <2>12, AttemptsGo
<1> QED
    BY <1>4, <1>5, <1>6

\* A new order of the route takes an attempt that none before it is missing.
LEMMA LinkKeepsAttempts ==
    ASSUME RouteRows, Attempts, NEW o, NEW s, NEW i \in Numbers, Link(o, i, s),
           \A j \in Numbers : j < i => j \in Tried,
           \A e \in Executors : exec'[e] = exec[e] \/ exec'[e] = Idle
    PROVE  Attempts'
<1>1. candidate \in [Numbers -> CandidateRow] /\ MaxAttempts \in Nat /\ Numbers = 1 .. MaxAttempts
    BY Constants DEF RouteRows
<1>2. /\ candidate'[i].state = "reserved"
      /\ \A j \in Numbers \ {i} : candidate'[j] = candidate[j]
    BY <1>1 DEF Link
<1>3. Tried' = Tried \cup {i}
    BY <1>2 DEF Tried
<1>4. \A j \in Numbers : candidate'[j].state # "reserved" => candidate'[j].order = Null
    BY <1>2 DEF Attempts
<1>5. \A k \in Tried', j \in Numbers : j < k => j \in Tried'
    BY <1>3 DEF Attempts
<1>6. ASSUME NEW e \in Executors
      PROVE  /\ \A j \in Numbers : j < exec'[e].number => j \in Tried'
             /\ exec'[e].at \in {"reserve", "mark"} => exec'[e].number \in Tried'
    <2>1. CASE exec'[e] = exec[e]
        BY <1>3, <2>1 DEF Attempts
    <2>2. CASE exec'[e] = Idle
        BY <1>1, <2>2 DEF Idle
    <2> QED
        BY <2>1, <2>2
<1> QED
    BY <1>4, <1>5, <1>6 DEF Attempts

-----------------------------------------------------------------------------

\* A step that changes neither the amounts nor the orders of the funding steps.
LEMMA SpentKept ==
    ASSUME steps \in Seq(StepRow), steps' \in Seq(StepRow), DOMAIN steps' = DOMAIN steps,
           \A i \in DOMAIN steps : steps'[i].amount = steps[i].amount,
           NEW from \in Nat \ {0}
    PROVE  Len(steps') = Len(steps) /\ Spent(from)' = Spent(from)
<1> DEFINE f == [i \in DOMAIN steps |-> steps[i].amount]
           g == [i \in DOMAIN steps' |-> steps'[i].amount]
<1>1. Len(steps) \in Nat /\ DOMAIN steps = 1 .. Len(steps) /\ Len(steps') = Len(steps)
    OBVIOUS
<1>2. IsFiniteSet(from .. Len(steps))
    BY <1>1, FS_Interval
<1>3. \A i \in from .. Len(steps) : f[i] = g[i]
    BY <1>1
<1>4. SumFunctionOnSet(f, from .. Len(steps)) = SumFunctionOnSet(g, from .. Len(steps))
    <2> HIDE DEF f, g
    <2> QED
        BY <1>2, <1>3, SumSame
<1> QED
    BY <1>1, <1>4 DEF Spent

\* One more funding step spends what it costs.
LEMMA SpentMore ==
    ASSUME steps \in Seq(StepRow), NEW new \in StepRow, steps' = Append(steps, new),
           NEW from \in Nat \ {0}, from <= Len(steps) + 1
    PROVE  Spent(from)' = Spent(from) + new.amount
<1> DEFINE f == [i \in DOMAIN steps |-> steps[i].amount]
           g == [i \in DOMAIN steps' |-> steps'[i].amount]
           n == Len(steps)
           S == from .. n
<1>1. /\ n \in Nat /\ DOMAIN steps = 1 .. n
      /\ DOMAIN steps' = 1 .. n + 1 /\ Len(steps') = n + 1
      /\ steps'[n + 1] = new /\ \A i \in 1 .. n : steps'[i] = steps[i] /\ steps[i] \in StepRow
    OBVIOUS
<1>2. IsFiniteSet(S) /\ n + 1 \notin S /\ from .. n + 1 = S \cup {n + 1}
    <2>1. n \in Nat /\ from \in Nat /\ from <= n + 1
        BY <1>1
    <2> HIDE DEF n
    <2>2. IsFiniteSet(S)
        BY <2>1, FS_Interval
    <2> QED
        BY <2>1, <2>2
<1>3. \A i \in S : f[i] = g[i]
    BY <1>1
<1>4. \A i \in S \cup {n + 1} : g[i] \in Int
    <2>1. \A i \in 1 .. n + 1 : steps'[i] \in StepRow
        BY <1>1
    <2> QED
        BY <1>1, <2>1 DEF StepRow
<1>5. g[n + 1] = new.amount
    BY <1>1
<1>6. SumFunctionOnSet(g, S \cup {n + 1}) = SumFunctionOnSet(g, S) + g[n + 1]
    <2> HIDE DEF g, S, n
    <2> QED
        BY <1>2, <1>4, SumAdd
<1>7. SumFunctionOnSet(f, S) = SumFunctionOnSet(g, S)
    <2> HIDE DEF f, g, S
    <2> QED
        BY <1>2, <1>3, SumSame
<1>8. SumFunctionOnSet(g, from .. n + 1) = SumFunctionOnSet(g, S \cup {n + 1})
    BY <1>2, Zenon
<1>9. Spent(from)' = SumFunctionOnSet(g, from .. n + 1)
    BY <1>1 DEF Spent
<1>10. Spent(from) = SumFunctionOnSet(f, S)
    BY DEF Spent
<1> HIDE DEF f, g, S, n
<1> QED
    BY <1>5, <1>6, <1>7, <1>8, <1>9, <1>10

\* The books of a step that books nothing.
LEMMA BooksKept ==
    ASSUME RouteRows, RouteRows', MandateBooks, Routed' = Routed,
           Mandated' = Mandated \/ Routed = {},
           mandate'.reserved = mandate.reserved, DOMAIN steps' = DOMAIN steps,
           \A i \in DOMAIN steps :
               steps'[i].order = steps[i].order /\ steps'[i].amount = steps[i].amount
    PROVE  MandateBooks'
<1>1. /\ steps \in Seq(StepRow) /\ steps' \in Seq(StepRow)
      /\ 1 \in Nat \ {0} /\ 2 \in Nat \ {0}
    BY DEF RouteRows
<1>2. Len(steps') = Len(steps) /\ Spent(1)' = Spent(1) /\ Spent(2)' = Spent(2)
    BY <1>1, SpentKept
<1> DEFINE before == {steps[i].order : i \in DOMAIN steps}
           after == {steps'[i].order : i \in DOMAIN steps'}
<1>3. after = before
    OBVIOUS
<1>4. Cardinality(after) = Cardinality(before)
    BY <1>3, Zenon
<1>5. /\ mandate.reserved = Spent(1) /\ mandate.reserved <= MaxAggregate
      /\ Spent(2) <= MaxRetryBudget /\ Len(steps) <= MaxSteps
      /\ before = IF Mandated THEN Routed ELSE {}
      /\ Len(steps) = Cardinality(before)
    BY DEF MandateBooks
<1>6. before = IF Mandated' THEN Routed' ELSE {}
    BY <1>5
<1> HIDE DEF before, after
<1>7. /\ mandate'.reserved = Spent(1)' /\ mandate'.reserved <= MaxAggregate
      /\ Spent(2)' <= MaxRetryBudget /\ Len(steps') <= MaxSteps
      /\ after = IF Mandated' THEN Routed' ELSE {}
      /\ Len(steps') = Cardinality(after)
    BY <1>2, <1>3, <1>4, <1>5, <1>6
<1> QED
    BY <1>7 DEF MandateBooks, after

\* The books with an order that is new to them.
LEMMA BooksAdded ==
    ASSUME RInv, MandateBooks, NEW o \in External, NEW s \in Services, NEW i \in Numbers,
           NEW retry \in BOOLEAN,
           candidate[i].order = Null, trade[o].status = "none", Link(o, i, s),
           \/ ReserveExposure(o, Price[s], retry)
           \/ UNCHANGED <<mandate, steps>> /\ ~ Mandated
    PROVE  MandateBooks'
<1>1. /\ candidate \in [Numbers -> CandidateRow] /\ steps \in Seq(StepRow)
      /\ mandate \in [state : {"none", "active", "inactive"}, reserved : Nat]
      /\ o # Null /\ Price[s] \in Nat
    BY Constants DEF RInv, RouteRows
<1>2. o \notin Routed
    BY DEF RInv, Links
<1>3. Routed' = Routed \cup {o}
    <2>1. /\ candidate'[i].order = o
          /\ \A j \in Numbers \ {i} : candidate'[j] = candidate[j]
        BY <1>1 DEF Link
    <2>2. Numbers' = Numbers
        BY DEF Numbers
    <2> QED
        BY <1>1, <2>1, <2>2 DEF Routed
<1>4. CASE UNCHANGED <<mandate, steps>> /\ ~ Mandated
    <2>1. Mandated' = Mandated /\ Spent(1)' = Spent(1) /\ Spent(2)' = Spent(2)
        BY <1>4 DEF Mandated, Spent
    <2> QED
        BY <1>4, <2>1 DEF MandateBooks
<1>5. CASE ReserveExposure(o, Price[s], retry)
    <2> DEFINE new == [order |-> o, amount |-> Price[s], state |-> "reserved"]
               before == {steps[j].order : j \in DOMAIN steps}
               after == {steps'[j].order : j \in DOMAIN steps'}
    <2>1. new \in StepRow /\ steps' = Append(steps, new) /\ new.amount = Price[s] /\ new.order = o
        BY <1>1, <1>5 DEF ReserveExposure, StepRow
    <2>2. /\ Len(steps) \in Nat /\ DOMAIN steps = 1 .. Len(steps)
          /\ DOMAIN steps' = 1 .. Len(steps) + 1 /\ Len(steps') = Len(steps) + 1
          /\ steps'[Len(steps) + 1] = new
          /\ \A j \in 1 .. Len(steps) : steps'[j] = steps[j]
        BY <1>1, <2>1
    <2>3. Mandated /\ Mandated'
        BY <1>1, <1>5 DEF ReserveExposure, Mandated
    <2>4. before = Routed /\ Len(steps) = Cardinality(before)
        BY <2>3 DEF MandateBooks
    <2>5. after = Routed \cup {o}
        <3>1. \A j \in 1 .. Len(steps) + 1 :
                  j \in 1 .. Len(steps) \/ j = Len(steps) + 1
            BY <2>2
        <3>2. steps'[Len(steps) + 1].order = o /\ Len(steps) + 1 \in DOMAIN steps'
            <4> HIDE DEF new
            <4>1. Len(steps) + 1 \in 1 .. Len(steps) + 1
                BY <2>2
            <4> QED
                BY <2>1, <2>2, <4>1
        <3>3. after \subseteq before \cup {o}
            <4> SUFFICES ASSUME NEW j \in DOMAIN steps'
                         PROVE  steps'[j].order \in before \cup {o}
                OBVIOUS
            <4>1. CASE j \in 1 .. Len(steps)
                BY <2>2, <4>1
            <4>2. CASE j = Len(steps) + 1
                BY <3>2, <4>2
            <4> QED
                BY <2>2, <3>1, <4>1, <4>2
        <3>4. before \cup {o} \subseteq after
            <4>1. \A j \in DOMAIN steps : j \in DOMAIN steps' /\ steps'[j] = steps[j]
                BY <2>2
            <4> QED
                BY <3>2, <4>1
        <3> QED
            BY <2>4, <3>3, <3>4
    <2>6. Cardinality(after) = Len(steps) + 1
        <3>1. IsFiniteSet(Routed)
            BY OrdersAssumption, FS_Subset DEF RInv, Links
        <3>2. Cardinality(Routed \cup {o}) = Cardinality(Routed) + 1
            BY <1>2, <3>1, FS_AddElement
        <3> HIDE DEF before, after
        <3> QED
            BY <2>4, <2>5, <3>2
    <2>7. Len(steps') <= MaxSteps
        <3>1. Len(steps) < MaxSteps /\ MaxSteps \in Int
            BY <1>5, RouteAssumption DEF ReserveExposure
        <3> QED
            BY <2>2, <3>1
    <2>8. Spent(1)' = Spent(1) + Price[s]
        <3>1. 1 \in Nat \ {0} /\ 1 <= Len(steps) + 1
            BY <2>2
        <3> HIDE DEF new
        <3> QED
            BY <1>1, <2>1, <3>1, SpentMore
    <2>9. mandate'.reserved = mandate.reserved + Price[s] /\ mandate'.reserved <= MaxAggregate
        BY <1>1, <1>5, RouteAssumption DEF ReserveExposure
    <2>10. Spent(2)' <= MaxRetryBudget
        <3>1. CASE retry
            <4>1. steps # <<>> /\ Spent(2) + Price[s] <= MaxRetryBudget
                BY <1>5, <3>1 DEF ReserveExposure
            <4>2. 2 \in Nat \ {0} /\ 2 <= Len(steps) + 1
                BY <1>1, <2>2, <4>1
            <4>3. Spent(2)' = Spent(2) + Price[s]
                <5> HIDE DEF new
                <5> QED
                    BY <1>1, <2>1, <4>2, SpentMore
            <4> QED
                BY <4>1, <4>3
        <3>2. CASE ~ retry
            <4>0. steps = <<>>
                BY <1>5, <3>2 DEF ReserveExposure
            <4>1. Len(steps') = 1
                BY <2>2, <4>0
            <4>2. 2 .. Len(steps') = {}
                BY <4>1
            <4>3. Spent(2)' = SumFunctionOnSet([j \in DOMAIN steps |-> steps[j].amount]', {})
                BY <4>2 DEF Spent
            <4>4. Spent(2)' = 0
                BY <4>3, SumEmpty
            <4> QED
                BY <4>4, RouteAssumption
        <3> QED
            BY <3>1, <3>2
    <2> HIDE DEF new
    <2> QED
        BY <1>3, <2>3, <2>5, <2>6, <2>7, <2>8, <2>9, <2>10, <2>2 DEF MandateBooks
<1> QED
    BY <1>4, <1>5

\* No money is reserved at the start.
LEMMA InitBooks == RouteInit => BooksInv
<1> SUFFICES ASSUME RouteInit PROVE BooksInv
    OBVIOUS
<1>1. RInv
    BY InitRInv
<1>2. Routed = {} /\ Tried = {} /\ ~ Mandated /\ steps = <<>> /\ mandate.reserved = 0
    BY DEF RouteInit, Routed, Tried, Mandated
<1>3. MaxAttempts \in Nat /\ Numbers = 1 .. MaxAttempts
    BY Constants
<1>4. Attempts
    BY <1>2, <1>3 DEF RouteInit, Attempts, Idle
<1>5. Len(steps) = 0 /\ DOMAIN steps = {}
    BY <1>2
<1>6. Spent(1) = 0 /\ Spent(2) = 0
    <2>1. 1 .. 0 = {} /\ 2 .. 0 = {}
        OBVIOUS
    <2> QED
        BY <1>5, <2>1, SumEmpty DEF Spent
<1> DEFINE booked == {steps[i].order : i \in DOMAIN steps}
<1>7. booked = {} /\ Cardinality(booked) = 0
    <2>1. booked = {}
        BY <1>5
    <2> HIDE DEF booked
    <2> QED
        BY <2>1, FS_EmptySet
<1>8. MaxAggregate \in Nat /\ MaxRetryBudget \in Nat /\ 0 <= MaxSteps
    BY RouteAssumption
<1> HIDE DEF booked
<1>9. /\ mandate.reserved = Spent(1) /\ mandate.reserved <= MaxAggregate
      /\ Spent(2) <= MaxRetryBudget /\ Len(steps) <= MaxSteps
      /\ booked = IF Mandated THEN Routed ELSE {}
      /\ Len(steps) = Cardinality(booked)
    BY <1>2, <1>5, <1>6, <1>7, <1>8
<1>10. MandateBooks
    BY <1>9 DEF MandateBooks, booked
<1> QED
    BY <1>1, <1>4, <1>10 DEF BooksInv

\* The transactions that link an order.
LEMMA LinksKeepBooks ==
    ASSUME BooksInv, NEW o \in Orders,
           \/ \E e \in Executors : ReserveForRoute(e, o)
           \/ \E s \in Services : Retry(o, s)
    PROVE  Attempts' /\ MandateBooks'
<1>1. RInv /\ Attempts /\ MandateBooks /\ RouteRows
    BY DEF BooksInv, RInv
<1>2. ASSUME NEW e \in Executors, ReserveForRoute(e, o)
      PROVE  Attempts' /\ MandateBooks'
    <2> DEFINE i == exec[e].number
               s == Candidates[i]
    <2>1. i \in Numbers /\ s \in Services /\ o \in External
        BY <1>1, <1>2, Constants DEF ReserveForRoute, RouteRows
    <2>2. /\ Link(o, i, s) /\ trade[o].status = "none" /\ candidate[i].state = "checking"
          /\ exec[e].mandated => ReserveExposure(o, Price[s], FALSE)
          /\ ~ exec[e].mandated => UNCHANGED <<mandate, steps>> /\ ~ Mandated
          /\ End(e)
        BY <1>2 DEF ReserveForRoute, Reserve, MandateNamed
    <2>3. candidate[i].order = Null
        BY <1>1, <2>1, <2>2 DEF Attempts
    <2>4. \A j \in Numbers : j < i => j \in Tried
        BY <1>1 DEF Attempts
    <2>5. \A f \in Executors : exec'[f] = exec[f] \/ exec'[f] = Idle
        BY <1>1, <2>2 DEF End, RouteRows
    <2> HIDE DEF i, s
    <2> QED
        BY <1>1, <2>1, <2>2, <2>3, <2>4, <2>5, LinkKeepsAttempts, BooksAdded
<1>3. ASSUME NEW s \in Services, Retry(o, s)
      PROVE  Attempts' /\ MandateBooks'
    <2> DEFINE i == Cardinality(Tried) + 1
    <2>1. /\ i \in Numbers /\ o \in External /\ Link(o, i, s) /\ trade[o].status = "none"
          /\ ReserveExposure(o, Price[s], TRUE) /\ exec' = exec
        BY <1>3 DEF Retry, Reserve
    <2>2. i \notin Tried /\ \A j \in Numbers : j < i => j \in Tried
        <3>1. i = Cardinality(Tried) + 1
            OBVIOUS
        <3> HIDE DEF i
        <3> QED
            BY <1>1, <2>1, <3>1, NextNumber
    <2> HIDE DEF i
    <2>3. candidate[i].order = Null
        BY <1>1, <2>1, <2>2 DEF Attempts, Tried
    <2> QED
        BY <1>1, <2>1, <2>2, <2>3, LinkKeepsAttempts, BooksAdded
<1> QED
    BY <1>2, <1>3

\* Everything else leaves the books as they are; a mandate comes when there is no
\* order to book yet.
LEMMA OthersKeepBooks ==
    ASSUME BooksInv, RouteRows',
           \/ RouteExpires \/ CancelPlan \/ CreateMandate \/ EndMandate \/ UNCHANGED routedVars
           \/ \E e \in Executors :
                  \/ StartExecution(e) \/ ClaimRoute(e) \/ BeginAttempt(e) \/ Exhaust(e)
                  \/ Refuse(e) \/ MarkIneligible(e) \/ FailRoute(e) \/ Crash(e)
           \/ \E o \in Orders :
                  \/ FundOrder(o) \/ RejectOrderFunding(o) \/ LateOrderPayment(o)
                  \/ ConfirmOrder(o) \/ AdvanceRoute(o) \/ BesideRoute(o)
    PROVE  Attempts' /\ MandateBooks'
<1>1. RInv /\ Attempts /\ MandateBooks /\ RouteRows
    BY DEF BooksInv, RInv
<1>2. /\ candidate \in [Numbers -> CandidateRow]
      /\ mandate \in [state : {"none", "active", "inactive"}, reserved : Nat]
    BY <1>1 DEF RouteRows
<1>3. CASE \E e \in Executors :
               \/ StartExecution(e) \/ ClaimRoute(e) \/ BeginAttempt(e) \/ Exhaust(e)
               \/ Refuse(e) \/ MarkIneligible(e) \/ FailRoute(e) \/ Crash(e)
    <2>1. Attempts'
        BY <1>1, <1>3, RequestsKeepAttempts
    <2>2. UNCHANGED <<mandate, steps>>
        BY <1>3 DEF StartExecution, ClaimRoute, BeginAttempt, Exhaust, Refuse, MarkIneligible,
                    FailRoute, Crash
    <2>3. Mandated' = Mandated
        BY <2>2 DEF Mandated
    <2>4. \A i \in Numbers : candidate'[i].order = candidate[i].order
        <3>1. CASE UNCHANGED candidate
            BY <3>1
        <3>2. ASSUME NEW e \in Executors, BeginAttempt(e)
              PROVE  \A i \in Numbers : candidate'[i].order = candidate[i].order
            BY <1>2, <3>2 DEF BeginAttempt, CandidateRow
        <3>3. ASSUME NEW e \in Executors, MarkIneligible(e)
              PROVE  \A i \in Numbers : candidate'[i].order = candidate[i].order
            BY <1>2, <3>3 DEF MarkIneligible, CandidateRow
        <3> QED
            BY <1>3, <3>1, <3>2, <3>3 DEF StartExecution, ClaimRoute, Exhaust, Refuse, FailRoute, Crash
    <2>5. Routed' = Routed
        BY <2>4, RoutedSame
    <2> QED
        BY <1>1, <2>1, <2>2, <2>3, <2>5, BooksKept
<1>4. CASE ~ \E e \in Executors :
               \/ StartExecution(e) \/ ClaimRoute(e) \/ BeginAttempt(e) \/ Exhaust(e)
               \/ Refuse(e) \/ MarkIneligible(e) \/ FailRoute(e) \/ Crash(e)
    <2>1. UNCHANGED <<candidate, exec>>
        BY <1>4 DEF RouteExpires, CancelPlan, CreateMandate, EndMandate, routedVars, routeVars,
                    FundOrder, RejectOrderFunding, LateOrderPayment, ConfirmOrder, AdvanceRoute,
                    BesideRoute
    <2>2. Tried' = Tried /\ Routed' = Routed
        BY <2>1 DEF Tried, Routed
    <2>3. Attempts'
        BY <1>1, <2>1, <2>2 DEF Attempts
    <2>4. Mandated' = Mandated \/ Routed = {}
        <3>1. CASE CreateMandate
            BY <1>1, <3>1 DEF CreateMandate, RInv, Links
        <3>2. CASE EndMandate
            BY <1>2, <3>2 DEF EndMandate, Mandated
        <3>3. CASE UNCHANGED mandate
            BY <3>3 DEF Mandated
        <3> QED
            BY <1>4, <3>1, <3>2, <3>3 DEF RouteExpires, CancelPlan, routedVars, routeVars,
                    FundOrder, RejectOrderFunding, LateOrderPayment, ConfirmOrder, AdvanceRoute,
                    BesideRoute
    <2>5. mandate'.reserved = mandate.reserved
        BY <1>2, <1>4 DEF RouteExpires, CancelPlan, CreateMandate, EndMandate, routedVars, routeVars,
                    FundOrder, RejectOrderFunding, LateOrderPayment, ConfirmOrder, AdvanceRoute,
                    BesideRoute
    <2>6. /\ DOMAIN steps' = DOMAIN steps
          /\ \A i \in DOMAIN steps :
                 steps'[i].order = steps[i].order /\ steps'[i].amount = steps[i].amount
        <3>1. CASE UNCHANGED steps
            BY <3>1
        <3>2. CASE \E o \in Orders : \E state \in {"funded", "rejected"} : RecordFunding(o, state)
            BY <1>1, <3>2, FundingRows
        <3> QED
            BY <1>4, <3>1, <3>2 DEF RouteExpires, CancelPlan, CreateMandate, EndMandate, routedVars,
                    routeVars, FundOrder, RejectOrderFunding, LateOrderPayment, ConfirmOrder,
                    AdvanceRoute, BesideRoute
    <2> QED
        BY <1>1, <2>2, <2>3, <2>4, <2>5, <2>6, BooksKept
<1> QED
    BY <1>3, <1>4

\* Every step of the routes keeps the mandate's books.
LEMMA BooksStep ==
    ASSUME BooksInv, [RouteNext]_routedVars
    PROVE  BooksInv'
<1>1. RInv' /\ RouteRows'
    BY RInvStep, RowsStep DEF BooksInv, RInv
<1>2. Attempts' /\ MandateBooks'
    BY <1>1, LinksKeepBooks, OthersKeepBooks DEF RouteNext
<1> QED
    BY <1>1, <1>2 DEF BooksInv

\* What a mandate reserved is what the steps it paid for cost, within its limits
\* on the whole, on the retries and on their number; and however requests race to
\* execute the route while the mandate is created, reserveMandateExposure books
\* every order of the route exactly once, or none if the route has no mandate.
THEOREM MandatesAddUp == RoutedSpec => []MandateBooks
<1>1. BooksInv => MandateBooks
    BY DEF BooksInv
<1> QED
    BY <1>1, InitBooks, BooksStep, PTL DEF RoutedSpec

=============================================================================
