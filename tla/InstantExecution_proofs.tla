----------------------- MODULE InstantExecution_proofs -----------------------
(***************************************************************************)
(* The books of instant sessions are right for any number of sessions,     *)
(* calls and workers: a session's amounts are those of its calls, nothing  *)
(* is left behind in a closed one, and the service is never overbooked.    *)
(*                                                                         *)
(* The argument: every transaction moves calls out of a session's set of   *)
(* open calls, and takes the unit price for each of them from held_minor;  *)
(* so held_minor reaches 0 exactly when no call is open, which is the      *)
(* moment finalizeSession closes the session.                              *)
(***************************************************************************)
EXTENDS InstantExecution, SumLemmas

\* The rows have their types (the part of TypeOK that is about sessions and calls).
Rows ==
    /\ session \in [Sessions -> [status : {"none", "open", "closing", "closed"},
                                 balance : Nat, held : Nat, spent : Nat, refunded : Nat]]
    /\ call \in [Calls -> [state : {"none", "completed", "failed"} \cup InProgress,
                           session : Sessions \cup {Null}, worker : Workers \cup {Null}]]

\* A session that was never opened has an empty row.
UnopenedIsEmpty ==
    \A s \in Sessions : session[s].status = "none" => session[s] = NoSession

\* Only a claim gives a call its worker.
UnclaimedIsFree ==
    \A c \in Calls : call[c].state \in {"none", "pending"} => call[c].worker = Null

\* A call that was created belongs to a session.
CallsHaveSessions ==
    \A c \in Calls : call[c].state # "none" => call[c].session \in Sessions

IInv ==
    /\ Rows
    /\ CallsHaveSessions
    /\ SessionsAddUp
    /\ UnopenedIsEmpty
    /\ ClosedIsSettled
    /\ UnclaimedIsFree
    /\ CapacityIsKept
    /\ late \subseteq Calls

-----------------------------------------------------------------------------

\* Removing a part from a finite set leaves the difference of the sizes.
LEMMA DifferenceSize ==
    ASSUME NEW S, IsFiniteSet(S), NEW T \in SUBSET S
    PROVE  /\ IsFiniteSet(S \ T)
           /\ Cardinality(S) \in Nat /\ Cardinality(T) \in Nat
           /\ Cardinality(S \ T) = Cardinality(S) - Cardinality(T)
<1>1. IsFiniteSet(T) /\ IsFiniteSet(S \ T)
    BY FS_Subset
<1>2. Cardinality((S \ T) \cup T)
        = Cardinality(S \ T) + Cardinality(T) - Cardinality((S \ T) \cap T)
    BY <1>1, FS_Union
<1>3. (S \ T) \cup T = S /\ (S \ T) \cap T = {}
    OBVIOUS
<1>4. Cardinality((S \ T) \cap T) = 0
    BY <1>3, FS_EmptySet, Zenon
<1>5. Cardinality((S \ T) \cup T) = Cardinality(S)
    BY <1>3, Zenon
<1>6. Cardinality(S) \in Nat /\ Cardinality(T) \in Nat /\ Cardinality(S \ T) \in Nat
    BY <1>1, FS_CardinalityType
<1> QED
    BY <1>1, <1>2, <1>4, <1>5, <1>6

\* Adding a disjoint part to a finite set adds the sizes.
LEMMA UnionSize ==
    ASSUME NEW S, IsFiniteSet(S), NEW T, IsFiniteSet(T), S \cap T = {}
    PROVE  Cardinality(S \cup T) = Cardinality(S) + Cardinality(T)
<1>1. Cardinality(S \cup T) = Cardinality(S) + Cardinality(T) - Cardinality(S \cap T)
    BY FS_Union
<1>2. Cardinality(S \cap T) = 0
    BY FS_EmptySet
<1>3. Cardinality(S) \in Nat /\ Cardinality(T) \in Nat
    BY FS_CardinalityType
<1> QED
    BY <1>1, <1>2, <1>3

\* Every set of calls is finite and its size is a natural.
LEMMA CallSets ==
    ASSUME NEW S \in SUBSET Calls
    PROVE  IsFiniteSet(S) /\ Cardinality(S) \in Nat
BY InstantAssumption, FS_Subset, FS_CardinalityType

\* The price of a difference, and that no number of calls has a negative price.
LEMMA PriceOfDifference ==
    ASSUME NEW o \in Nat, NEW f \in Nat, NEW p \in Nat
    PROVE  /\ Price * (o - f - p) = Price * o - Price * f - Price * p
           /\ Price * (o + p) = Price * o + Price * p
           /\ Price * o \in Nat /\ Price * f \in Nat /\ Price * p \in Nat
BY InstantAssumption

-----------------------------------------------------------------------------

\* The row of s when these of its open calls have failed and been paid.
RowIsRight(s, failed, paid) ==
    LET row == Charged(s, failed, paid)
    IN  /\ row \in [status : {"none", "open", "closing", "closed"},
                    balance : Nat, held : Nat, spent : Nat, refunded : Nat]
        /\ row.status = session[s].status
        /\ row.held = Price * Cardinality(Open(s) \ (failed \cup paid))
        /\ row.spent = Price * Cardinality(Completed(s) \cup (paid \cap CallsOf(s)))
        /\ row.held <= row.balance
        /\ row.balance + row.spent + row.refunded
             = session[s].balance + session[s].spent + session[s].refunded
        /\ Open(s) = {} => row = session[s]

\* The arithmetic of one transaction (failCall, the charge, finalizeSession) on the
\* row of one session, with o open and k completed calls before it, of which f fail
\* and p are paid.
LEMMA RowAddsUp ==
    ASSUME NEW s \in Sessions, IInv,
           NEW failed \in SUBSET Calls, NEW paid \in SUBSET Calls,
           failed \cap paid = {},
           failed \cap CallsOf(s) \subseteq Open(s),
           paid \cap CallsOf(s) \subseteq Open(s)
    PROVE  RowIsRight(s, failed, paid)
<1> DEFINE F == failed \cap CallsOf(s)
           P == paid \cap CallsOf(s)
           open == Open(s) \ (failed \cup paid)
           completed == Completed(s) \cup P
           row == Charged(s, failed, paid)
<1>1. F \in SUBSET Calls /\ P \in SUBSET Calls /\ Open(s) \in SUBSET Calls
      /\ Completed(s) \in SUBSET Calls /\ F \cup P \in SUBSET Open(s)
    BY DEF CallsOf, Open, Completed
<1>2. /\ IsFiniteSet(F) /\ IsFiniteSet(P) /\ IsFiniteSet(Open(s)) /\ IsFiniteSet(Completed(s))
      /\ Cardinality(F) \in Nat /\ Cardinality(P) \in Nat
      /\ Cardinality(Open(s)) \in Nat /\ Cardinality(Completed(s)) \in Nat
    BY <1>1, CallSets
<1>3. Cardinality(F \cup P) = Cardinality(F) + Cardinality(P)
    <2>1. F \cap P = {}
        OBVIOUS
    <2> QED
        BY <1>2, <2>1, UnionSize
<1>4. Cardinality(open) = Cardinality(Open(s)) - Cardinality(F) - Cardinality(P)
    <2>1. open = Open(s) \ (F \cup P)
        BY DEF Open
    <2>2. Cardinality(Open(s) \ (F \cup P)) = Cardinality(Open(s)) - Cardinality(F \cup P)
        BY <1>1, <1>2, DifferenceSize
    <2>3. Cardinality(open) = Cardinality(Open(s) \ (F \cup P))
        BY <2>1, Zenon
    <2> HIDE DEF F, P, open
    <2> QED
        BY <1>2, <1>3, <2>2, <2>3
<1>5. Cardinality(completed) = Cardinality(Completed(s)) + Cardinality(P)
    <2>1. Completed(s) \cap P = {}
        BY DEF Open, Completed, InProgress
    <2> QED
        BY <1>2, <2>1, UnionSize
<1>6. Cardinality(open) \in Nat /\ Cardinality(completed) \in Nat
    BY <1>1, CallSets
<1>7. /\ session[s] \in [status : {"none", "open", "closing", "closed"},
                         balance : Nat, held : Nat, spent : Nat, refunded : Nat]
      /\ session[s].held = Price * Cardinality(Open(s))
      /\ session[s].spent = Price * Cardinality(Completed(s))
      /\ session[s].held <= session[s].balance
    BY DEF IInv, Rows, SessionsAddUp
<1>8. row = [session[s] EXCEPT !.held = @ - Price * Cardinality(F) - Price * Cardinality(P),
                               !.balance = @ - Price * Cardinality(P),
                               !.spent = @ + Price * Cardinality(P)]
    BY DEF Charged
<1>9. /\ Price * Cardinality(open)
            = Price * Cardinality(Open(s)) - Price * Cardinality(F) - Price * Cardinality(P)
      /\ Price * Cardinality(completed)
            = Price * Cardinality(Completed(s)) + Price * Cardinality(P)
      /\ Price * Cardinality(F) \in Nat /\ Price * Cardinality(P) \in Nat
      /\ Price * Cardinality(open) \in Nat
    <2>1. Price * Cardinality(open) \in Nat
        BY <1>6, PriceOfDifference
    <2> QED
        BY <1>2, <1>4, <1>5, <2>1, PriceOfDifference
<1>10. Open(s) = {} => Price * Cardinality(F) = 0 /\ Price * Cardinality(P) = 0
    <2>1. Open(s) = {} => Cardinality(F) = 0 /\ Cardinality(P) = 0
        BY <1>1, FS_EmptySet
    <2> QED
        BY <2>1, InstantAssumption
<1> DEFINE f == Price * Cardinality(F)
           p == Price * Cardinality(P)
           x == session[s]
<1> HIDE DEF F, P, open, completed, row
<1>11. row = [status |-> x.status, balance |-> x.balance - p, held |-> x.held - f - p,
              spent |-> x.spent + p, refunded |-> x.refunded]
    BY <1>7, <1>8
<1>12. f \in Nat /\ p \in Nat /\ Price * Cardinality(open) = x.held - f - p
       /\ Price * Cardinality(completed) = x.spent + p
       /\ Price * Cardinality(open) \in Nat
       /\ x.held <= x.balance
    BY <1>7, <1>9
<1>13. Open(s) = {} => f = 0 /\ p = 0
    BY <1>10
<1>14. x \in [status : {"none", "open", "closing", "closed"},
              balance : Nat, held : Nat, spent : Nat, refunded : Nat]
    BY <1>7
<1> HIDE DEF f, p, x
<1>15. /\ row \in [status : {"none", "open", "closing", "closed"},
                   balance : Nat, held : Nat, spent : Nat, refunded : Nat]
       /\ row.status = x.status
       /\ row.held = Price * Cardinality(open)
       /\ row.spent = Price * Cardinality(completed)
       /\ row.held <= row.balance
       /\ row.balance + row.spent + row.refunded = x.balance + x.spent + x.refunded
    BY <1>11, <1>12, <1>14
<1>16. Open(s) = {} => row = x
    BY <1>11, <1>13, <1>14
<1> QED
    BY <1>15, <1>16 DEF F, P, open, completed, row, x, RowIsRight

-----------------------------------------------------------------------------

\* The calls of a set fail, those of another are completed, and a pending call may
\* become claimed; no other call changes its state or session.
Moves(failed, paid) ==
    \A c \in Calls :
        /\ call'[c].session = call[c].session
        /\ c \in failed => call'[c].state = "failed"
        /\ c \in paid => call'[c].state = "completed"
        /\ c \notin failed \cup paid =>
            \/ call'[c].state = call[c].state
            \/ call[c].state = "pending" /\ call'[c].state = "claimed"

\* What such a step does to the open and the completed calls of a session.
LEMMA MovedSets ==
    ASSUME NEW failed \in SUBSET Calls, NEW paid \in SUBSET Calls, failed \cap paid = {},
           \A c \in failed \cup paid : call[c].state \in InProgress,
           Moves(failed, paid), NEW s \in Sessions
    PROVE  /\ Open(s)' = Open(s) \ (failed \cup paid)
           /\ Completed(s)' = Completed(s) \cup (paid \cap CallsOf(s))
BY DEF Moves, Open, Completed, CallsOf, InProgress

\* No step that only moves calls on, while time passes, makes the service busier.
LEMMA MovesKeepCapacity ==
    ASSUME CapacityIsKept, late \subseteq late',
           \A c \in Calls : call'[c].state \in InProgress => call[c].state \in InProgress
    PROVE  CapacityIsKept'
<1>1. Occupying \in SUBSET Calls /\ Occupying' \in SUBSET Occupying
    BY DEF Occupying
<1>2. IsFiniteSet(Occupying) /\ Cardinality(Occupying) \in Nat
    BY <1>1, CallSets
<1>3. Occupying' \in SUBSET Calls
    BY <1>1
<1>4. Cardinality(Occupying') \in Nat
    BY <1>3, CallSets
<1>5. Cardinality(Occupying') <= Cardinality(Occupying)
    BY <1>1, <1>2, FS_Subset
<1> QED
    BY <1>2, <1>4, <1>5, InstantAssumption DEF CapacityIsKept

\* One transaction keeps the books of one session.
LEMMA SessionKept ==
    ASSUME IInv, NEW failed \in SUBSET Calls, NEW paid \in SUBSET Calls,
           failed \cap paid = {},
           \A c \in failed \cup paid : call[c].state \in InProgress,
           Moves(failed, paid),
           NEW wound \in SUBSET Sessions,
           \A s \in wound : session[s].status \in {"open", "closing"},
           Books(failed, paid, wound),
           NEW s \in Sessions
    PROVE  /\ session'[s] \in [status : {"none", "open", "closing", "closed"},
                               balance : Nat, held : Nat, spent : Nat, refunded : Nat]
           /\ session'[s].held = Price * Cardinality(Open(s)')
           /\ session'[s].spent = Price * Cardinality(Completed(s)')
           /\ session'[s].held <= session'[s].balance
           /\ session'[s].status # "none" =>
                session'[s].balance + session'[s].spent + session'[s].refunded = Budget[s]
           /\ session'[s].status = "none" => session'[s] = NoSession
           /\ session'[s].status = "closed" =>
                session'[s].balance = 0 /\ session'[s].held = 0 /\ Open(s)' = {}
<1> DEFINE row == Charged(s, failed, paid)
           open == Open(s) \ (failed \cup paid)
           completed == Completed(s) \cup (paid \cap CallsOf(s))
<1>1. Open(s)' = open /\ Completed(s)' = completed
    BY MovedSets
<1>2. failed \cap CallsOf(s) \subseteq Open(s) /\ paid \cap CallsOf(s) \subseteq Open(s)
    BY DEF Open, CallsOf
<1>3. /\ row \in [status : {"none", "open", "closing", "closed"},
                  balance : Nat, held : Nat, spent : Nat, refunded : Nat]
      /\ row.status = session[s].status
      /\ row.held = Price * Cardinality(open)
      /\ row.spent = Price * Cardinality(completed)
      /\ row.held <= row.balance
      /\ row.balance + row.spent + row.refunded
           = session[s].balance + session[s].spent + session[s].refunded
      /\ Open(s) = {} => row = session[s]
    <2>1. RowIsRight(s, failed, paid)
        BY <1>2, RowAddsUp
    <2> QED
        BY <2>1 DEF RowIsRight
<1>4. session'[s] = IF s \in wound THEN Finalized(s, row) ELSE row
    BY DEF Books
<1>5. /\ session[s].status # "none" =>
            session[s].balance + session[s].spent + session[s].refunded = Budget[s]
      /\ session[s].status = "none" => session[s] = NoSession
      /\ session[s].status = "closed" =>
            session[s].balance = 0 /\ session[s].held = 0 /\ Open(s) = {}
      /\ session[s].held = Price * Cardinality(Open(s))
    BY DEF IInv, SessionsAddUp, UnopenedIsEmpty, ClosedIsSettled
<1>6. open \in SUBSET Calls /\ Open(s) \in SUBSET Calls
    BY DEF Open, CallsOf
<1>7. row.held = 0 => open = {}
    <2>1. Cardinality(open) \in Nat /\ IsFiniteSet(open)
        BY <1>6, CallSets
    <2>2. Price * Cardinality(open) = 0 => Cardinality(open) = 0
        BY <2>1, InstantAssumption
    <2> QED
        BY <1>3, <2>1, <2>2, FS_EmptySet
<1>8. session[s].status = "none" => Open(s) = {}
    <2>1. Cardinality(Open(s)) \in Nat /\ IsFiniteSet(Open(s))
        BY <1>6, CallSets
    <2>2. Price * Cardinality(Open(s)) = 0 => Cardinality(Open(s)) = 0
        BY <2>1, InstantAssumption
    <2>3. session[s].status = "none" => session[s].held = 0
        BY <1>5 DEF NoSession
    <2> QED
        BY <1>5, <2>1, <2>2, <2>3, FS_EmptySet
<1>9. Open(s) = {} => open = {}
    OBVIOUS
<1> HIDE DEF row, open, completed
<1>10. CASE s \notin wound
    BY <1>1, <1>3, <1>4, <1>5, <1>8, <1>9, <1>10
<1>11. CASE s \in wound /\ row.held > 0
    <2>1. session'[s] = [row EXCEPT !.status = "closing"]
        BY <1>4, <1>11 DEF Finalized
    <2>2. session[s].status \in {"open", "closing"}
        BY <1>11
    <2> QED
        BY <1>1, <1>3, <1>5, <2>1, <2>2
<1>12. CASE s \in wound /\ ~ row.held > 0
    <2>1. session'[s] = [row EXCEPT !.status = "closed", !.balance = 0,
                                    !.refunded = @ + row.balance]
        BY <1>4, <1>12 DEF Finalized
    <2>2. session[s].status \in {"open", "closing"}
        BY <1>12
    <2>3. row.held = 0
        BY <1>3, <1>12
    <2>4. session'[s] = [status |-> "closed", balance |-> 0, held |-> 0,
                         spent |-> row.spent, refunded |-> row.refunded + row.balance]
        BY <1>3, <2>1, <2>3
    <2> QED
        BY <1>1, <1>3, <1>5, <1>7, <2>2, <2>3, <2>4
<1> QED
    BY <1>10, <1>11, <1>12

\* One transaction keeps the inductive invariant.
LEMMA TransactKeepsIInv ==
    ASSUME IInv, NEW failed \in SUBSET Calls, NEW paid \in SUBSET Calls,
           failed \cap paid = {},
           \A c \in failed \cup paid : call[c].state \in InProgress,
           call' \in [Calls -> [state : {"none", "completed", "failed"} \cup InProgress,
                                session : Sessions \cup {Null},
                                worker : Workers \cup {Null}]],
           Moves(failed, paid), UnclaimedIsFree',
           NEW wound \in SUBSET Sessions,
           \A s \in wound : session[s].status \in {"open", "closing"},
           Transact(failed, paid, wound)
    PROVE  IInv'
<1>1. Books(failed, paid, wound) /\ late' = late
    BY DEF Transact
<1>2. DOMAIN session' = Sessions /\ session' = [s \in Sessions |-> session'[s]]
    BY <1>1 DEF Books
<1>3. session' \in [Sessions -> [status : {"none", "open", "closing", "closed"},
                                 balance : Nat, held : Nat, spent : Nat, refunded : Nat]]
    BY <1>1, <1>2, SessionKept
<1>4. SessionsAddUp' /\ UnopenedIsEmpty' /\ ClosedIsSettled'
    BY <1>1, SessionKept DEF SessionsAddUp, UnopenedIsEmpty, ClosedIsSettled
<1>5. CapacityIsKept'
    <2>1. \A c \in Calls : call'[c].state \in InProgress => call[c].state \in InProgress
        BY DEF Moves, InProgress
    <2> QED
        BY <1>1, <2>1, MovesKeepCapacity DEF IInv
<1>6. CallsHaveSessions'
    BY DEF Moves, IInv, CallsHaveSessions, InProgress
<1> QED
    BY <1>1, <1>3, <1>4, <1>5, <1>6 DEF IInv, Rows

\* failCall and the charge move calls, whatever the reason they are called for.
LEMMA CallsAfterMoves ==
    ASSUME IInv, NEW failed \in SUBSET Calls, NEW paid \in SUBSET Calls,
           failed \cap paid = {},
           \A c \in failed \cup paid : call[c].state \in InProgress,
           call' = CallsAfter(failed, paid)
    PROVE  /\ call' \in [Calls -> [state : {"none", "completed", "failed"} \cup InProgress,
                                   session : Sessions \cup {Null},
                                   worker : Workers \cup {Null}]]
           /\ Moves(failed, paid)
           /\ UnclaimedIsFree'
           /\ \A c \in Calls : call'[c].worker = call[c].worker
<1>1. call \in [Calls -> [state : {"none", "completed", "failed"} \cup InProgress,
                          session : Sessions \cup {Null}, worker : Workers \cup {Null}]]
    BY DEF IInv, Rows
<1>2. \A c \in Calls :
        call'[c] = IF c \in failed THEN [call[c] EXCEPT !.state = "failed"]
                   ELSE IF c \in paid THEN [call[c] EXCEPT !.state = "completed"]
                   ELSE call[c]
    BY DEF CallsAfter
<1>3. call' \in [Calls -> [state : {"none", "completed", "failed"} \cup InProgress,
                           session : Sessions \cup {Null}, worker : Workers \cup {Null}]]
    BY <1>1 DEF CallsAfter, InProgress
<1>4. Moves(failed, paid)
    BY <1>1, <1>2 DEF Moves
<1>5. UnclaimedIsFree'
    BY <1>1, <1>2 DEF IInv, UnclaimedIsFree
<1>6. \A c \in Calls : call'[c].worker = call[c].worker
    BY <1>1, <1>2
<1> QED
    BY <1>3, <1>4, <1>5, <1>6

\* The sessions finalizeSession goes on with are open or closing.
LEMMA WindingSessions ==
    ASSUME NEW S \in SUBSET Sessions
    PROVE  /\ WindingAmong(S) \in SUBSET Sessions
           /\ \A s \in WindingAmong(S) : session[s].status \in {"open", "closing"}
BY DEF WindingAmong, Winding

\* The calls that are given up are calls in progress.
LEMMA GivenUpCalls ==
    ASSUME NEW s
    PROVE  /\ Abandoned(s) \in SUBSET Calls /\ Expiring(s) \in SUBSET Calls
           /\ \A c \in Abandoned(s) \cup Expiring(s) : call[c].state \in InProgress
BY DEF Abandoned, Expiring, Open, CallsOf

\* A transaction that fails and pays calls in progress keeps the inductive invariant.
LEMMA TransactionKeepsIInv ==
    ASSUME IInv, NEW failed \in SUBSET Calls, NEW paid \in SUBSET Calls,
           failed \cap paid = {},
           \A c \in failed \cup paid : call[c].state \in InProgress,
           NEW wound \in SUBSET Sessions,
           \A s \in wound : session[s].status \in {"open", "closing"},
           call' = CallsAfter(failed, paid),
           Transact(failed, paid, wound)
    PROVE  IInv'
BY CallsAfterMoves, TransactKeepsIInv

-----------------------------------------------------------------------------

\* The initial state satisfies the inductive invariant.
LEMMA InitIInv == Init => IInv
<1> SUFFICES ASSUME Init PROVE IInv
    OBVIOUS
<1>1. Rows /\ CallsHaveSessions /\ UnopenedIsEmpty /\ UnclaimedIsFree /\ ClosedIsSettled
    BY DEF Init, Rows, CallsHaveSessions, UnopenedIsEmpty, UnclaimedIsFree, ClosedIsSettled,
           NoSession, NoCall
<1>5. late \subseteq Calls
    BY DEF Init
<1>2. \A s \in Sessions : Open(s) = {} /\ Completed(s) = {}
    BY DEF Init, Open, Completed, CallsOf, NoCall, InProgress
<1>3. SessionsAddUp
    <2>1. \A s \in Sessions : Cardinality(Open(s)) = 0 /\ Cardinality(Completed(s)) = 0
        BY <1>2, FS_EmptySet
    <2> QED
        BY <2>1, InstantAssumption DEF Init, SessionsAddUp, NoSession
<1>4. CapacityIsKept
    <2>1. Occupying = {}
        BY DEF Init, Occupying, NoCall, InProgress
    <2>2. Cardinality(Occupying) = 0
        BY <2>1, FS_EmptySet
    <2> QED
        BY <2>2, InstantAssumption DEF CapacityIsKept
<1> QED
    BY <1>1, <1>3, <1>4, <1>5 DEF IInv

\* openInstantSession: a new row, with the whole budget in it.
LEMMA OpenSessionKeepsIInv ==
    ASSUME IInv, NEW s \in Sessions, OpenSession(s)
    PROVE  IInv'
<1>1. /\ session' = [session EXCEPT ![s] = [status |-> "open", balance |-> Budget[s],
                                            held |-> 0, spent |-> 0, refunded |-> 0]]
      /\ session[s] = NoSession
      /\ call' = call /\ late' = late
    <2>1. session[s].status = "none"
        BY DEF OpenSession
    <2>2. session[s] = NoSession
        BY <2>1 DEF IInv, UnopenedIsEmpty
    <2> QED
        BY <2>2 DEF OpenSession
<1>2. Rows'
    BY <1>1, InstantAssumption DEF IInv, Rows
<1>3. \A r \in Sessions : Open(r)' = Open(r) /\ Completed(r)' = Completed(r)
    BY <1>1 DEF Open, Completed, CallsOf
<1>4. \A r \in Sessions \ {s} : session'[r] = session[r]
    BY <1>1 DEF IInv, Rows
<1>5. session'[s] = [status |-> "open", balance |-> Budget[s],
                     held |-> 0, spent |-> 0, refunded |-> 0]
    BY <1>1 DEF IInv, Rows
<1>6. SessionsAddUp'
    <2> SUFFICES ASSUME NEW r \in Sessions
                 PROVE  /\ session'[r].held = Price * Cardinality(Open(r)')
                        /\ session'[r].spent = Price * Cardinality(Completed(r)')
                        /\ session'[r].held <= session'[r].balance
                        /\ session'[r].status # "none" =>
                            session'[r].balance + session'[r].spent
                                + session'[r].refunded = Budget[r]
        BY DEF SessionsAddUp
    <2>1. /\ session[r].held = Price * Cardinality(Open(r))
          /\ session[r].spent = Price * Cardinality(Completed(r))
          /\ session[r].held <= session[r].balance
          /\ session[r].status # "none" =>
                session[r].balance + session[r].spent + session[r].refunded = Budget[r]
        BY DEF IInv, SessionsAddUp
    <2>2. CASE r # s
        BY <1>3, <1>4, <2>1, <2>2
    <2>3. CASE r = s
        BY <1>1, <1>3, <1>5, <2>1, <2>3, InstantAssumption DEF NoSession
    <2> QED
        BY <2>2, <2>3
<1>7. UnopenedIsEmpty' /\ ClosedIsSettled'
    BY <1>3, <1>4, <1>5 DEF IInv, UnopenedIsEmpty, ClosedIsSettled
<1>8. CallsHaveSessions' /\ UnclaimedIsFree' /\ CapacityIsKept'
    BY <1>1 DEF IInv, CallsHaveSessions, UnclaimedIsFree, CapacityIsKept, Occupying
<1> QED
    BY <1>1, <1>2, <1>6, <1>7, <1>8 DEF IInv

\* createInstantCall: one more open call, and the hold for it.
LEMMA CreateCallKeepsIInv ==
    ASSUME IInv, NEW c \in Calls, NEW s \in Sessions, CreateCall(c, s)
    PROVE  IInv'
<1>1. /\ session' = [session EXCEPT ![s].held = @ + Price]
      /\ call' = [call EXCEPT ![c] = [state |-> "pending", session |-> s, worker |-> Null]]
      /\ call[c].state = "none" /\ session[s].status = "open"
      /\ session[s].balance - session[s].held >= Price
      /\ late' = late
    BY DEF CreateCall, HasBudget
<1>2. Rows'
    BY <1>1, InstantAssumption DEF IInv, Rows, InProgress
<1>3. /\ Open(s)' = Open(s) \cup {c} /\ c \notin Open(s)
      /\ \A r \in Sessions \ {s} : Open(r)' = Open(r)
      /\ \A r \in Sessions : Completed(r)' = Completed(r)
    BY <1>1 DEF IInv, Rows, Open, Completed, CallsOf, InProgress
<1>4. \A r \in Sessions \ {s} : session'[r] = session[r]
    BY <1>1 DEF IInv, Rows
<1>5. /\ session'[s].status = "open" /\ session'[s].held = session[s].held + Price
      /\ session'[s].balance = session[s].balance /\ session'[s].spent = session[s].spent
      /\ session'[s].refunded = session[s].refunded
    BY <1>1 DEF IInv, Rows
<1>6. Cardinality(Open(s)') = Cardinality(Open(s)) + 1 /\ Cardinality(Open(s)) \in Nat
    <2>1. Open(s) \in SUBSET Calls
        BY DEF Open, CallsOf
    <2>2. IsFiniteSet(Open(s)) /\ Cardinality(Open(s)) \in Nat
        BY <2>1, CallSets
    <2>3. Cardinality(Open(s) \cup {c}) = Cardinality(Open(s)) + 1
        BY <1>3, <2>2, FS_AddElement
    <2> QED
        BY <1>3, <2>2, <2>3
<1>7. SessionsAddUp'
    <2> SUFFICES ASSUME NEW r \in Sessions
                 PROVE  /\ session'[r].held = Price * Cardinality(Open(r)')
                        /\ session'[r].spent = Price * Cardinality(Completed(r)')
                        /\ session'[r].held <= session'[r].balance
                        /\ session'[r].status # "none" =>
                            session'[r].balance + session'[r].spent
                                + session'[r].refunded = Budget[r]
        BY DEF SessionsAddUp
    <2>1. /\ session[r].held = Price * Cardinality(Open(r))
          /\ session[r].spent = Price * Cardinality(Completed(r))
          /\ session[r].held <= session[r].balance
          /\ session[r].status # "none" =>
                session[r].balance + session[r].spent + session[r].refunded = Budget[r]
        BY DEF IInv, SessionsAddUp
    <2>2. CASE r # s
        BY <1>3, <1>4, <2>1, <2>2
    <2>3. CASE r = s
        <3>1. Price * (Cardinality(Open(s)) + 1) = Price * Cardinality(Open(s)) + Price
            BY <1>6, InstantAssumption
        <3>2. session[s].held \in Nat /\ session[s].balance \in Nat
            BY DEF IInv, Rows
        <3>3. session'[s].held = Price * Cardinality(Open(s)')
            BY <1>5, <1>6, <2>1, <2>3, <3>1
        <3>4. session'[s].held <= session'[s].balance
            BY <1>1, <1>5, <3>2, InstantAssumption
        <3>5. session'[s].spent = Price * Cardinality(Completed(s)')
            BY <1>3, <1>5, <2>1, <2>3
        <3>6. session'[s].balance + session'[s].spent + session'[s].refunded = Budget[s]
            BY <1>1, <1>5, <2>1, <2>3
        <3> QED
            BY <2>3, <3>3, <3>4, <3>5, <3>6
    <2> QED
        BY <2>2, <2>3
<1>8. UnopenedIsEmpty' /\ ClosedIsSettled'
    BY <1>3, <1>4, <1>5 DEF IInv, UnopenedIsEmpty, ClosedIsSettled
<1>9. CallsHaveSessions' /\ UnclaimedIsFree'
    BY <1>1 DEF IInv, Rows, CallsHaveSessions, UnclaimedIsFree
<1>10. CapacityIsKept'
    <2>1. Occupying \in SUBSET Calls /\ Occupying' \in SUBSET (Occupying \cup {c})
        BY <1>1 DEF IInv, Rows, Occupying
    <2>2. IsFiniteSet(Occupying) /\ Cardinality(Occupying) \in Nat
        BY <2>1, CallSets
    <2>3. IsFiniteSet(Occupying \cup {c})
          /\ Cardinality(Occupying \cup {c}) \in Nat
          /\ Cardinality(Occupying \cup {c}) <= Cardinality(Occupying) + 1
        <3>1. Cardinality(Occupying \cup {c})
              = IF c \in Occupying THEN Cardinality(Occupying) ELSE Cardinality(Occupying) + 1
            BY <2>2, FS_AddElement
        <3>2. IsFiniteSet(Occupying \cup {c})
            BY <2>2, FS_AddElement
        <3> QED
            BY <2>2, <3>1, <3>2
    <2>4. Cardinality(Occupying') \in Nat
          /\ Cardinality(Occupying') <= Cardinality(Occupying \cup {c})
        BY <2>1, <2>3, FS_Subset, FS_CardinalityType
    <2>5. Cardinality(Occupying) < MaxConcurrency
        BY DEF CreateCall, HasCapacity
    <2> QED
        BY <2>2, <2>3, <2>4, <2>5, InstantAssumption DEF CapacityIsKept
<1> QED
    BY <1>1, <1>2, <1>7, <1>8, <1>9, <1>10 DEF IInv

-----------------------------------------------------------------------------

\* The accounts: their types, and that no credit was made or lost.  This part of
\* the invariant is kept apart because no other part needs it.
Accounts ==
    /\ account \in [Users -> Nat]
    /\ expired \subseteq Sessions
    /\ CreditIsConserved

\* What a transaction charges a session, and what it returns to its buyer.
ChargeOf(paid) == [s \in Sessions |-> Price * Cardinality(paid \cap CallsOf(s))]
RefundOf == [s \in Sessions |-> session'[s].refunded - session[s].refunded]

\* The balance of a session pays its charge and its refund, and only a session that
\* is wound up is refunded.
LEMMA BalancePays ==
    ASSUME IInv, NEW failed \in SUBSET Calls, NEW paid \in SUBSET Calls,
           failed \cap paid = {},
           \A c \in failed \cup paid : call[c].state \in InProgress,
           NEW wound \in SUBSET Sessions,
           Books(failed, paid, wound),
           NEW s \in Sessions
    PROVE  /\ ChargeOf(paid)[s] \in Nat /\ RefundOf[s] \in Nat
           /\ s \notin wound => RefundOf[s] = 0
           /\ session[s].balance \in Nat /\ session'[s].balance \in Nat
           /\ session[s].balance = session'[s].balance + (ChargeOf(paid)[s] + RefundOf[s])
<1> DEFINE row == Charged(s, failed, paid)
           c == ChargeOf(paid)[s]
           x == session[s]
<1>1. failed \cap CallsOf(s) \subseteq Open(s) /\ paid \cap CallsOf(s) \subseteq Open(s)
    BY DEF Open, CallsOf
<1>2. RowIsRight(s, failed, paid)
    BY <1>1, RowAddsUp
<1>3. row \in [status : {"none", "open", "closing", "closed"},
               balance : Nat, held : Nat, spent : Nat, refunded : Nat]
    BY <1>2 DEF RowIsRight
<1>4. x \in [status : {"none", "open", "closing", "closed"},
             balance : Nat, held : Nat, spent : Nat, refunded : Nat]
    BY DEF IInv, Rows
<1>5. c \in Nat
    <2>1. Cardinality(paid \cap CallsOf(s)) \in Nat
        BY CallSets DEF CallsOf
    <2> QED
        BY <2>1, InstantAssumption DEF ChargeOf
<1>6. row.balance = x.balance - c /\ row.refunded = x.refunded
    BY <1>4 DEF Charged, ChargeOf
<1>7. session'[s] = IF s \in wound THEN Finalized(s, row) ELSE row
    BY DEF Books
<1>8. RefundOf[s] = session'[s].refunded - x.refunded
    BY DEF RefundOf
<1> HIDE DEF row, c, x
<1>9. CASE s \notin wound
    BY <1>3, <1>4, <1>5, <1>6, <1>7, <1>8, <1>9 DEF x, c
<1>10. CASE s \in wound /\ row.held > 0
    <2>1. session'[s].balance = row.balance /\ session'[s].refunded = row.refunded
        BY <1>3, <1>7, <1>10 DEF Finalized
    <2> QED
        BY <1>3, <1>4, <1>5, <1>6, <1>8, <1>10, <2>1 DEF x, c
<1>11. CASE s \in wound /\ ~ row.held > 0
    <2>1. session'[s].balance = 0 /\ session'[s].refunded = row.refunded + row.balance
        BY <1>3, <1>7, <1>11 DEF Finalized
    <2> QED
        BY <1>3, <1>4, <1>5, <1>6, <1>8, <1>11, <2>1 DEF x, c
<1> QED
    BY <1>9, <1>10, <1>11

\* The charges of all sessions are the price of what is paid: one call, or none.
LEMMA ChargesAddUp ==
    ASSUME IInv, NEW paid \in SUBSET Calls,
           paid = {} \/ \E c \in Calls : paid = {c},
           \A c \in paid : call[c].state \in InProgress
    PROVE  SumFunctionOnSet(ChargeOf(paid), Sessions) = Price * Cardinality(paid)
           /\ Price * Cardinality(paid) \in Nat
<1>1. CASE paid = {}
    <2>1. \A s \in Sessions : ChargeOf(paid)[s] = 0
        BY <1>1, FS_EmptySet, InstantAssumption DEF ChargeOf
    <2>2. SumFunctionOnSet(ChargeOf(paid), Sessions) = 0
        BY <2>1, SumZero, InstantAssumption
    <2> QED
        BY <1>1, <2>2, FS_EmptySet, InstantAssumption
<1>2. ASSUME NEW c \in Calls, paid = {c}
      PROVE  SumFunctionOnSet(ChargeOf(paid), Sessions) = Price * Cardinality(paid)
             /\ Price * Cardinality(paid) \in Nat
    <2> DEFINE a == call[c].session
    <2>1. a \in Sessions
        BY <1>2 DEF IInv, CallsHaveSessions, InProgress
    <2>2. paid \cap CallsOf(a) = paid /\ \A s \in Sessions \ {a} : paid \cap CallsOf(s) = {}
        BY <1>2 DEF CallsOf
    <2>3. ChargeOf(paid)[a] = Price * Cardinality(paid)
        BY <2>1, <2>2 DEF ChargeOf
    <2>4. ASSUME NEW s \in Sessions \ {a} PROVE ChargeOf(paid)[s] = 0
        <3>1. Cardinality(paid \cap CallsOf(s)) = 0
            BY <2>2, FS_EmptySet
        <3> QED
            BY <3>1, InstantAssumption DEF ChargeOf
    <2>5. Price * Cardinality(paid) \in Nat
        BY <1>2, FS_Singleton, InstantAssumption
    <2>6. SumFunctionOnSet(ChargeOf(paid), Sessions) = ChargeOf(paid)[a]
        BY <2>1, <2>3, <2>4, <2>5, SumOne, InstantAssumption
    <2> QED
        BY <2>3, <2>5, <2>6
<1> QED
    BY <1>1, <1>2

\* One transaction conserves credit: what leaves the balances is paid to the seller
\* and to the buyers.
LEMMA TransactKeepsAccounts ==
    ASSUME IInv, Accounts, NEW failed \in SUBSET Calls, NEW paid \in SUBSET Calls,
           failed \cap paid = {}, paid = {} \/ \E c \in Calls : paid = {c},
           \A c \in failed \cup paid : call[c].state \in InProgress,
           NEW wound \in SUBSET Sessions,
           Transact(failed, paid, wound)
    PROVE  Accounts'
<1> DEFINE charge == ChargeOf(paid)
           refund == RefundOf
           old == [s \in Sessions |-> session[s].balance]
           new == [s \in Sessions |-> session'[s].balance]
           out == [s \in Sessions |-> charge[s] + refund[s]]
           total == Price * Cardinality(paid)
           sale == [u \in Users |-> IF u = Seller THEN total ELSE 0]
           returned == [u \in Users |-> SumFunctionOnSet(refund, {s \in wound : BuyerOf[s] = u})]
           gain == [u \in Users |-> sale[u] + returned[u]]
<1>1. /\ Books(failed, paid, wound) /\ Payments(paid, wound) /\ expired' = expired
    BY DEF Transact
<1>2. \A s \in Sessions :
        /\ charge[s] \in Nat /\ refund[s] \in Nat
        /\ s \notin wound => refund[s] = 0
        /\ old[s] \in Nat /\ new[s] \in Nat /\ out[s] \in Nat
        /\ old[s] = new[s] + out[s]
        /\ out[s] = charge[s] + refund[s]
    <2> SUFFICES ASSUME NEW s \in Sessions
                 PROVE  /\ charge[s] \in Nat /\ refund[s] \in Nat
                        /\ s \notin wound => refund[s] = 0
                        /\ old[s] \in Nat /\ new[s] \in Nat /\ out[s] \in Nat
                        /\ old[s] = new[s] + out[s]
                        /\ out[s] = charge[s] + refund[s]
        OBVIOUS
    <2>1. /\ charge[s] \in Nat /\ refund[s] \in Nat
          /\ s \notin wound => refund[s] = 0
          /\ session[s].balance \in Nat /\ session'[s].balance \in Nat
          /\ session[s].balance = session'[s].balance + (charge[s] + refund[s])
        <3>1. Books(failed, paid, wound) /\ Payments(paid, wound)
            BY <1>1
        <3> QED
            BY <3>1, BalancePays
    <2>2. old[s] = session[s].balance /\ new[s] = session'[s].balance
          /\ out[s] = charge[s] + refund[s]
        OBVIOUS
    <2> HIDE DEF charge, refund, old, new, out
    <2> QED
        BY <2>1, <2>2
<1>3. SumFunctionOnSet(charge, Sessions) = total /\ total \in Nat
    BY ChargesAddUp
<1>4. \A u \in Users : account'[u] = account[u] + gain[u] /\ gain[u] = sale[u] + returned[u]
    <2> SUFFICES ASSUME NEW u \in Users
                 PROVE  account'[u] = account[u] + gain[u] /\ gain[u] = sale[u] + returned[u]
        OBVIOUS
    <2>1. account'[u] = account[u] + sale[u] + returned[u]
        BY <1>1 DEF Payments, RefundOf
    <2>2. returned[u] \in Nat
        <3>1. IsFiniteSet({s \in wound : BuyerOf[s] = u})
            BY InstantAssumption, FS_Subset
        <3>2. \A s \in {s \in wound : BuyerOf[s] = u} : refund[s] \in Nat
            BY <1>2
        <3>3. SumFunctionOnSet(refund, {s \in wound : BuyerOf[s] = u}) \in Nat
            <4> HIDE DEF refund
            <4> QED
                BY <3>1, <3>2, SumIsNat
        <3> QED
            BY <3>3
    <2>3. sale[u] \in Nat /\ account[u] \in Nat
        BY <1>3 DEF Accounts
    <2>4. gain[u] = sale[u] + returned[u]
        OBVIOUS
    <2> HIDE DEF gain, sale, returned
    <2> QED
        BY <2>1, <2>2, <2>3, <2>4
<1>5. \A u \in Users : returned[u] \in Nat /\ sale[u] \in Nat /\ gain[u] \in Nat
    <2> SUFFICES ASSUME NEW u \in Users
                 PROVE  returned[u] \in Nat /\ sale[u] \in Nat /\ gain[u] \in Nat
        OBVIOUS
    <2>1. IsFiniteSet({s \in wound : BuyerOf[s] = u})
        BY InstantAssumption, FS_Subset
    <2>2. \A s \in {s \in wound : BuyerOf[s] = u} : refund[s] \in Nat
        BY <1>2
    <2>3. SumFunctionOnSet(refund, {s \in wound : BuyerOf[s] = u}) \in Nat
        <3> HIDE DEF refund
        <3> QED
            BY <2>1, <2>2, SumIsNat
    <2>4. sale[u] \in Nat /\ returned[u] \in Nat
        BY <1>3, <2>3
    <2>5. gain[u] = sale[u] + returned[u]
        OBVIOUS
    <2> HIDE DEF gain, sale, returned
    <2> QED
        BY <2>4, <2>5
<1>6. account' \in [Users -> Nat]
    <2>1. account' = [u \in Users |-> account'[u]]
        BY <1>1 DEF Payments
    <2>2. \A u \in Users : account'[u] \in Nat
        <3>1. \A u \in Users : account[u] \in Nat
            BY DEF Accounts
        <3> HIDE DEF gain, sale, returned
        <3> QED
            BY <1>4, <1>5, <3>1
    <2> QED
        BY <2>1, <2>2
<1>7. SumFunctionOnSet(returned, Users) = SumFunctionOnSet(refund, wound)
    <2>1. IsFiniteSet(wound) /\ IsFiniteSet(Users) /\ \A s \in wound : BuyerOf[s] \in Users
        BY InstantAssumption, FS_Subset
    <2>2. \A s \in wound : refund[s] \in Int
        BY <1>2
    <2> HIDE DEF refund
    <2> QED
        BY <2>1, <2>2, SumByClass
<1>8. SumFunctionOnSet(refund, Sessions) = SumFunctionOnSet(refund, wound)
    <2> DEFINE others == Sessions \ wound
    <2>1. IsFiniteSet(wound) /\ IsFiniteSet(others) /\ wound \cap others = {}
        BY InstantAssumption, FS_Subset
    <2>2. /\ \A s \in wound \cup others : refund[s] \in Int
          /\ \A s \in wound : refund[s] \in Int
          /\ \A s \in others : refund[s] = 0
        BY <1>2
    <2>3. SumFunctionOnSet(refund, wound \cup others) = SumFunctionOnSet(refund, Sessions)
        <3>1. wound \cup others = Sessions
            OBVIOUS
        <3> QED
            BY <3>1, Zenon
    <2> HIDE DEF refund, others
    <2>4. SumFunctionOnSet(refund, wound \cup others)
            = SumFunctionOnSet(refund, wound) + SumFunctionOnSet(refund, others)
        BY <2>1, <2>2, SumUnion
    <2>5. SumFunctionOnSet(refund, others) = 0
        BY <2>1, <2>2, SumZero
    <2>6. SumFunctionOnSet(refund, wound) \in Int
        BY <2>1, <2>2, SumIsInt
    <2> QED
        BY <2>3, <2>4, <2>5, <2>6
<1>9. SumFunctionOnSet(sale, Users) = total
    <2>1. Seller \in Users /\ IsFiniteSet(Users)
        BY InstantAssumption
    <2>2. sale[Seller] = total /\ total \in Int /\ \A u \in Users \ {Seller} : sale[u] = 0
        BY <1>3, <2>1
    <2> HIDE DEF sale
    <2> QED
        BY <2>1, <2>2, SumOne
<1>10. /\ SumFunctionOnSet(account', Users)
            = SumFunctionOnSet(account, Users) + SumFunctionOnSet(gain, Users)
       /\ SumFunctionOnSet(gain, Users)
            = SumFunctionOnSet(sale, Users) + SumFunctionOnSet(returned, Users)
    <2>1. \A u \in Users : account[u] \in Int /\ gain[u] \in Int /\ sale[u] \in Int /\ returned[u] \in Int
        <3> HIDE DEF gain, sale, returned
        <3> QED
            BY <1>5 DEF Accounts
    <2>2. IsFiniteSet(Users)
        BY InstantAssumption
    <2> HIDE DEF gain, sale, returned
    <2> QED
        BY <1>4, <2>1, <2>2, SumPlus
<1>11. /\ SumFunctionOnSet(old, Sessions)
            = SumFunctionOnSet(new, Sessions) + SumFunctionOnSet(out, Sessions)
       /\ SumFunctionOnSet(out, Sessions)
            = SumFunctionOnSet(charge, Sessions) + SumFunctionOnSet(refund, Sessions)
    <2>1. IsFiniteSet(Sessions)
        BY InstantAssumption
    <2> HIDE DEF charge, refund, old, new, out
    <2>2. \A s \in Sessions : charge[s] \in Int /\ refund[s] \in Int /\ new[s] \in Int /\ out[s] \in Int
        BY <1>2
    <2> QED
        BY <1>2, <2>1, <2>2, SumPlus
<1>12. /\ SumFunctionOnSet(account, Users) \in Int /\ SumFunctionOnSet(new, Sessions) \in Int
       /\ SumFunctionOnSet(refund, Sessions) \in Int
    <2>1. IsFiniteSet(Sessions) /\ IsFiniteSet(Users)
        BY InstantAssumption
    <2>2. \A u \in Users : account[u] \in Int
        BY DEF Accounts
    <2> HIDE DEF charge, refund, old, new, out
    <2>3. \A s \in Sessions : new[s] \in Int /\ refund[s] \in Int
        BY <1>2
    <2> QED
        BY <2>1, <2>2, <2>3, SumIsInt
<1>13. SumFunctionOnSet(account, Users) + SumFunctionOnSet(old, Sessions)
        = SumFunctionOnSet(Credit, Users)
    BY DEF Accounts, CreditIsConserved
<1>14. SumFunctionOnSet(account', Users) + SumFunctionOnSet(new, Sessions)
        = SumFunctionOnSet(Credit, Users)
    <2> HIDE DEF charge, refund, old, new, out, total, sale, returned, gain
    <2> QED
        BY <1>3, <1>7, <1>8, <1>9, <1>10, <1>11, <1>12, <1>13
<1>15. CreditIsConserved'
    BY <1>14 DEF CreditIsConserved
<1> QED
    BY <1>1, <1>6, <1>15 DEF Accounts

-----------------------------------------------------------------------------

\* openInstantSession: the budget moves from the buyer's account into the session.
LEMMA OpenSessionKeepsAccounts ==
    ASSUME IInv, Accounts, NEW s \in Sessions, OpenSession(s)
    PROVE  Accounts'
<1> DEFINE b == BuyerOf[s]
           old == [r \in Sessions |-> session[r].balance]
           new == [r \in Sessions |-> session'[r].balance]
<1>1. /\ b \in Users /\ Budget[s] \in Nat /\ account[b] >= Budget[s]
      /\ account' = [account EXCEPT ![b] = @ - Budget[s]]
      /\ session' = [session EXCEPT ![s] = [status |-> "open", balance |-> Budget[s],
                                            held |-> 0, spent |-> 0, refunded |-> 0]]
      /\ session[s] = NoSession /\ expired' = expired
    <2>1. session[s] = NoSession
        BY DEF OpenSession, IInv, UnopenedIsEmpty
    <2> QED
        BY <2>1, InstantAssumption DEF OpenSession
<1>2. account \in [Users -> Nat] /\ account' \in [Users -> Nat]
    BY <1>1 DEF Accounts
<1>3. SumFunctionOnSet(account', Users) = SumFunctionOnSet(account, Users) + account'[b] - account[b]
    <2>1. \A u \in Users \ {b} : account'[u] = account[u]
        BY <1>1, <1>2
    <2>2. \A u \in Users : account[u] \in Int /\ account'[u] \in Int
        BY <1>2
    <2>3. b \in Users /\ IsFiniteSet(Users)
        BY <1>1, InstantAssumption
    <2> HIDE DEF b
    <2> QED
        BY <2>1, <2>2, <2>3, SumChange
<1>4. /\ \A r \in Sessions \ {s} : new[r] = old[r]
      /\ \A r \in Sessions : old[r] \in Int /\ new[r] \in Int
      /\ old[s] = 0 /\ new[s] = Budget[s]
    BY <1>1 DEF IInv, Rows, NoSession
<1>5. SumFunctionOnSet(new, Sessions) = SumFunctionOnSet(old, Sessions) + Budget[s]
    <2> HIDE DEF old, new
    <2>1. SumFunctionOnSet(new, Sessions) = SumFunctionOnSet(old, Sessions) + new[s] - old[s]
        BY <1>4, SumChange, InstantAssumption
    <2>2. SumFunctionOnSet(old, Sessions) \in Int
        BY <1>4, SumIsInt, InstantAssumption
    <2> QED
        BY <1>1, <1>4, <2>1, <2>2
<1>6. SumFunctionOnSet(account, Users) \in Int /\ SumFunctionOnSet(old, Sessions) \in Int
    <2>1. \A u \in Users : account[u] \in Int
        BY <1>2
    <2> HIDE DEF old
    <2> QED
        BY <1>4, <2>1, SumIsInt, InstantAssumption
<1>7. account'[b] = account[b] - Budget[s] /\ account[b] \in Nat
    BY <1>1, <1>2
<1>8. SumFunctionOnSet(account, Users) + SumFunctionOnSet(old, Sessions) = SumFunctionOnSet(Credit, Users)
    BY DEF Accounts, CreditIsConserved
<1>9. SumFunctionOnSet(account', Users) + SumFunctionOnSet(new, Sessions) = SumFunctionOnSet(Credit, Users)
    <2> HIDE DEF b, old, new
    <2> QED
        BY <1>1, <1>3, <1>5, <1>6, <1>7, <1>8
<1> QED
    BY <1>1, <1>2, <1>9 DEF Accounts, CreditIsConserved

\* createInstantCall holds credit but moves none.
LEMMA CreateCallKeepsAccounts ==
    ASSUME IInv, Accounts, NEW c \in Calls, NEW s \in Sessions, CreateCall(c, s)
    PROVE  Accounts'
<1>1. \A r \in Sessions : session'[r].balance = session[r].balance
    BY DEF CreateCall, IInv, Rows
<1>2. [r \in Sessions |-> session'[r].balance] = [r \in Sessions |-> session[r].balance]
    BY <1>1
<1> QED
    BY <1>2 DEF CreateCall, Accounts, CreditIsConserved

\* At first all credit is in the accounts.
LEMMA InitAccounts == Init => Accounts
<1> SUFFICES ASSUME Init PROVE Accounts
    OBVIOUS
<1>1. SumFunctionOnSet([s \in Sessions |-> session[s].balance], Sessions) = 0
    <2> DEFINE f == [s \in Sessions |-> session[s].balance]
    <2>1. \A s \in Sessions : f[s] = 0
        BY DEF Init, NoSession
    <2> HIDE DEF f
    <2>2. SumFunctionOnSet(f, Sessions) = 0
        BY <2>1, SumZero, InstantAssumption
    <2> QED
        BY <2>2 DEF f
<1>2. SumFunctionOnSet(Credit, Users) \in Int
    <2>1. \A u \in Users : Credit[u] \in Int
        BY InstantAssumption
    <2> QED
        BY <2>1, SumIsInt, InstantAssumption
<1> QED
    BY <1>1, <1>2, InstantAssumption DEF Init, Accounts, CreditIsConserved

\* What a step may do to calls: finished ones stay, claims stay, late ones are free.
CallStep ==
    \A c \in Calls :
        /\ call[c].state \in {"completed", "failed"} => call'[c] = call[c]
        /\ call[c].worker # Null => call'[c].worker = call[c].worker
        /\ c \in late => (call'[c].state = "completed" => call[c].state = "completed")

\* A transaction that fails calls in progress and pays some that are not late keeps
\* the inductive invariant and takes a permitted step on the calls.
LEMMA FailAndPay ==
    ASSUME IInv, NEW failed \in SUBSET Calls, NEW paid \in SUBSET Calls,
           failed \cap paid = {}, paid = {} \/ (\E c \in Calls : paid = {c}), paid \cap late = {},
           \A c \in failed \cup paid : call[c].state \in InProgress,
           NEW wound \in SUBSET Sessions,
           \A s \in wound : session[s].status \in {"open", "closing"},
           call' = CallsAfter(failed, paid),
           Transact(failed, paid, wound)
    PROVE  IInv' /\ CallStep /\ (Accounts => Accounts')
<1>1. IInv'
    BY TransactionKeepsIInv
<1>2. Moves(failed, paid) /\ \A c \in Calls : call'[c].worker = call[c].worker
    BY CallsAfterMoves
<1>3. \A c \in Calls : call[c].state \in {"completed", "failed"} => call'[c] = call[c]
    BY DEF CallsAfter, InProgress
<1>4. \A c \in Calls :
        c \in late => (call'[c].state = "completed" => call[c].state = "completed")
    BY <1>2 DEF Moves
<1>5. Accounts => Accounts'
    BY TransactKeepsAccounts
<1> QED
    BY <1>1, <1>2, <1>3, <1>4, <1>5 DEF CallStep

\* claimInstantCall: the sweep of the session, and the claim of a pending call.
LEMMA ClaimCallStep ==
    ASSUME IInv, NEW c \in Calls, NEW w \in Workers, ClaimCall(c, w)
    PROVE  IInv' /\ CallStep /\ (Accounts => Accounts')
<1> DEFINE s == call[c].session
           after == CallsAfter(Expiring(s), {})
<1>1. /\ call[c].state = "pending" /\ c \notin Expiring(s)
      /\ call' = [after EXCEPT ![c].state = "claimed", ![c].worker = w]
      /\ Transact(Expiring(s), {}, WindingAmong({s}))
    BY DEF ClaimCall, MayClaim
<1>2. s \in Sessions /\ call[c].worker = Null
    BY <1>1 DEF IInv, CallsHaveSessions, UnclaimedIsFree
<1>3. /\ Expiring(s) \in SUBSET Calls
      /\ \A x \in Expiring(s) \cup {} : call[x].state \in InProgress
    BY GivenUpCalls
<1>4. /\ WindingAmong({s}) \in SUBSET Sessions
      /\ \A r \in WindingAmong({s}) : session[r].status \in {"open", "closing"}
    BY <1>2, WindingSessions
<1>5. \A x \in Calls :
        call'[x] = IF x = c THEN [call[c] EXCEPT !.state = "claimed", !.worker = w]
                   ELSE IF x \in Expiring(s) THEN [call[x] EXCEPT !.state = "failed"]
                   ELSE call[x]
    BY <1>1 DEF CallsAfter
<1>6. call \in [Calls -> [state : {"none", "completed", "failed"} \cup InProgress,
                          session : Sessions \cup {Null}, worker : Workers \cup {Null}]]
    BY DEF IInv, Rows
<1>7. call' \in [Calls -> [state : {"none", "completed", "failed"} \cup InProgress,
                           session : Sessions \cup {Null}, worker : Workers \cup {Null}]]
    <2>1. call' = [x \in Calls |-> call'[x]]
        BY <1>1 DEF CallsAfter
    <2>2. \A x \in Calls :
            call'[x] \in [state : {"none", "completed", "failed"} \cup InProgress,
                          session : Sessions \cup {Null}, worker : Workers \cup {Null}]
        BY <1>5, <1>6 DEF InProgress
    <2> QED
        BY <2>1, <2>2
<1>8. /\ call'[c].state = "claimed" /\ call'[c].session = call[c].session
      /\ call'[c].worker = w
    <2>1. call'[c] = [call[c] EXCEPT !.state = "claimed", !.worker = w]
        BY <1>5
    <2>2. call[c] \in [state : {"none", "completed", "failed"} \cup InProgress,
                      session : Sessions \cup {Null}, worker : Workers \cup {Null}]
        BY <1>6
    <2> HIDE DEF s, after
    <2> QED
        BY ONLY <2>1, <2>2
<1>8a. \A x \in Calls \ {c} :
        /\ call'[x].session = call[x].session /\ call'[x].worker = call[x].worker
        /\ x \in Expiring(s) => call'[x].state = "failed"
        /\ x \notin Expiring(s) => call'[x] = call[x]
    <2> HIDE DEF s, after
    <2> SUFFICES ASSUME NEW x \in Calls \ {c}
                 PROVE  /\ call'[x].session = call[x].session /\ call'[x].worker = call[x].worker
                        /\ x \in Expiring(s) => call'[x].state = "failed"
                        /\ x \notin Expiring(s) => call'[x] = call[x]
        OBVIOUS
    <2>1. call'[x] = IF x \in Expiring(s) THEN [call[x] EXCEPT !.state = "failed"] ELSE call[x]
        BY <1>5
    <2>2. call[x] \in [state : {"none", "completed", "failed"} \cup InProgress,
                      session : Sessions \cup {Null}, worker : Workers \cup {Null}]
        BY <1>6
    <2> QED
        BY ONLY <2>1, <2>2
<1>8b. Moves(Expiring(s), {})
    BY <1>1, <1>8, <1>8a DEF Moves
<1>9. UnclaimedIsFree'
    BY <1>5, <1>6 DEF IInv, UnclaimedIsFree
<1>10. IInv'
    BY <1>1, <1>3, <1>4, <1>7, <1>8b, <1>9, TransactKeepsIInv
<1>11. CallStep
    <2> HIDE DEF s, after
    <2>1. \A x \in Calls \ {c} :
            /\ call[x].state \in {"completed", "failed"} => call'[x] = call[x]
            /\ call[x].worker # Null => call'[x].worker = call[x].worker
            /\ call'[x].state = "completed" => call[x].state = "completed"
        BY <1>3, <1>8a DEF InProgress
    <2>2. /\ call[c].state \notin {"completed", "failed"} /\ call[c].worker = Null
          /\ call'[c].state # "completed"
        BY <1>1, <1>2, <1>8
    <2> QED
        BY <2>1, <2>2 DEF CallStep
<1>12. Accounts => Accounts'
    BY <1>1, <1>3, <1>4, TransactKeepsAccounts
<1> QED
    BY <1>10, <1>11, <1>12

\* The other transactions of buyers and workers.
LEMMA SweepSessionStep ==
    ASSUME IInv, NEW s \in Sessions, SweepSession(s)
    PROVE  IInv' /\ CallStep /\ (Accounts => Accounts')
<1>1. /\ Expiring(s) \in SUBSET Calls
      /\ \A c \in Expiring(s) \cup {} : call[c].state \in InProgress
    BY GivenUpCalls
<1>2. /\ WindingAmong({s}) \in SUBSET Sessions
      /\ \A r \in WindingAmong({s}) : session[r].status \in {"open", "closing"}
    BY WindingSessions
<1> QED
    BY <1>1, <1>2, FailAndPay DEF SweepSession

\* A buyer's request to close an open session.
LEMMA CloseSessionStep ==
    ASSUME IInv, NEW s \in Sessions, CloseSession(s)
    PROVE  IInv' /\ CallStep /\ (Accounts => Accounts')
<1>1. /\ Abandoned(s) \in SUBSET Calls
      /\ \A c \in Abandoned(s) \cup {} : call[c].state \in InProgress
    BY GivenUpCalls
<1>2. {s} \in SUBSET Sessions /\ \A r \in {s} : session[r].status \in {"open", "closing"}
    BY DEF CloseSession
<1> QED
    BY <1>1, <1>2, FailAndPay DEF CloseSession

\* A call a worker may answer is in progress and not late, and its session exists.
LEMMA AnswerableCall ==
    ASSUME IInv, NEW c \in Calls, NEW w \in Workers, MayAnswer(c, w)
    PROVE  call[c].state \in InProgress /\ c \notin late /\ call[c].session \in Sessions
<1>1. call[c].state = "claimed" /\ c \in Open(call[c].session)
    BY DEF MayAnswer, Open, CallsOf, InProgress
<1>2. c \notin late
    BY <1>1 DEF MayAnswer, Expiring, Abandoned
<1> QED
    BY <1>1, <1>2 DEF IInv, CallsHaveSessions, InProgress

\* completeInstantCall with a valid result: the one call is paid.
LEMMA CompleteCallStep ==
    ASSUME IInv, NEW c \in Calls, NEW w \in Workers, CompleteCall(c, w)
    PROVE  IInv' /\ CallStep /\ (Accounts => Accounts')
<1> DEFINE s == call[c].session
           failed == Expiring(s) \ {c}
<1>1. call[c].state \in InProgress /\ c \notin late /\ s \in Sessions
    BY AnswerableCall DEF CompleteCall
<1>2. /\ failed \in SUBSET Calls /\ {c} \in SUBSET Calls
      /\ failed \cap {c} = {} /\ {c} \cap late = {}
      /\ \A x \in failed \cup {c} : call[x].state \in InProgress
    BY <1>1, GivenUpCalls
<1>3. /\ WindingAmong({s}) \in SUBSET Sessions
      /\ \A r \in WindingAmong({s}) : session[r].status \in {"open", "closing"}
    BY <1>1, WindingSessions
<1>4. call' = CallsAfter(failed, {c}) /\ Transact(failed, {c}, WindingAmong({s}))
    BY DEF CompleteCall
<1> HIDE DEF failed, s
<1> QED
    BY <1>2, <1>3, <1>4, FailAndPay

\* completeInstantCall with a failure: the one call fails.
LEMMA GiveUpCallStep ==
    ASSUME IInv, NEW c \in Calls, NEW w \in Workers, GiveUpCall(c, w)
    PROVE  IInv' /\ CallStep /\ (Accounts => Accounts')
<1> DEFINE s == call[c].session
           failed == Expiring(s) \cup {c}
<1>1. call[c].state \in InProgress /\ s \in Sessions
    BY AnswerableCall DEF GiveUpCall
<1>2. /\ failed \in SUBSET Calls
      /\ \A x \in failed \cup {} : call[x].state \in InProgress
    BY <1>1, GivenUpCalls
<1>3. /\ WindingAmong({s}) \in SUBSET Sessions
      /\ \A r \in WindingAmong({s}) : session[r].status \in {"open", "closing"}
    BY <1>1, WindingSessions
<1>4. call' = CallsAfter(failed, {}) /\ Transact(failed, {}, WindingAmong({s}))
    BY DEF GiveUpCall
<1> HIDE DEF failed, s
<1> QED
    BY <1>2, <1>3, <1>4, FailAndPay

\* reconcileInstantSessions: late calls and what the wound up sessions give up.
LEMMA ReconcileStep ==
    ASSUME IInv, Reconcile
    PROVE  IInv' /\ CallStep /\ (Accounts => Accounts')
<1>1. PICK dead \in AtMostLimit(LateCalls) :
        LET first  == WindingAmong({call[c].session : c \in dead})
            failed == dead \cup UNION {Abandoned(s) : s \in first}
        IN  \E more \in AtMostLimit(StillWinding(failed, first)) :
                LET all == failed \cup UNION {Abandoned(s) : s \in more}
                IN  /\ call' = CallsAfter(all, {})
                    /\ Transact(all, {}, first \cup more)
    BY DEF Reconcile
<1> DEFINE owners == {call[c].session : c \in dead}
           first  == WindingAmong(owners)
           failed == dead \cup UNION {Abandoned(s) : s \in first}
<1>2. PICK more \in AtMostLimit(StillWinding(failed, first)) :
        LET all == failed \cup UNION {Abandoned(s) : s \in more}
        IN  /\ call' = CallsAfter(all, {})
            /\ Transact(all, {}, first \cup more)
    BY <1>1
<1> DEFINE all == failed \cup UNION {Abandoned(s) : s \in more}
<1>3. dead \in SUBSET Calls /\ \A c \in dead : call[c].state \in InProgress
    BY DEF AtMostLimit, kSubset, LateCalls
<1>4. owners \in SUBSET Sessions
    BY <1>3 DEF IInv, CallsHaveSessions, InProgress
<1>5. /\ first \in SUBSET Sessions
      /\ \A s \in first : session[s].status \in {"open", "closing"}
    BY <1>4, WindingSessions
<1>6. /\ more \in SUBSET Sessions
      /\ \A s \in more : session[s].status \in {"open", "closing"}
    <2>1. more \in SUBSET WindingAmong(Sessions)
        BY DEF AtMostLimit, kSubset, StillWinding
    <2> QED
        BY <2>1, WindingSessions
<1>7. all \in SUBSET Calls /\ \A c \in all \cup {} : call[c].state \in InProgress
    BY <1>3, GivenUpCalls
<1>8. call' = CallsAfter(all, {}) /\ Transact(all, {}, first \cup more)
    BY <1>2
<1>9. first \cup more \in SUBSET Sessions
      /\ \A s \in first \cup more : session[s].status \in {"open", "closing"}
    BY <1>5, <1>6
<1> HIDE DEF all, first
<1> QED
    BY <1>7, <1>8, <1>9, FailAndPay

\* Time passing: only fewer calls occupy the service.
LEMMA TimeStep ==
    ASSUME IInv, UNCHANGED <<account, session, call>>, late \subseteq late', late' \subseteq Calls,
           expired \subseteq Sessions => expired' \subseteq Sessions
    PROVE  IInv' /\ CallStep /\ (Accounts => Accounts')
<1>1. CapacityIsKept'
    BY MovesKeepCapacity DEF IInv
<1>2. Rows' /\ CallsHaveSessions' /\ UnopenedIsEmpty' /\ UnclaimedIsFree'
    BY DEF IInv, Rows, CallsHaveSessions, UnopenedIsEmpty, UnclaimedIsFree
<1>3. SessionsAddUp' /\ ClosedIsSettled'
    BY DEF IInv, SessionsAddUp, ClosedIsSettled, Open, Completed, CallsOf
<1>4. CallStep
    BY DEF CallStep
<1>5. Accounts => Accounts'
    BY DEF Accounts, CreditIsConserved
<1> QED
    BY <1>1, <1>2, <1>3, <1>4, <1>5 DEF IInv

\* Every step keeps the inductive invariant and is a permitted step on the calls.
LEMMA NextStep ==
    ASSUME IInv, [Next]_vars
    PROVE  IInv' /\ CallStep /\ (Accounts => Accounts')
<1>1. CASE \E s \in Sessions : OpenSession(s)
    <2>1. CallStep
        BY <1>1 DEF OpenSession, CallStep
    <2> QED
        BY <1>1, <2>1, OpenSessionKeepsIInv, OpenSessionKeepsAccounts
<1>2. CASE \E s \in Sessions : SweepSession(s) \/ CloseSession(s)
    BY <1>2, SweepSessionStep, CloseSessionStep
<1>3. CASE \E c \in Calls, s \in Sessions : CreateCall(c, s)
    <2>1. CallStep
        BY <1>3 DEF CreateCall, CallStep, IInv, Rows, UnclaimedIsFree
    <2> QED
        BY <1>3, <2>1, CreateCallKeepsIInv, CreateCallKeepsAccounts
<1>4. CASE \E c \in Calls, w \in Workers : ClaimCall(c, w) \/ CompleteCall(c, w) \/ GiveUpCall(c, w)
    BY <1>4, ClaimCallStep, CompleteCallStep, GiveUpCallStep
<1>5. CASE Reconcile
    BY <1>5, ReconcileStep
<1>6. CASE \E c \in Calls : DeadlinePasses(c)
    BY <1>6, TimeStep DEF DeadlinePasses, IInv
<1>7. CASE \E s \in Sessions : SessionExpires(s)
    <2>1. \A s \in Sessions : Open(s) \in SUBSET Calls
        BY DEF Open, CallsOf
    <2> QED
        BY <1>7, <2>1, TimeStep DEF SessionExpires, IInv
<1>8. CASE UNCHANGED vars
    BY <1>8, TimeStep DEF vars, IInv
<1> QED
    BY <1>1, <1>2, <1>3, <1>4, <1>5, <1>6, <1>7, <1>8 DEF Next

\* The inductive invariant holds in every reachable state.
LEMMA AlwaysIInv == Spec => []IInv
BY InitIInv, NextStep, PTL DEF Spec

-----------------------------------------------------------------------------

\* ... and so do the accounts' types and the conservation of credit.
LEMMA AlwaysAccounts == Spec => []Accounts
<1>1. IInv /\ Accounts /\ [Next]_vars => Accounts'
    BY NextStep
<1> QED
    BY <1>1, AlwaysIInv, InitAccounts, PTL DEF Spec

\* Every row has its type: no account and no session amount is ever negative,
\* although refunds and sales are posted to accounts that others use meanwhile.
THEOREM RowsHaveTypes == Spec => []TypeOK
<1>1. IInv /\ Accounts => TypeOK
    BY DEF IInv, Accounts, Rows, TypeOK
<1> QED
    BY <1>1, AlwaysIInv, AlwaysAccounts, PTL

\* Credit is conserved: accounts and open balances add up to what was deposited,
\* for any users, sessions and calls, and for any batches of the cron.
THEOREM NoCentIsLost == Spec => []CreditIsConserved
<1>1. Accounts => CreditIsConserved
    BY DEF Accounts
<1> QED
    BY <1>1, AlwaysAccounts, PTL

\* The amounts of a session are those of its calls, and budget = balance + spent +
\* refunded, whatever workers, buyers, the cron and the clock do to it.
THEOREM SessionBooksAreRight == Spec => []SessionsAddUp
<1>1. IInv => SessionsAddUp
    BY DEF IInv
<1> QED
    BY <1>1, AlwaysIInv, PTL

\* A closed session has no money and no call that could still be charged.
THEOREM NothingIsLeftBehind == Spec => []ClosedIsSettled
<1>1. IInv => ClosedIsSettled
    BY DEF IInv
<1> QED
    BY <1>1, AlwaysIInv, PTL

\* The calls in progress of all sessions never exceed the service's max_concurrency.
THEOREM NeverOverbooked == Spec => []CapacityIsKept
<1>1. IInv => CapacityIsKept
    BY DEF IInv
<1> QED
    BY <1>1, AlwaysIInv, PTL

\* Finished calls stay as they are and claimed ones with their worker.
THEOREM FinishedStaysFinished == Spec => CallsAreFinal
<1>1. IInv /\ [Next]_vars =>
        [\A c \in Calls :
            /\ call[c].state \in {"completed", "failed"} => call'[c] = call[c]
            /\ call[c].worker # Null => call'[c].worker = call[c].worker]_vars
    BY NextStep DEF CallStep
<1> QED
    BY <1>1, AlwaysIInv, PTL DEF Spec, CallsAreFinal

\* A call that is past its deadline is never charged.
THEOREM NoLateCharge == Spec => LateIsFree
<1>1. IInv /\ [Next]_vars =>
        [\A c \in late : call'[c].state = "completed" => call[c].state = "completed"]_vars
    BY NextStep DEF CallStep, IInv
<1> QED
    BY <1>1, AlwaysIInv, PTL DEF Spec, LateIsFree

=============================================================================
