-------------------------- MODULE InstantExecution --------------------------
(***************************************************************************)
(* lib/instant-execution.ts: prepaid sessions and their calls.  A buyer    *)
(* moves a budget from account credit into a session; each call holds the  *)
(* unit price until a worker of the seller completes it (the seller is     *)
(* paid) or it fails (the hold is released); a session that is closed or   *)
(* has expired returns what is left once nothing is held.                  *)
(*                                                                         *)
(* Every operation is one transaction, retried while SQLite is busy (lines *)
(* 53-67), hence one step.  A refused operation changes nothing and is no  *)
(* step.  A repeated request (same client_reference or lease token) finds  *)
(* the earlier row and at most sweeps its session: that is SweepSession.   *)
(* There is one service; a session's contract freezes its price.           *)
(*                                                                         *)
(* WindingWhenClosing, ExpiringWhateverState, ChargedWithoutRelease,       *)
(* FinalizedWhileHeld, FinalizedFromFirstRead, HasCapacityInSession,       *)
(* MayClaimAgain and MayAnswerLate are not part of the specification: each *)
(* is a wrong variant of the definition after it, with which a property    *)
(* fails.                                                                  *)
(***************************************************************************)
EXTENDS Integers, FiniteSets, FiniteSetsExt, Functions

CONSTANTS
    Users, Seller,      \* accounts, and the one that sells the service
    Sessions, Calls,    \* client references of sessions and of calls
    Workers,            \* lease tokens of the seller's workers
    BuyerOf, Budget,    \* the buyer and the budget_minor of each session
    Credit,             \* deposited credit of each user at the start
    Price,              \* unit_price_minor
    MaxConcurrency,     \* calls of the service in progress at a time
    CallLimit,          \* calls in the life of a session (line 236: 1000)
    SweepLimit,         \* rows the cron takes at a time (line 311: 100)
    Null

ASSUME InstantAssumption ==
    /\ Seller \in Users /\ Null \notin Sessions /\ Null \notin Workers
    /\ IsFiniteSet(Calls) /\ IsFiniteSet(Sessions) /\ IsFiniteSet(Users)
    /\ BuyerOf \in [Sessions -> Users]
    /\ Budget \in [Sessions -> Nat]
    /\ Credit \in [Users -> Nat]
    /\ Price \in Nat \ {0}
    /\ MaxConcurrency \in Nat \ {0}

VARIABLES
    account,    \* credit_accounts.available_minor
    session,    \* instant_sessions: status and the four amounts
    call,       \* instant_calls: state, session, worker (lease_token_hash)
    late,       \* calls whose deadline_at has passed
    expired     \* sessions whose expires_at has passed

vars == <<account, session, call, late, expired>>

NoSession == [status |-> "none", balance |-> 0, held |-> 0, spent |-> 0, refunded |-> 0]
NoCall == [state |-> "none", session |-> Null, worker |-> Null]

Init ==
    /\ account = Credit
    /\ session = [s \in Sessions |-> NoSession]
    /\ call = [c \in Calls |-> NoCall]
    /\ late = {}
    /\ expired = {}

InProgress == {"pending", "claimed"}
CallsOf(s) == {c \in Calls : call[c].session = s}
Open(s) == {c \in CallsOf(s) : call[c].state \in InProgress}
Completed(s) == {c \in CallsOf(s) : call[c].state = "completed"}

(***************************************************************************)
(* The transactions are made of three parts: failCall for some calls, the  *)
(* charge of a completed one, and finalizeSession for some sessions.       *)
(***************************************************************************)

WindingWhenClosing(s) == session[s].status = "closing"
\* finalizeSession goes on (lines 167-168).
Winding(s) ==
    \/ session[s].status = "closing"
    \/ session[s].status = "open" /\ s \in expired

\* The calls finalizeSession gives up: late ones, and those nobody has taken.
Abandoned(s) == {c \in Open(s) : c \in late \/ call[c].state = "pending"}

ExpiringWhateverState(s) == CallsOf(s) \cap late
\* What expireCalls(s) fails: late calls, and what its finalizeSession gives up.
Expiring(s) == IF Winding(s) THEN Abandoned(s) ELSE Open(s) \cap late

CallsAfter(failed, paid) ==
    [c \in Calls |->
        IF c \in failed THEN [call[c] EXCEPT !.state = "failed"]
        ELSE IF c \in paid THEN [call[c] EXCEPT !.state = "completed"]
        ELSE call[c]]

ChargedWithoutRelease(s, failed, paid) ==
    LET charged == Price * Cardinality(paid \cap CallsOf(s))
    IN  [session[s] EXCEPT !.held = @ - charged,
                           !.balance = @ - charged,
                           !.spent = @ + charged]
\* The row of s when the holds of these calls are released or charged.
Charged(s, failed, paid) ==
    LET released == Price * Cardinality(failed \cap CallsOf(s))
        charged  == Price * Cardinality(paid \cap CallsOf(s))
    IN  [session[s] EXCEPT !.held = @ - released - charged,
                           !.balance = @ - charged,
                           !.spent = @ + charged]

FinalizedWhileHeld(s, row) ==
    [row EXCEPT !.status = "closed", !.balance = 0, !.refunded = @ + row.balance]
FinalizedFromFirstRead(s, row) ==
    IF row.held > 0
    THEN [row EXCEPT !.status = "closing"]
    ELSE [row EXCEPT !.status = "closed",
                     !.balance = 0,
                     !.refunded = @ + session[s].balance]
\* The end of finalizeSession, given the row as it was read again (line 172).
Finalized(s, row) ==
    IF row.held > 0
    THEN [row EXCEPT !.status = "closing"]
    ELSE [row EXCEPT !.status = "closed",
                     !.balance = 0,
                     !.refunded = @ + row.balance]

Books(failed, paid, wound) ==
    session' = [s \in Sessions |->
                   IF s \in wound
                   THEN Finalized(s, Charged(s, failed, paid))
                   ELSE Charged(s, failed, paid)]

\* changeCredit: instant_sale to the seller, instant_refund to the buyers.
Payments(paid, wound) ==
    account' = [u \in Users |->
                   account[u]
                   + (IF u = Seller THEN Price * Cardinality(paid) ELSE 0)
                   + SumFunctionOnSet([s \in Sessions |-> session'[s].refunded - session[s].refunded],
                                      {s \in wound : BuyerOf[s] = u})]

Transact(failed, paid, wound) ==
    /\ Books(failed, paid, wound)
    /\ Payments(paid, wound)
    /\ UNCHANGED <<late, expired>>

WindingAmong(S) == {s \in S : Winding(s)}

(***************************************************************************)
(* The buyer.                                                              *)
(***************************************************************************)
OpenSession(s) ==
    /\ session[s].status = "none"
    /\ BuyerOf[s] # Seller
    /\ Budget[s] >= Price
    /\ account[BuyerOf[s]] >= Budget[s]
    /\ account' = [account EXCEPT ![BuyerOf[s]] = @ - Budget[s]]
    /\ session' = [session EXCEPT ![s] = [status |-> "open", balance |-> Budget[s],
                                          held |-> 0, spent |-> 0, refunded |-> 0]]
    /\ UNCHANGED <<call, late, expired>>

\* readInstantSession, readInstantCall, a repeated createInstantCall or
\* claimInstantCall, and a claim or result that comes too late: each runs expireCalls.
SweepSession(s) ==
    /\ session[s].status # "none"
    /\ call' = CallsAfter(Expiring(s), {})
    /\ Transact(Expiring(s), {}, WindingAmong({s}))

CloseSession(s) ==
    /\ session[s].status = "open"
    /\ call' = CallsAfter(Abandoned(s), {})
    /\ Transact(Abandoned(s), {}, {s})

\* Calls that count against max_concurrency: late ones no longer do (line 228).
Occupying == {c \in Calls : call[c].state \in InProgress /\ c \notin late}
HasCapacityInSession(s) == Cardinality(Occupying \cap CallsOf(s)) < MaxConcurrency
HasCapacity(s) == Cardinality(Occupying) < MaxConcurrency
HasBudget(s) == session[s].balance - session[s].held >= Price

CreateCall(c, s) ==
    /\ call[c].state = "none"
    /\ session[s].status = "open" /\ s \notin expired
    /\ HasCapacity(s)
    /\ HasBudget(s)
    /\ Cardinality(CallsOf(s)) < CallLimit
    /\ session' = [session EXCEPT ![s].held = @ + Price]
    /\ call' = [call EXCEPT ![c] = [state |-> "pending", session |-> s, worker |-> Null]]
    /\ UNCHANGED <<account, late, expired>>

(***************************************************************************)
(* The seller's workers.                                                   *)
(***************************************************************************)
MayClaimAgain(c) ==
    /\ call[c].state \in InProgress
    /\ c \notin Expiring(call[c].session)
MayClaim(c) ==
    /\ call[c].state = "pending"
    /\ c \notin Expiring(call[c].session)

ClaimCall(c, w) ==
    /\ MayClaim(c)
    /\ LET s == call[c].session IN
        /\ call' = [CallsAfter(Expiring(s), {}) EXCEPT ![c].state = "claimed",
                                                       ![c].worker = w]
        /\ Transact(Expiring(s), {}, WindingAmong({s}))

MayAnswerLate(c, w) == call[c].state = "claimed" /\ call[c].worker = w
MayAnswer(c, w) ==
    /\ call[c].state = "claimed" /\ call[c].worker = w
    /\ c \notin Expiring(call[c].session)

CompleteCall(c, w) ==
    /\ MayAnswer(c, w)
    /\ LET s == call[c].session
           failed == Expiring(s) \ {c}
       IN  /\ call' = CallsAfter(failed, {c})
           /\ Transact(failed, {c}, WindingAmong({s}))

GiveUpCall(c, w) ==
    /\ MayAnswer(c, w)
    /\ LET s == call[c].session
           failed == Expiring(s) \cup {c}
       IN  /\ call' = CallsAfter(failed, {})
           /\ Transact(failed, {}, WindingAmong({s}))

(***************************************************************************)
(* The cron: some late calls with their sessions, then some sessions.      *)
(***************************************************************************)
AtMostLimit(S) ==
    IF Cardinality(S) <= SweepLimit THEN {S} ELSE kSubset(SweepLimit, S)

LateCalls == {c \in Calls : call[c].state \in InProgress /\ c \in late}

\* Sessions the second query still finds, after the first loop failed these calls.
StillWinding(failed, wound) ==
    {s \in WindingAmong(Sessions) :
        s \in wound => Finalized(s, Charged(s, failed, {})).status # "closed"}

Reconcile ==
    \E dead \in AtMostLimit(LateCalls) :
        LET first  == WindingAmong({call[c].session : c \in dead})
            failed == dead \cup UNION {Abandoned(s) : s \in first}
        IN  \E more \in AtMostLimit(StillWinding(failed, first)) :
                LET all == failed \cup UNION {Abandoned(s) : s \in more}
                IN  /\ call' = CallsAfter(all, {})
                    /\ Transact(all, {}, first \cup more)

(***************************************************************************)
(* Time.  A call's deadline is never after the end of its session (243).   *)
(***************************************************************************)
DeadlinePasses(c) ==
    /\ call[c].state \in InProgress
    /\ c \notin late
    /\ late' = late \cup {c}
    /\ UNCHANGED <<account, session, call, expired>>

SessionExpires(s) ==
    /\ session[s].status \in {"open", "closing"}
    /\ s \notin expired
    /\ expired' = expired \cup {s}
    /\ late' = late \cup Open(s)
    /\ UNCHANGED <<account, session, call>>

Next ==
    \/ \E s \in Sessions : OpenSession(s) \/ SweepSession(s) \/ CloseSession(s)
    \/ \E c \in Calls, s \in Sessions : CreateCall(c, s)
    \/ \E c \in Calls, w \in Workers :
        ClaimCall(c, w) \/ CompleteCall(c, w) \/ GiveUpCall(c, w)
    \/ Reconcile
    \/ \E c \in Calls : DeadlinePasses(c)
    \/ \E s \in Sessions : SessionExpires(s)

Spec == Init /\ [][Next]_vars

\* The cron runs every few minutes (app/api/cron/webhooks) and time passes; no
\* buyer and no worker need ever act.
Fairness ==
    /\ WF_vars(Reconcile)
    /\ \A c \in Calls : WF_vars(DeadlinePasses(c))
    /\ \A s \in Sessions : WF_vars(SessionExpires(s))

FairSpec == Spec /\ Fairness

-----------------------------------------------------------------------------
TypeOK ==
    /\ account \in [Users -> Nat]
    /\ session \in [Sessions -> [status : {"none", "open", "closing", "closed"},
                                 balance : Nat, held : Nat, spent : Nat, refunded : Nat]]
    /\ call \in [Calls -> [state : {"none", "completed", "failed"} \cup InProgress,
                           session : Sessions \cup {Null}, worker : Workers \cup {Null}]]
    /\ late \subseteq Calls
    /\ expired \subseteq Sessions

\* What the credit health audit demands of a session (credit-health.mjs:21-26): the
\* held amount is that of its calls in progress, the spent amount that of its
\* completed calls, and budget = balance + spent + refunded, with the holds covered.
SessionsAddUp ==
    \A s \in Sessions :
        /\ session[s].held = Price * Cardinality(Open(s))
        /\ session[s].spent = Price * Cardinality(Completed(s))
        /\ session[s].held <= session[s].balance
        /\ session[s].status # "none" =>
            session[s].balance + session[s].spent + session[s].refunded = Budget[s]

\* A closed session keeps no money and has no call that could still be charged or
\* refunded (credit-health.mjs:29; finalizeSession waits for held_minor = 0).
ClosedIsSettled ==
    \A s \in Sessions :
        session[s].status = "closed" =>
            session[s].balance = 0 /\ session[s].held = 0 /\ Open(s) = {}

\* Accounts and sessions together hold exactly the deposited credit: no operation
\* mints or loses a cent (liability_minor = deposits_minor in credit-health.mjs:4-5).
CreditIsConserved ==
    SumFunctionOnSet(account, Users)
      + SumFunctionOnSet([s \in Sessions |-> session[s].balance], Sessions)
    = SumFunctionOnSet(Credit, Users)

\* Whatever sessions buyers open, the seller never has more calls in progress than
\* max_concurrency (createInstantCall counts those of all sessions, lines 229-234).
CapacityIsKept == Cardinality(Occupying) <= MaxConcurrency

\* A call past its deadline is never charged: "Late results remain uncharged failed
\* calls" (docs/INSTANT_EXECUTION.md:39), although claim and result race the clock.
LateIsFree ==
    [][\A c \in late : call'[c].state = "completed" => call[c].state = "completed"]_vars

\* A finished call stays as it is, and a claimed one stays with its worker: no
\* second worker takes over (docs/INSTANT_EXECUTION.md:37) and nothing is redone.
CallsAreFinal ==
    [][\A c \in Calls :
        /\ call[c].state \in {"completed", "failed"} => call'[c] = call[c]
        /\ call[c].worker # Null => call'[c].worker = call[c].worker]_vars

\* Every opened session ends and returns what was not spent, even when the buyer and
\* the workers are gone (finalizeSession, reconcileInstantSessions).
SessionsEnd ==
    \A s \in Sessions : session[s].status # "none" ~> session[s].status = "closed"

=============================================================================
