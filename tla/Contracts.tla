----------------------------- MODULE Contracts -----------------------------
(***************************************************************************)
(* Contracts paid in milestones from account credit: app/api/contracts/**, *)
(* lib/contract-settlement.ts, lib/contracts-state.ts and the admin's      *)
(* rulings, over the accounts of AccountCredit.                            *)
(*                                                                         *)
(* A request reads the contract and then the milestone before its          *)
(* transaction; in between others may change both.  Who may do what is     *)
(* left out: it only refuses.  contracts.dispute_id is, too: nothing reads *)
(* it.  Contracts reviewed by an organization have routes of their own,    *)
(* which are not modelled.                                                 *)
(*                                                                         *)
(* CancelsReread is not part of the specification: it is a wrong variant   *)
(* of the definition after it.                                             *)
(***************************************************************************)
EXTENDS AccountCredit, Sequences

CONSTANTS
    Agreements,     \* the contracts, all for one listing
    Amounts,        \* the amounts of a contract's milestones
    Fee,            \* contracts.fee_amount
    PercentUnit,    \* percentages need not be whole: p stands for p / PercentUnit
    Percents,       \* what a split may give the seller
    Requests,       \* requests under way at once
    MaxDisputes     \* bound on the disputes opened

ASSUME ContractsAssumption ==
    /\ IsFiniteSet(Agreements)
    /\ Agreements \cap Sales = {}      \* ids of contracts and of trades, all random
    /\ Amounts \in [Agreements -> Seq(Nat \ {0})] /\ \A c \in Agreements : Amounts[c] # <<>>
    /\ Fee \in [Agreements -> Nat]
    /\ PercentUnit \in Nat \ {0}
    /\ Percents \subseteq 0 .. 100 * PercentUnit
    /\ MaxDisputes \in Nat

VARIABLES
    contract,   \* contracts.state
    milestone,  \* contract_milestones.state, by milestone_index
    disputes,   \* contract_disputes in the order they were opened
    listing,    \* listings.status of the listing the contracts are for
    rival,      \* another buyer's trade has the listing
    request     \* the requests under way

contractVars == <<contract, milestone, disputes, listing, rival, request>>
allVars == <<creditVars, contractVars>>

Numbers(c) == 1 .. Len(Amounts[c])
Total(c) == FoldFunction(+, 0, Amounts[c])

ContractState == {"DRAFT", "FUNDED", "IN_PROGRESS", "AWAITING_REVIEW", "DISPUTED",
                  "COMPLETED", "CANCELED", "REFUNDED"}
MilestoneState == {"PENDING", "ACTIVE", "AUTO_FAILED", "AWAITING_BUYER_REVIEW",
                   "CHANGES_REQUESTED", "APPROVED", "PAID", "DISPUTED", "REFUNDED"}
ContractActions == {"fund", "start", "cancel", "expire"}
MilestoneActions == {"submit", "approve", "request_changes", "mark_paid", "open_dispute"}

NoRequest == [at |-> "idle", action |-> "none", contract |-> Null, number |-> 0, seen |-> "none"]

TypeOK ==
    /\ CreditTypeOK
    /\ contract \in [Agreements -> ContractState]
    /\ \A c \in Agreements : milestone[c] \in [Numbers(c) -> MilestoneState]
    /\ \A i \in DOMAIN disputes : disputes[i].state \in {"open", "resolved"}
    /\ listing \in {"active", "sold"} /\ rival \in BOOLEAN
    /\ \A r \in Requests :
        /\ request[r].at \in {"idle", "milestone", "disputed", "disputedMilestone", "write"}
        /\ request[r].action \in ContractActions \cup MilestoneActions \cup {"rule", "none"}
        /\ request[r].seen \in ContractState \cup MilestoneState \cup {"none"}

ContractsInit ==
    /\ CreditInit
    /\ contract = [c \in Agreements |-> "DRAFT"]
    /\ milestone = [c \in Agreements |-> [i \in Numbers(c) |-> "PENDING"]]
    /\ disputes = <<>>
    /\ listing = "active" /\ rival = FALSE
    /\ request = [r \in Requests |-> NoRequest]

-----------------------------------------------------------------------------
(* lib/contracts-state.ts and lib/contract-settlement.ts *)

\* canTransitionMilestone for what an action makes of a milestone; a submission
\* has a list of its own.
Moves ==
    ({"submit"} \X {"ACTIVE", "CHANGES_REQUESTED", "AUTO_FAILED"} \X {"AUTO_FAILED", "AWAITING_BUYER_REVIEW"})
    \cup ({"approve"} \X {"AWAITING_BUYER_REVIEW", "DISPUTED"} \X {"APPROVED"})
    \cup ({"request_changes"} \X {"AUTO_FAILED", "AWAITING_BUYER_REVIEW"} \X {"CHANGES_REQUESTED"})
    \cup {<<"mark_paid", "APPROVED", "PAID">>}
    \cup ({"open_dispute"} \X {"ACTIVE", "AUTO_FAILED", "AWAITING_BUYER_REVIEW",
                               "CHANGES_REQUESTED", "APPROVED"} \X {"DISPUTED"})

\* nextContractStateFromMilestones
Over == {"PAID", "REFUNDED"}
Derived(states) ==
    IF states = {"REFUNDED"} THEN "REFUNDED"
    ELSE IF states \subseteq Over THEN "COMPLETED"
    ELSE IF "DISPUTED" \in states THEN "DISPUTED"
    ELSE IF states \cap {"AWAITING_BUYER_REVIEW", "APPROVED"} # {} THEN "AWAITING_REVIEW"
    ELSE IF states \cap {"ACTIVE", "CHANGES_REQUESTED", "AUTO_FAILED"} # {} THEN "IN_PROGRESS"
    ELSE "FUNDED"

\* What the buyer's entries still hold for a contract.
Remaining(c) == Escrow({e \in Of(Buyer) : e.reference = c})

\* distributeCredit, for a milestone or (0) for the whole contract.
Distribute(c, number, amount, toBuyer) ==
    /\ Remaining(c) >= amount
    /\ Post(Division(c, amount, toBuyer, <<"contract_settlement", number>>, <<"contract_sale", number>>))

\* splitContractFunds rounds the seller's share, computed in floating point, to a cent:
\* half a cent may go either way.
SellerShares(amount, percent) ==
    LET whole == 100 * PercentUnit IN
    {n \in 0 .. amount : /\ 2 * (n * whole - amount * percent) <= whole
                         /\ 2 * (amount * percent - n * whole) <= whole}

\* canTransitionMilestone: the states from which a milestone may become ACTIVE.
Startable == {"PENDING", "AUTO_FAILED", "CHANGES_REQUESTED", "DISPUTED"}

\* The milestone takes a state, and if it is over the next one starts, when it is in
\* one of the states `from`.
Moved(c, number, state, from) ==
    [i \in Numbers(c) |->
        IF i = number THEN state
        ELSE IF i = number + 1 /\ state \in Over /\ milestone[c][i] \in from THEN "ACTIVE"
        ELSE milestone[c][i]]

-----------------------------------------------------------------------------
(* PATCH /api/contracts/[id] *)

Done(r) == request' = [request EXCEPT ![r] = NoRequest]

\* The contract is read.
ReadContract(r, c, action) ==
    /\ request[r] = NoRequest /\ action \in ContractActions
    /\ request' = [request EXCEPT ![r] = [at |-> "write", action |-> action, contract |-> c,
                                          number |-> 0, seen |-> contract[c]]]
    /\ UNCHANGED <<creditVars, contract, milestone, disputes, listing, rival>>

\* The transaction of a contract action changes the contract only from the state
\* it must have, which for a cancellation is the one read before.
Write(r, c, action, from, to) ==
    /\ request[r].at = "write" /\ request[r].action = action /\ request[r].contract = c
    /\ contract[c] = from
    /\ contract' = [contract EXCEPT ![c] = to]
    /\ Done(r)

Fund(r, c) ==
    /\ Write(r, c, "fund", "DRAFT", "FUNDED")
    /\ listing = "active" /\ listing' = "sold"
    /\ Post(Reservation(c, Total(c), Fee[c]))
    /\ UNCHANGED <<deposit, receipts, sale, call, milestone, disputes, rival>>

Start(r, c) ==
    /\ Write(r, c, "start", "FUNDED", "IN_PROGRESS")
    /\ milestone' = [milestone EXCEPT ![c][1] = IF @ \in Startable THEN "ACTIVE" ELSE @]
    /\ UNCHANGED <<creditVars, disputes, listing, rival>>

\* refundContractFunds of everything, and the listing is for sale again.
RefundAll(c) ==
    /\ Distribute(c, 0, Total(c), Total(c))
    /\ listing' = "active"
    /\ UNCHANGED <<deposit, receipts, sale, call>>

CancelsReread(r, c) == Write(r, c, "cancel", contract[c], "CANCELED")
CancelsRead(r, c) == Write(r, c, "cancel", request[r].seen, "CANCELED")

Cancel(r, c) ==
    /\ CancelsRead(r, c)
    /\ \/ request[r].seen = "DRAFT" /\ UNCHANGED <<creditVars, listing>>
       \/ request[r].seen = "FUNDED" /\ RefundAll(c)
    /\ UNCHANGED <<milestone, disputes, rival>>

\* The contract expired unstarted.
Expire(r, c) ==
    /\ request[r].seen = "FUNDED"
    /\ Write(r, c, "expire", "FUNDED", "REFUNDED")
    /\ RefundAll(c)
    /\ UNCHANGED <<milestone, disputes, rival>>

-----------------------------------------------------------------------------
(* PATCH /api/contracts/[id]/milestones/[milestoneId] *)

\* The contract is read and must be under way ...
ReadUnderWay(r, c, i, action) ==
    /\ request[r] = NoRequest /\ action \in MilestoneActions
    /\ contract[c] \in {"IN_PROGRESS", "AWAITING_REVIEW", "DISPUTED"}
    /\ request' = [request EXCEPT ![r] = [at |-> "milestone", action |-> action, contract |-> c,
                                          number |-> i, seen |-> "none"]]
    /\ UNCHANGED <<creditVars, contract, milestone, disputes, listing, rival>>

\* ... and then the milestone.
ReadMilestone(r) ==
    LET q == request[r] IN
    /\ q.at = "milestone"
    /\ request' = [request EXCEPT ![r].at = "write", ![r].seen = milestone[q.contract][q.number]]
    /\ UNCHANGED <<creditVars, contract, milestone, disputes, listing, rival>>

\* The milestone changes only if it still is what was read; paying it releases
\* its amount; the contract's state is derived again and written, whatever it is.
UnchangedSince(q) == milestone[q.contract][q.number] = q.seen

WriteMilestone(r, to) ==
    LET q == request[r]
        c == q.contract
        after == Moved(c, q.number, to, Startable)
    IN
    /\ q.at = "write" /\ <<q.action, q.seen, to>> \in Moves
    /\ UnchangedSince(q)
    /\ milestone' = [milestone EXCEPT ![c] = after]
    /\ contract' = [contract EXCEPT ![c] = Derived({after[i] : i \in Numbers(c)})]
    /\ IF q.action = "mark_paid"
       THEN /\ Distribute(c, q.number, Amounts[c][q.number], 0)
            /\ UNCHANGED <<deposit, receipts, sale, call>>
       ELSE UNCHANGED creditVars
    /\ IF q.action = "open_dispute"
       THEN /\ Len(disputes) < MaxDisputes
            /\ disputes' = Append(disputes, [contract |-> c, number |-> q.number, state |-> "open"])
       ELSE UNCHANGED disputes
    /\ Done(r)
    /\ UNCHANGED <<listing, rival>>

-----------------------------------------------------------------------------
(* PATCH /api/admin/contracts/disputes/[id]/resolve *)

\* The dispute is read and must be open, ...
ReadDispute(r, d) ==
    /\ request[r] = NoRequest
    /\ disputes[d].state = "open"
    /\ request' = [request EXCEPT ![r] = [at |-> "disputed", action |-> "rule",
                                          contract |-> disputes[d].contract, number |-> d, seen |-> "none"]]
    /\ UNCHANGED <<creditVars, contract, milestone, disputes, listing, rival>>

\* ... then the contract and then its milestone, both disputed, or it is refused.
ReadDisputed(r) ==
    LET q == request[r] IN
    /\ \/ /\ q.at = "disputed" /\ contract[q.contract] = "DISPUTED"
          /\ request' = [request EXCEPT ![r].at = "disputedMilestone"]
       \/ /\ q.at = "disputedMilestone"
          /\ milestone[q.contract][disputes[q.number].number] = "DISPUTED"
          /\ request' = [request EXCEPT ![r].at = "write"]
    /\ UNCHANGED <<creditVars, contract, milestone, disputes, listing, rival>>

\* The ruling claims the dispute, divides the money, or none of it if the work is
\* done again, and moves the milestone, all of it still disputed.
Rule(r, to, percent) ==
    LET d == request[r].number
        c == request[r].contract
        i == disputes[d].number
        amount == Amounts[c][i]
        after == Moved(c, i, to, {"PENDING"})
    IN
    /\ request[r].at = "write" /\ request[r].action = "rule"
    /\ disputes[d].state = "open" /\ milestone[c][i] = "DISPUTED"
    /\ disputes' = [disputes EXCEPT ![d].state = "resolved"]
    /\ milestone' = [milestone EXCEPT ![c] = after]
    /\ contract' = [contract EXCEPT ![c] =
           IF @ = "DISPUTED" THEN Derived({after[j] : j \in Numbers(c)}) ELSE @]
    /\ IF to = "ACTIVE" THEN UNCHANGED <<account, entries>>
       ELSE \E share \in SellerShares(amount, percent) : Distribute(c, i, amount, amount - share)
    /\ Done(r)
    /\ UNCHANGED <<deposit, receipts, sale, call, listing, rival>>

Ruling(r) ==
    \/ Rule(r, "REFUNDED", 0) \/ Rule(r, "ACTIVE", 0)
    \/ \E percent \in Percents \cup {100 * PercentUnit} : Rule(r, "PAID", percent)

-----------------------------------------------------------------------------
(* Maintenance, other buyers, failures *)

\* POST /api/contracts/maintenance, one transaction: the contracts that expired
\* unstarted are refunded, the reviews that took too long are approved and the
\* states of the contracts under way derived again.
Approved(overdue) ==
    [c \in Agreements |-> [i \in Numbers(c) |->
        IF <<c, i>> \in overdue THEN "APPROVED" ELSE milestone[c][i]]]

Maintain(expired, overdue) ==
    LET after == Approved(overdue)
        Refunds == UNION {Division(c, Total(c), Total(c), <<"contract_settlement", 0>>,
                                   <<"contract_sale", 0>>) : c \in expired}
    IN
    /\ Cardinality(expired) <= 1 /\ \A c \in expired : contract[c] = "FUNDED"
    /\ \A m \in overdue : milestone[m[1]][m[2]] = "AWAITING_BUYER_REVIEW"
    /\ \A c \in expired : Remaining(c) >= Total(c)
    /\ Post(Refunds)
    /\ listing' = IF expired # {} THEN "active" ELSE listing
    /\ milestone' = after
    /\ contract' = [c \in Agreements |->
           IF c \in expired THEN "REFUNDED"
           ELSE IF contract[c] \in {"IN_PROGRESS", "AWAITING_REVIEW", "DISPUTED"}
           THEN Derived({after[c][i] : i \in Numbers(c)})
           ELSE contract[c]]
    /\ UNCHANGED <<deposit, receipts, sale, call, disputes, rival, request>>

InReview == {m \in UNION {{c} \X Numbers(c) : c \in Agreements} :
                milestone[m[1]][m[2]] = "AWAITING_BUYER_REVIEW"}

\* Another buyer's trade takes the listing, or is cancelled and gives it back.
RivalBuys ==
    /\ listing = "active" /\ listing' = "sold" /\ rival' = TRUE
    /\ UNCHANGED <<creditVars, contract, milestone, disputes, request>>
RivalCancels ==
    /\ rival /\ listing' = "active" /\ rival' = FALSE
    /\ UNCHANGED <<creditVars, contract, milestone, disputes, request>>

\* A request is refused or dies.
RequestEnds(r) ==
    /\ request[r] # NoRequest
    /\ Done(r)
    /\ UNCHANGED <<creditVars, contract, milestone, disputes, listing, rival>>

ContractsNext ==
    \/ CreditNext /\ UNCHANGED contractVars
    \/ \E r \in Requests :
        \/ \E c \in Agreements, action \in ContractActions : ReadContract(r, c, action)
        \/ \E c \in Agreements : Fund(r, c) \/ Start(r, c) \/ Cancel(r, c) \/ Expire(r, c)
        \/ \E c \in Agreements, action \in MilestoneActions :
               \E i \in Numbers(c) : ReadUnderWay(r, c, i, action)
        \/ ReadMilestone(r)
        \/ \E to \in MilestoneState : WriteMilestone(r, to)
        \/ \E d \in DOMAIN disputes : ReadDispute(r, d)
        \/ ReadDisputed(r)
        \/ Ruling(r)
        \/ RequestEnds(r)
    \/ \E expired \in SUBSET Agreements, overdue \in SUBSET InReview : Maintain(expired, overdue)
    \/ RivalBuys \/ RivalCancels

Spec == ContractsInit /\ [][ContractsNext]_allVars

-----------------------------------------------------------------------------
(* What must hold *)

RefundedUnstarted(c) == contract[c] = "REFUNDED" /\ milestone[c][1] = "PENDING"

\* What a contract must still hold for the seller.
Owed(c) ==
    IF contract[c] \in {"DRAFT", "CANCELED"} \/ RefundedUnstarted(c)
    THEN 0
    ELSE SumFunctionOnSet(Amounts[c], {i \in Numbers(c) : milestone[c][i] \notin Over})

Held(reference) == Escrow({e \in Of(Buyer) : e.reference = reference})

\* The accounts are the sum of their entries, the entries the confirmed deposits
\* and nothing else, no transfer counts twice, and what the buyer's one escrow
\* holds for each purchase is exactly what that purchase still owes.
CreditBooks ==
    /\ \A u \in Users :
        account[u] = [available |-> Available(Of(u)), escrow |-> Escrow(Of(u))]
    /\ LET confirmed == {d \in Deposits : deposit[d].state = "confirmed"} IN
        /\ Available(entries) + Escrow(entries) = DepositAmount * Cardinality(confirmed)
        /\ Cardinality({deposit[d].hash : d \in confirmed}) = Cardinality(confirmed)
        /\ \A d \in confirmed : deposit[d].hash \in Mined /\ receipts[deposit[d].hash] = "deposit"
    /\ \A t \in Sales : Held(t) = IF sale[t] = "held" THEN SalePrice ELSE 0
    /\ \A c \in Agreements : Held(c) = Owed(c)

\* However late a request writes, a contract is what its milestones say: they are
\* worked on one after the other, a disputed one has an open dispute, a contract
\* that never started has no milestone touched, and while one holds the listing
\* nobody else does.
Unstarted == {"DRAFT", "FUNDED", "CANCELED"}
Sells == ContractState \ {"DRAFT", "CANCELED"}

ContractTellsItsMilestones ==
    /\ \A c \in Agreements :
        LET states == {milestone[c][i] : i \in Numbers(c)} IN
        /\ contract[c] \notin Unstarted /\ states # {"PENDING"} => contract[c] = Derived(states)
        /\ (states = {"PENDING"}) <=> (contract[c] \in Unstarted \/ RefundedUnstarted(c))
        /\ \A i, j \in Numbers(c) : i < j => milestone[c][i] \in Over \/ milestone[c][j] = "PENDING"
        /\ \A i \in Numbers(c) : milestone[c][i] = "DISPUTED" =>
               \E d \in DOMAIN disputes : disputes[d] = [contract |-> c, number |-> i, state |-> "open"]
    /\ LET holders == {c \in Agreements : contract[c] \in Sells /\ ~ RefundedUnstarted(c)} IN
        /\ Cardinality(holders) + (IF rival THEN 1 ELSE 0) <= 1
        /\ (listing = "sold") <=> (holders # {} \/ rival)

=============================================================================
