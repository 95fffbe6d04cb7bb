--------------------------- MODULE AccountCredit ---------------------------
(***************************************************************************)
(* Deposited account credit (lib/account-credit.ts): deposits that claim a *)
(* transfer of the chain, the accounts with their entries, purchases paid  *)
(* from credit and transfers to an owned agent.                            *)
(*                                                                         *)
(* A call to confirm a deposit awaits between its statements and may die   *)
(* there; everything else is one transaction.                              *)
(*                                                                         *)
(* CoveredInEscrow is not part of the specification: it is a wrong variant *)
(* of the definition after it.                                             *)
(***************************************************************************)
EXTENDS Integers, FiniteSets, Functions

CONSTANTS
    Buyer, Seller, Platform, Agent,     \* the accounts; Agent is owned by Buyer
    Deposits,       \* credit_deposits of the buyer, all of DepositAmount
    DepositAmount,
    Hashes,         \* the transaction hashes anybody names ...
    Mined,          \* ... and those that are transfers of that amount to the treasury
    Sales,          \* trades on the credit rail
    SalePrice, SaleFee,
    Transfers,      \* client references of transfers to the agent
    TransferAmount,
    Calls,          \* calls to confirm a deposit, under way at once
    Null

Users == {Buyer, Seller, Platform, Agent}

ASSUME CreditAssumption ==
    /\ Cardinality(Users) = 4 /\ IsFiniteSet(Deposits)
    /\ Mined \subseteq Hashes /\ Null \notin Hashes \cup Deposits
    /\ DepositAmount \in Nat \ {0} /\ SalePrice \in Nat \ {0} /\ SaleFee \in Nat
    /\ TransferAmount \in Nat \ {0}

VARIABLES
    account,    \* credit_accounts: available_minor and escrow_minor
    entries,    \* credit_entries
    deposit,    \* credit_deposits: state and tx_hash
    receipts,   \* payment_receipts.tx_hash: what each transfer paid for
    sale,       \* the trades: none, held, settled
    call        \* the calls to confirm

creditVars == <<account, entries, deposit, receipts, sale, call>>

NoCall == [at |-> "idle", deposit |-> Null, hash |-> Null]

CreditTypeOK ==
    /\ account \in [Users -> [available : Nat, escrow : Nat]]
    /\ \A e \in entries : e.user \in Users /\ {e.available, e.escrow} \subseteq Int
    /\ deposit \in [Deposits -> [state : {"pending", "confirmed"}, hash : Hashes \cup {Null}]]
    /\ receipts \in [Hashes -> {"none", "deposit", "trade"}]
    /\ sale \in [Sales -> {"none", "held", "settled"}]
    /\ call \in [Calls -> [at : {"idle", "claim", "verify", "post"},
                           deposit : Deposits \cup {Null}, hash : Hashes \cup {Null}]]

CreditInit ==
    /\ account = [u \in Users |-> [available |-> 0, escrow |-> 0]]
    /\ entries = {}
    /\ deposit = [d \in Deposits |-> [state |-> "pending", hash |-> Null]]
    /\ receipts = [h \in Hashes |-> "none"]
    /\ sale = [t \in Sales |-> "none"]
    /\ call = [k \in Calls |-> NoCall]

-----------------------------------------------------------------------------
(* Accounts and entries *)

Entry(user, reference, kind, available, escrow) ==
    [user |-> user, reference |-> reference, kind |-> kind,
     available |-> available, escrow |-> escrow]

\* What a set of entries adds up to.
Available(some) == SumFunctionOnSet([e \in some |-> e.available], some)
Escrow(some) == SumFunctionOnSet([e \in some |-> e.escrow], some)
Of(user) == {e \in entries : e.user = user}

\* changeCredit for the entries of one transaction, no two of one account: the
\* index on (user, reference, kind) and the balances refuse all of them or none.
Unique(e) == \A f \in entries :
    <<e.user, e.reference, e.kind>> # <<f.user, f.reference, f.kind>>
CoveredInEscrow(e) == account[e.user].escrow + e.escrow >= 0
Covered(e) ==
    /\ account[e.user].available + e.available >= 0
    /\ account[e.user].escrow + e.escrow >= 0

Post(new) ==
    LET For(u) == {e \in new : e.user = u} IN
    /\ \A e \in new : Unique(e) /\ Covered(e)
    /\ entries' = entries \cup new
    /\ account' = [u \in Users |-> [available |-> account[u].available + Available(For(u)),
                                    escrow |-> account[u].escrow + Escrow(For(u))]]

\* reserveCredit
Reservation(reference, price, fee) ==
    {Entry(Buyer, reference, <<"purchase">>, - (price + fee), price)}
        \cup (IF fee > 0 THEN {Entry(Platform, reference, <<"fee">>, fee, 0)} ELSE {})

\* settleCredit and distributeCredit: what is held goes to the two sides.
Division(reference, price, toBuyer, kind, saleKind) ==
    {Entry(Buyer, reference, kind, toBuyer, - price)}
        \cup (IF price > toBuyer THEN {Entry(Seller, reference, saleKind, price - toBuyer, 0)} ELSE {})

-----------------------------------------------------------------------------
(* confirmDeposit *)

End(k) == call' = [call EXCEPT ![k] = NoCall]
Goto(k, at) == call' = [call EXCEPT ![k].at = at]

\* The deposit is read; another hash is refused, a confirmed deposit answered.
StartConfirm(k, d, h) ==
    /\ call[k] = NoCall
    /\ deposit[d].hash \in {Null, h} /\ deposit[d].state = "pending"
    /\ call' = [call EXCEPT ![k] = [at |-> "claim", deposit |-> d, hash |-> h]]
    /\ UNCHANGED <<account, entries, deposit, receipts, sale>>

\* The hash is claimed before the network is asked, if nobody did: the index on
\* tx_hash refuses it for a second deposit, the condition another one for this.
Claimable(k) ==
    /\ deposit[call[k].deposit].hash \in {Null, call[k].hash}
    /\ \A d \in Deposits \ {call[k].deposit} : deposit[d].hash # call[k].hash

ClaimHash(k) ==
    /\ call[k].at = "claim"
    /\ IF Claimable(k)
       THEN /\ deposit' = [deposit EXCEPT ![call[k].deposit].hash = call[k].hash]
            /\ Goto(k, "verify")
       ELSE End(k) /\ UNCHANGED deposit
    /\ UNCHANGED <<account, entries, receipts, sale>>

\* The chain confirms only a transfer that is there.
Verify(k) ==
    /\ call[k].at = "verify" /\ call[k].hash \in Mined
    /\ Goto(k, "post")
    /\ UNCHANGED <<account, entries, deposit, receipts, sale>>

\* One transaction: the deposit is read again, the transfer used up, the credit
\* posted.
StillPending(d) == deposit[d].state = "pending"

PostDeposit(k) ==
    LET d == call[k].deposit IN
    /\ call[k].at = "post"
    /\ IF StillPending(d) /\ receipts[call[k].hash] = "none"
       THEN /\ receipts' = [receipts EXCEPT ![call[k].hash] = "deposit"]
            /\ Post({Entry(Buyer, d, <<"deposit">>, DepositAmount, 0)})
            /\ deposit' = [deposit EXCEPT ![d].state = "confirmed"]
       ELSE UNCHANGED <<account, entries, deposit, receipts>>
    /\ End(k)
    /\ UNCHANGED sale

\* The call dies, or a check of it fails.
ConfirmDies(k) ==
    /\ call[k] # NoCall
    /\ End(k)
    /\ UNCHANGED <<account, entries, deposit, receipts, sale>>

\* A transfer pays for a trade instead: payment_receipts has the same index.
PayTrade(h) ==
    /\ h \in Mined /\ receipts[h] = "none"
    /\ receipts' = [receipts EXCEPT ![h] = "trade"]
    /\ UNCHANGED <<account, entries, deposit, sale, call>>

-----------------------------------------------------------------------------
(* Purchases and transfers *)

\* createLedgerTrade on the credit rail.
Purchase(t) ==
    /\ sale[t] = "none"
    /\ sale' = [sale EXCEPT ![t] = "held"]
    /\ Post(Reservation(t, SalePrice, SaleFee))
    /\ UNCHANGED <<deposit, receipts, call>>

\* finalizeTradeCompletion or finalizeTradeDispute, which claim the trade first.
Settle(t, toBuyer) ==
    /\ sale[t] = "held"
    /\ sale' = [sale EXCEPT ![t] = "settled"]
    /\ Post(Division(t, SalePrice, toBuyer, <<"settlement">>, <<"sale">>))
    /\ UNCHANGED <<deposit, receipts, call>>

\* fundOwnedAgent, once per client reference.
FundOwnedAgent(reference) ==
    /\ Post({Entry(Buyer, reference, <<"transfer_out">>, - TransferAmount, 0),
             Entry(Agent, reference, <<"transfer_in">>, TransferAmount, 0)})
    /\ UNCHANGED <<deposit, receipts, sale, call>>

CreditNext ==
    \/ \E k \in Calls :
        \/ \E d \in Deposits, h \in Hashes : StartConfirm(k, d, h)
        \/ ClaimHash(k) \/ Verify(k) \/ PostDeposit(k) \/ ConfirmDies(k)
    \/ \E h \in Hashes : PayTrade(h)
    \/ \E t \in Sales : Purchase(t) \/ \E toBuyer \in 0 .. SalePrice : Settle(t, toBuyer)
    \/ \E reference \in Transfers : FundOwnedAgent(reference)

=============================================================================
