---------------------------- MODULE CheckoutPayments ----------------------------
(***************************************************************************)
(* What the server keeps about a buyer's on-chain payment of a checkout:    *)
(* the trade's row, the send reservation (evm_payment_intents), the claim   *)
(* of one signed transaction (buyer_evm_payment_claims and its siblings for *)
(* organization purchases) and the receipt; and the chain the transfer is   *)
(* sent on. Each operator below is one server operation, used by the two    *)
(* clients that pay: the unattended worker (BuyerWorker) and the browser    *)
(* (BrowserCheckout). A refusal changes nothing and is left to the client.  *)
(*                                                                          *)
(* Abstracted: the wallet's address, chain, token and amount, which the     *)
(* server compares with the intent; the payer's signature of the proof;     *)
(* the routes' own bookkeeping (RoutedOrders) and the refund that follows a *)
(* payment received too late (TradeEscrow, SettlementOutbox).               *)
(*                                                                          *)
(* ReleasableByTrade, WalletIdle and ClaimOnly are not part of the          *)
(* specification: each is a wrong variant of the definition after it, with  *)
(* which a property of BuyerPayments must fail.                             *)
(***************************************************************************)
EXTENDS Naturals, FiniteSets

CONSTANTS
    Trades,       \* checkouts of one buyer, paid from one wallet
    Hosts,        \* state directories a worker runs from; the operation id in
                  \* a host's journal of a checkout is identified with the host
    MaxNonce,     \* nonces the wallet uses
    MaxIntents,   \* send reservations made for one checkout
    NoTx, NoOp,   \* null
    NoTrade       \* what an idle client pays

ASSUME PaymentBounds == MaxNonce \in Nat \ {0} /\ MaxIntents \in Nat \ {0}
ASSUME Nulls == NoTrade \notin Trades /\ NoOp \notin Hosts

VARIABLES
    trade,    \* the checkout: status, gate (may it be paid now) and receipt
    intent,   \* the send reservation, ids counted per checkout
    claim,    \* the signed transaction allowed for it
    deletes,  \* DELETE requests made, which the network may repeat or delay
    sent,     \* transactions handed to the network
    mined     \* transactions the chain has confirmed

Nonces == 1 .. MaxNonce
Txs == [trade : Trades, nonce : Nonces]

ASSUME NullTx == NoTx \notin Txs

Rows == <<trade, intent, claim>>
Chain == <<sent, mined>>

\* An open checkout may be paid; a barred one is refused for now (payments
\* paused, mandate revoked, provider no longer eligible); a late one is past
\* its payment deadline.
Gates == {"open", "barred", "late"}

CheckoutsInit ==
    /\ trade = [t \in Trades |-> [status |-> "pending", gate |-> "open", receipt |-> NoTx]]
    /\ intent = [t \in Trades |-> [id |-> 0, live |-> FALSE, op |-> NoOp, tx |-> NoTx]]
    /\ claim = [t \in Trades |-> [tx |-> NoTx, confirmed |-> FALSE]]
    /\ deletes = {} /\ sent = {} /\ mined = {}

SendAllowed(t) == trade[t].status = "pending" /\ trade[t].gate = "open"

------------------------------------------------------------------------------
(* The send reservation *)

\* POST of an intent for a checkout that has none. Only this answer says
\* created; an existing intent is returned without permission to send.
CreateIntent(t, op) ==
    /\ ~ intent[t].live
    /\ SendAllowed(t)
    /\ intent[t].id < MaxIntents
    /\ intent' = [intent EXCEPT ![t] = [id |-> @.id + 1, live |-> TRUE, op |-> op, tx |-> NoTx]]

\* Wrong: the DELETE names the trade only.
ReleasableByTrade(t, id) == intent[t].live /\ intent[t].tx = NoTx

\* The row a DELETE after a wallet's rejection removes: the named intent, and
\* only while no transaction is attached.
Releasable(t, id) == intent[t].live /\ intent[t].id = id /\ intent[t].tx = NoTx

Released(t) == [intent EXCEPT ![t].live = FALSE]

\* A DELETE that arrives when nobody waits for its answer any more.
LateDelete(d) ==
    /\ d \in deletes
    /\ Releasable(d.trade, d.id)
    /\ intent' = Released(d.trade)
    /\ UNCHANGED <<trade, claim, deletes, sent, mined>>

------------------------------------------------------------------------------
(* The claim of one signed transaction *)

ClaimFits(t, id, op, tx) ==
    /\ intent[t].live /\ intent[t].id = id /\ intent[t].op = op
    /\ intent[t].tx \in {NoTx, tx}
    /\ claim[t].tx \in {NoTx, tx}

\* Wrong: only payments still under way are compared.
WalletIdle(t, nonce) ==
    \A o \in Trades \ {t} : claim[o].tx # NoTx => claim[o].confirmed

\* No other payment of the wallet is unreconciled, and the nonce is new.
WalletFree(t, nonce) ==
    \A o \in Trades \ {t} : claim[o].tx # NoTx => claim[o].confirmed /\ claim[o].tx.nonce # nonce

\* Wrong: the claim is recorded, the intent is left as it was.
ClaimOnly(t, id, op, tx) ==
    /\ ClaimFits(t, id, op, tx)
    /\ claim[t].tx = NoTx /\ intent[t].tx = NoTx
    /\ SendAllowed(t)
    /\ WalletFree(t, tx.nonce)
    /\ claim' = [claim EXCEPT ![t].tx = tx]
    /\ UNCHANGED <<trade, intent>>

\* A first claim records the transaction and attaches it to the intent.
GrantClaim(t, id, op, tx) ==
    /\ ClaimFits(t, id, op, tx)
    /\ claim[t].tx = NoTx /\ intent[t].tx = NoTx
    /\ SendAllowed(t)
    /\ WalletFree(t, tx.nonce)
    /\ claim' = [claim EXCEPT ![t].tx = tx]
    /\ intent' = [intent EXCEPT ![t].tx = tx]
    /\ UNCHANGED trade

\* A repeated claim allows the same transaction while the checkout is open.
AllowAgain(t, id, op, tx) ==
    /\ ClaimFits(t, id, op, tx)
    /\ claim[t].tx = tx /\ ~ claim[t].confirmed
    /\ SendAllowed(t)
    /\ UNCHANGED Rows

\* And after that it only says: recover the payment you have.
RecoverOnly(t, id, op, tx) ==
    /\ ClaimFits(t, id, op, tx)
    /\ claim[t].tx = tx
    /\ claim[t].confirmed \/ ~ SendAllowed(t)
    /\ UNCHANGED Rows

------------------------------------------------------------------------------
(* The proof of payment *)

AlreadyFunded(t) == trade[t].status = "held"

ProofFits(t, id, tx) ==
    /\ ~ AlreadyFunded(t)
    /\ intent[t].live /\ intent[t].id = id
    /\ intent[t].tx \in {NoTx, tx}
    /\ intent[t].op # NoOp => claim[t].tx = tx

Attached(t, tx) == [intent EXCEPT ![t].tx = tx]

\* The hash is saved, but the chain does not show the transfer yet.
SaveProof(t, id, tx) ==
    /\ ProofFits(t, id, tx)
    /\ intent' = Attached(t, tx)
    /\ UNCHANGED <<trade, claim>>

\* What a verified payment makes of the checkout: escrow when it may be paid,
\* a cancelled trade to refund when it may not. A checkout barred from new
\* payments may still accept one already made.
Verdicts(t) ==
    IF trade[t].status = "cancelled" THEN {"cancelled"}
    ELSE CASE trade[t].gate = "open" -> {"held"}
           [] trade[t].gate = "barred" -> {"held", "cancelled"}
           [] trade[t].gate = "late" -> {"cancelled"}

RecordPayment(t, id, tx) ==
    /\ ProofFits(t, id, tx)
    /\ tx \in mined
    /\ trade[t].receipt \in {NoTx, tx}
    /\ \A o \in Trades \ {t} : trade[o].receipt # tx
    /\ intent' = Attached(t, tx)
    /\ \E s \in Verdicts(t) : trade' = [trade EXCEPT ![t].status = s, ![t].receipt = tx]
    /\ claim' = [claim EXCEPT ![t].confirmed = @ \/ claim[t].tx = tx]

------------------------------------------------------------------------------
(* Time, the market and the chain *)

DeadlinePasses(t) ==
    /\ trade[t].status # "held" /\ trade[t].gate # "late"
    /\ trade' = [trade EXCEPT ![t].gate = "late"]
    /\ UNCHANGED <<intent, claim, deletes, sent, mined>>

\* Payments are paused or resumed, or the provider's eligibility changes.
Regate(t) ==
    /\ trade[t].status = "pending"
    /\ \/ trade[t].gate = "open" /\ trade' = [trade EXCEPT ![t].gate = "barred"]
       \/ trade[t].gate = "barred" /\ trade' = [trade EXCEPT ![t].gate = "open"]
    /\ UNCHANGED <<intent, claim, deletes, sent, mined>>

\* The buyer cancels, or the sweep expires, a checkout not paid so far as the
\* server knows. Neither looks at the intent or the claim.
CancelCheckout(t) ==
    /\ trade[t].status = "pending"
    /\ trade' = [trade EXCEPT ![t].status = "cancelled"]
    /\ UNCHANGED <<intent, claim, deletes, sent, mined>>

\* The chain confirms a wallet's transactions in the order of their nonces.
Mine(tx) ==
    /\ tx \in sent
    /\ {m.nonce : m \in mined} = 1 .. (tx.nonce - 1)
    /\ mined' = mined \cup {tx}
    /\ UNCHANGED <<trade, intent, claim, deletes, sent>>

CheckoutsStep ==
    \/ \E d \in deletes : LateDelete(d)
    \/ \E t \in Trades : DeadlinePasses(t)
    \/ \E t \in Trades : Regate(t)
    \/ \E t \in Trades : CancelCheckout(t)
    \/ \E tx \in sent : Mine(tx)

\* With the reference from a claim to its intent, which carries the same
\* transaction.
CheckoutsTyped ==
    /\ trade \in [Trades -> [status : {"pending", "held", "cancelled"}, gate : Gates, receipt : Txs \cup {NoTx}]]
    /\ intent \in [Trades -> [id : 0 .. MaxIntents, live : BOOLEAN, op : Hosts \cup {NoOp}, tx : Txs \cup {NoTx}]]
    /\ claim \in [Trades -> [tx : Txs \cup {NoTx}, confirmed : BOOLEAN]]
    /\ \A t \in Trades : claim[t].tx # NoTx => intent[t].live /\ intent[t].tx = claim[t].tx
    /\ deletes \subseteq [trade : Trades, id : 1 .. MaxIntents]
    /\ sent \subseteq Txs
    /\ mined \subseteq sent
================================================================================
