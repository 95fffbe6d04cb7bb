----------------------------- MODULE BrowserCheckout -----------------------------
(***************************************************************************)
(* The buyer who pays by hand: a tab of the checkout page runs              *)
(* runRecoverableEvmPayment, which reserves, lets the wallet send, and      *)
(* presents the hash until it is confirmed. Tabs of one browser share the   *)
(* recovery record in its local storage. The wallet is honest: a rejection  *)
(* means nothing was sent, and a hash the buyer copies from its history is  *)
(* that of a transfer made for this checkout.                               *)
(***************************************************************************)
EXTENDS CheckoutPayments

CONSTANTS Tabs

VARIABLES
    tab,    \* what a tab is doing: local is the record it read when it began
    saved   \* the recovery record of each checkout in local storage

Browser == <<tab, saved>>

NoRecord == [id |-> 0, tx |-> NoTx]
Closed == [pc |-> "idle", trade |-> NoTrade, id |-> 0, tx |-> NoTx, local |-> NoRecord]

BrowserInit ==
    /\ tab = [k \in Tabs |-> Closed]
    /\ saved = [t \in Trades |-> NoRecord]

InTab(k, pc) == tab[k].pc = pc
Shows(k, pc, id, tx) == tab' = [tab EXCEPT ![k] = [@ EXCEPT !.pc = pc, !.id = id, !.tx = tx]]
Turns(k, pc) == Shows(k, pc, tab[k].id, tab[k].tx)
Closes(k) == tab' = [tab EXCEPT ![k] = Closed]
Persists(k, id, tx) == saved' = [saved EXCEPT ![tab[k].trade] = [id |-> id, tx |-> tx]]

OpenPage(k, t) ==
    /\ InTab(k, "idle")
    /\ tab' = [tab EXCEPT ![k] = [Closed EXCEPT !.pc = "reserve", !.trade = t, !.local = saved[t]]]
    /\ UNCHANGED <<saved, Rows, deletes, Chain>>

\* Only a reservation just created leads to the wallet.
Reserve(k) ==
    /\ InTab(k, "reserve")
    /\ CreateIntent(tab[k].trade, NoOp)
    /\ LET id == intent'[tab[k].trade].id IN Persists(k, id, NoTx) /\ Shows(k, "wallet", id, NoTx)
    /\ UNCHANGED <<trade, claim, deletes, Chain>>

\* An existing one leads to the transaction already sent for it: the hash
\* the server has, the one saved here, or the one the buyer found.
\* Records that disagree, or no hash, end in an error (CloseTab).
Resume(k) ==
    /\ InTab(k, "reserve")
    /\ LET t == tab[k].trade
           here == IF tab[k].local.id = intent[t].id THEN tab[k].local.tx ELSE NoTx
       IN /\ intent[t].live
          /\ \E copied \in {NoTx} \cup {tx \in sent : tx.trade = t} :
                LET known == {intent[t].tx, here} \ {NoTx}
                    tx == IF known # {} THEN CHOOSE x \in known : TRUE ELSE copied
                IN /\ Cardinality(known) <= 1 /\ tx # NoTx
                   /\ Shows(k, "prove", intent[t].id, tx)
    /\ UNCHANGED <<saved, Rows, deletes, Chain>>

\* The wallet signs and sends with its next nonce. The deadline was looked at before
\* the chain was switched and the buyer prompted, so the transfer may come after it.
WalletSends(k) ==
    /\ InTab(k, "wallet")
    /\ LET tx == [trade |-> tab[k].trade, nonce |-> Cardinality(sent) + 1]
       IN tx.nonce \in Nonces /\ sent' = sent \cup {tx} /\ Shows(k, "keep", tab[k].id, tx)
    /\ UNCHANGED <<saved, Rows, deletes, mined>>

\* The wallet refuses, and the tab asks for the reservation to be released.
WalletRejects(k) ==
    /\ InTab(k, "wallet")
    /\ deletes' = deletes \cup {[trade |-> tab[k].trade, id |-> tab[k].id]}
    /\ Turns(k, "release")
    /\ UNCHANGED <<saved, Rows, Chain>>

Release(k) ==
    /\ InTab(k, "release")
    /\ IF Releasable(tab[k].trade, tab[k].id)
       THEN intent' = Released(tab[k].trade) /\ Turns(k, "forget")
       ELSE Closes(k) /\ UNCHANGED intent
    /\ UNCHANGED <<saved, trade, claim, deletes, Chain>>

\* The record is removed whoever wrote it last.
Forget(k) ==
    /\ InTab(k, "forget")
    /\ saved' = [saved EXCEPT ![tab[k].trade] = NoRecord]
    /\ Closes(k)
    /\ UNCHANGED <<Rows, deletes, Chain>>

\* The hash is saved as soon as the wallet returns it, and again with the
\* payer's signature.
KeepHash(k) ==
    /\ tab[k].pc \in {"keep", "prove"}
    /\ Persists(k, tab[k].id, tab[k].tx)
    /\ Turns(k, IF InTab(k, "keep") THEN "prove" ELSE "verify")
    /\ UNCHANGED <<Rows, deletes, Chain>>

\* The proof is posted until it is recorded; a tab gives up after a while.
Verify(k) ==
    /\ InTab(k, "verify")
    /\ LET t == tab[k].trade IN
        \/ RecordPayment(t, tab[k].id, tab[k].tx) /\ Closes(k)
        \/ AlreadyFunded(t) /\ UNCHANGED Rows /\ Closes(k)
        \/ SaveProof(t, tab[k].id, tab[k].tx) /\ UNCHANGED tab
    /\ UNCHANGED <<saved, deletes, Chain>>

\* The tab is closed, loses its connection or shows an error.
CloseTab(k) ==
    /\ ~ InTab(k, "idle")
    /\ Closes(k)
    /\ UNCHANGED <<saved, Rows, deletes, Chain>>

BrowserStep ==
    \E k \in Tabs :
        \/ \E t \in Trades : OpenPage(k, t)
        \/ Reserve(k) \/ Resume(k)
        \/ WalletSends(k) \/ WalletRejects(k)
        \/ Release(k) \/ Forget(k)
        \/ KeepHash(k) \/ Verify(k)
        \/ CloseTab(k)

BrowserTyped ==
    /\ tab \in [Tabs -> [pc : {"idle", "reserve", "wallet", "release", "forget", "keep", "prove", "verify"},
                         trade : Trades \cup {NoTrade}, id : 0 .. MaxIntents, tx : Txs \cup {NoTx},
                         local : [id : 0 .. MaxIntents, tx : Txs \cup {NoTx}]]]
    /\ saved \in [Trades -> [id : 0 .. MaxIntents, tx : Txs \cup {NoTx}]]
================================================================================
