------------------------------ MODULE BuyerPayments ------------------------------
(***************************************************************************)
(* A buyer's payments of its checkouts: unattended, by workers on one or    *)
(* more hosts that hold the wallet's key and resume from journals, or by    *)
(* hand, in tabs of a browser. The wallet of a mandate is the worker's own  *)
(* (its key is read only on the buyer's host), so one wallet is paid from   *)
(* in one way, chosen in the initial state.                                 *)
(***************************************************************************)
EXTENDS BuyerWorker, BrowserCheckout

VARIABLES unattended   \* the wallet is the workers'

vars == <<Rows, deletes, Chain, Worker, Browser, unattended>>

Init ==
    /\ CheckoutsInit /\ WorkerInit /\ BrowserInit
    /\ unattended \in BOOLEAN

Next ==
    \/ CheckoutsStep /\ UNCHANGED <<Worker, Browser, unattended>>
    \/ unattended /\ WorkerStep /\ UNCHANGED <<Browser, unattended>>
    \/ ~ unattended /\ BrowserStep /\ UNCHANGED <<Worker, unattended>>

Spec == Init /\ [][Next]_vars

TypeOK == CheckoutsTyped /\ WorkerTyped /\ BrowserTyped /\ unattended \in BOOLEAN

------------------------------------------------------------------------------
(* Properties *)

\* However many hosts, tabs, crashes, repeated requests and rejections there
\* are, a checkout is paid by one transaction at most and no two transactions
\* of the wallet compete for a nonce; and a worker's wallet has one payment
\* at a time that no receipt accounts for yet.
OneTransferEach ==
    \A x, y \in sent : x # y =>
        /\ x.trade # y.trade /\ x.nonce # y.nonce
        /\ unattended => \E z \in {x, y} : trade[z.trade].receipt = z

\* Where a transaction of a worker can be found again.
Journaled(tx) ==
    \E h \in Hosts :
        /\ journal[h][tx.trade].step \in {"started", "done"}
        /\ journal[h][tx.trade].tx = tx
        /\ journal[h][tx.trade].id = intent[tx.trade].id

\* A transfer handed to the network can be recovered from what is durable,
\* whatever happens to who sent it: its reservation is still there and holds
\* no other transaction, no other payment is recorded for the checkout, and a
\* worker's transfer is claimed at the server and marked in a journal.
\* A journal is closed only for a payment the server has recorded.
SentIsRecoverable ==
    /\ \A tx \in sent :
        /\ intent[tx.trade].live /\ intent[tx.trade].tx \in {NoTx, tx}
        /\ trade[tx.trade].receipt \in {NoTx, tx}
        /\ unattended => claim[tx.trade].tx = tx /\ Journaled(tx)
    /\ \A h \in Hosts, t \in Trades : journal[h][t].step = "done" =>
        trade[t].receipt = journal[h][t].tx /\ claim[t].confirmed
================================================================================
