------------------------------- MODULE BuyerWorker -------------------------------
(***************************************************************************)
(* The unattended buyer: one pass pays one checkout, and after any          *)
(* uncertain result the same pass is run again. What it must remember is in *)
(* files of its state directory: a journal for each checkout and one file   *)
(* for the wallet, naming the checkout it is paying. A pass holds the       *)
(* wallet's kernel lock, so a host runs one pass at a time; two hosts with  *)
(* the same approval and key share nothing but the server and the chain.    *)
(***************************************************************************)
EXTENDS CheckoutPayments

VARIABLES
    run,         \* the pass a host is making
    journal,     \* the journal files of a host
    walletFile   \* the wallet file of a host: the active checkout

Worker == <<run, journal, walletFile>>

JournalSteps == {"none", "planned", "intended", "signed", "started", "done"}
NoJournal == [step |-> "none", id |-> 0, tx |-> NoTx]
Idle == [pc |-> "idle", trade |-> NoTrade]

WorkerInit ==
    /\ run = [h \in Hosts |-> Idle]
    /\ journal = [h \in Hosts |-> [t \in Trades |-> NoJournal]]
    /\ walletFile = [h \in Hosts |-> NoTrade]

Notes(h) == journal[h][run[h].trade]
At(h, pc) == run[h].pc = pc
Goes(h, pc) == run' = [run EXCEPT ![h] = IF pc = "idle" THEN Idle ELSE [@ EXCEPT !.pc = pc]]
Writes(h, note) == journal' = [journal EXCEPT ![h][run[h].trade] = note]

\* The step a pass resumes at, from what the journal says.
Resumes(step) ==
    CASE step \in {"none", "planned"} -> "reserve"
      [] step = "intended" -> "sign"
      [] step = "signed" -> "claim"
      [] step = "started" -> "recover"

\* The wallet file admits a checkout when the one it names is finished.
WalletFileFree(h, t) ==
    \A active \in {walletFile[h]} \ {NoTrade, t} : journal[h][active].step = "done"

Begin(h, t) ==
    /\ At(h, "idle")
    /\ journal[h][t].step # "done"
    /\ WalletFileFree(h, t)
    /\ walletFile' = [walletFile EXCEPT ![h] = t]
    /\ journal' = [journal EXCEPT ![h][t].step = IF @ = "none" THEN "planned" ELSE @]
    /\ run' = [run EXCEPT ![h] = [pc |-> Resumes(journal[h][t].step), trade |-> t]]
    /\ UNCHANGED <<Rows, deletes, Chain>>

\* The intent is created, or answered again to the operation that created it.
\* The pass may stop before the answer is written down.
RequestIntent(h) ==
    /\ At(h, "reserve")
    /\ LET t == run[h].trade IN
        /\ \/ CreateIntent(t, h)
           \/ intent[t].live /\ intent[t].op = h /\ intent[t].tx = NoTx /\ UNCHANGED intent
        /\ \/ Goes(h, "sign") /\ Writes(h, [Notes(h) EXCEPT !.step = "intended", !.id = intent'[t].id])
           \/ Goes(h, "idle") /\ UNCHANGED journal
    /\ UNCHANGED <<walletFile, trade, claim, deletes, Chain>>

\* The nonce is the node's count of the wallet's transactions: those it has
\* confirmed and as many of those under way as it has heard of.
Sign(h) ==
    /\ At(h, "sign")
    /\ \E n \in Nonces \cap (Cardinality(mined) + 1) .. (Cardinality(sent) + 1) :
        Writes(h, [Notes(h) EXCEPT !.step = "signed", !.tx = [trade |-> run[h].trade, nonce |-> n]])
    /\ Goes(h, "claim")
    /\ UNCHANGED <<walletFile, Rows, deletes, Chain>>

\* Permission to send is asked twice: before the journal says that sending
\* has started, and again after.
Ask(h, here, then) ==
    /\ At(h, here)
    /\ LET t == run[h].trade
           tx == Notes(h).tx
           id == Notes(h).id
       IN \/ (GrantClaim(t, id, h, tx) \/ AllowAgain(t, id, h, tx)) /\ Goes(h, then)
          \/ RecoverOnly(t, id, h, tx) /\ Goes(h, "held")
    /\ UNCHANGED <<journal, walletFile, deletes, Chain>>

Claim(h) == Ask(h, "claim", "mark")
FinalClaim(h) == Ask(h, "final", "broadcast")

\* The marker is durable before anything is handed to the network. A
\* payment that was started and is known to the node is not sent again.
MarkStarted(h) ==
    /\ At(h, "mark")
    /\ Writes(h, [Notes(h) EXCEPT !.step = "started"])
    /\ Goes(h, "final")
    /\ UNCHANGED <<walletFile, Rows, deletes, Chain>>

Broadcast(h) ==
    /\ At(h, "broadcast")
    /\ sent' = sent \cup {Notes(h).tx}
    /\ Goes(h, "held")
    /\ UNCHANGED <<journal, walletFile, Rows, deletes, mined>>

\* The proof is posted; an unconfirmed one lets a resumed pass go on to claim.
PostProof(h) ==
    /\ run[h].pc \in {"recover", "held"}
    /\ LET t == run[h].trade
           id == Notes(h).id
           tx == Notes(h).tx
       IN \/ RecordPayment(t, id, tx) /\ Goes(h, "save")
          \/ AlreadyFunded(t) /\ UNCHANGED Rows /\ Goes(h, "save")
          \/ SaveProof(t, id, tx) /\ Goes(h, IF At(h, "recover") THEN "claim" ELSE "idle")
    /\ UNCHANGED <<journal, walletFile, deletes, Chain>>

\* The journal is closed only on the server's word for this very payment.
SaveDone(h) ==
    /\ At(h, "save")
    /\ LET t == run[h].trade IN
        /\ intent[t].live /\ intent[t].id = Notes(h).id
        /\ claim[t] = [tx |-> Notes(h).tx, confirmed |-> TRUE]
        /\ trade[t].status \in {"held", "cancelled"}
    /\ Writes(h, [Notes(h) EXCEPT !.step = "done"])
    /\ Goes(h, "idle")
    /\ UNCHANGED <<walletFile, Rows, deletes, Chain>>

\* The process dies, the lock is lost, or an answer is an error or missing.
Stop(h) ==
    /\ ~ At(h, "idle")
    /\ Goes(h, "idle")
    /\ UNCHANGED <<journal, walletFile, Rows, deletes, Chain>>

WorkerStep ==
    \E h \in Hosts :
        \/ \E t \in Trades : Begin(h, t)
        \/ RequestIntent(h) \/ Sign(h)
        \/ Claim(h) \/ MarkStarted(h) \/ FinalClaim(h) \/ Broadcast(h)
        \/ PostProof(h) \/ SaveDone(h)
        \/ Stop(h)

WorkerTyped ==
    /\ run \in [Hosts -> {Idle} \cup
            [pc : {"reserve", "sign", "claim", "mark", "final", "broadcast", "recover", "held", "save"}, trade : Trades]]
    /\ journal \in [Hosts -> [Trades -> [step : JournalSteps, id : 0 .. MaxIntents, tx : Txs \cup {NoTx}]]]
    /\ walletFile \in [Hosts -> Trades \cup {NoTrade}]
================================================================================
