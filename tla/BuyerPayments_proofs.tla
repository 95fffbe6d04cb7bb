-------------------------- MODULE BuyerPayments_proofs --------------------------
(***************************************************************************)
(* The two ways of paying never meet (BuyerPayments chooses one in Init),   *)
(* so the inductive invariant has a half for each.                          *)
(***************************************************************************)
EXTENDS BuyerPayments, FiniteSetTheorems, TLAPS

------------------------------------------------------------------------------
(* The worker's half *)

Reserved == {"intended", "signed", "started", "done"}
Signed == {"signed", "started", "done"}
Started == {"started", "done"}

\* What a journal knows of the intent stays true: nobody deletes it.
JournalsReserve ==
    \A h \in Hosts, t \in Trades : journal[h][t].step \in Reserved =>
        intent[t].live /\ intent[t].op = h /\ intent[t].id = journal[h][t].id

JournalsSign ==
    \A h \in Hosts, t \in Trades : journal[h][t].step \in Signed =>
        journal[h][t].tx \in Txs /\ journal[h][t].tx.trade = t

\* A claim is of the transaction in the journal of the intent's operation.
ClaimsAreSigned ==
    \A t \in Trades : claim[t].tx # NoTx =>
        /\ intent[t].op \in Hosts
        /\ journal[intent[t].op][t].step \in Signed
        /\ journal[intent[t].op][t].tx = claim[t].tx

\* What WalletFree keeps apart stays apart.
ClaimsApart ==
    \A t, o \in Trades : t # o /\ claim[t].tx # NoTx /\ claim[o].tx # NoTx =>
        /\ claim[t].tx.nonce # claim[o].tx.nonce
        /\ claim[t].confirmed \/ claim[o].confirmed

ReceiptsClaimed ==
    \A t \in Trades :
        /\ claim[t].confirmed => claim[t].tx # NoTx /\ trade[t].receipt = claim[t].tx
        /\ trade[t].receipt # NoTx => claim[t].tx = trade[t].receipt

SentIsClaimed ==
    \A x \in sent :
        /\ claim[x.trade].tx = x
        /\ journal[intent[x.trade].op][x.trade].step \in Started

\* What a pass may rely on at each of its steps.
PassKnows(h) ==
    LET note == journal[h][run[h].trade]
    IN /\ run[h].pc = "reserve" => note.step = "planned"
       /\ run[h].pc = "sign" => note.step = "intended"
       /\ run[h].pc \in {"claim", "mark", "held", "save"} => note.step \in {"signed", "started"}
       /\ run[h].pc \in {"recover", "final", "broadcast"} => note.step = "started"
       /\ run[h].pc \in {"mark", "final", "broadcast"} => claim[run[h].trade].tx = note.tx

PassesKnow == \A h \in Hosts : PassKnows(h)

DoneIsConfirmed ==
    \A h \in Hosts, t \in Trades : journal[h][t].step = "done" =>
        claim[t].confirmed /\ claim[t].tx = journal[h][t].tx

WorkerInv ==
    /\ deletes = {}
    /\ JournalsReserve /\ JournalsSign
    /\ ClaimsAreSigned /\ ClaimsApart
    /\ ReceiptsClaimed /\ SentIsClaimed
    /\ PassesKnow /\ DoneIsConfirmed

------------------------------------------------------------------------------
(* The browser's half *)

Was(t, tx) == tx # NoTx => tx \in sent /\ tx.trade = t

\* Every hash that is kept anywhere is that of a transfer sent for its checkout.
HashesAreSent ==
    /\ \A t \in Trades : Was(t, saved[t].tx) /\ Was(t, intent[t].tx) /\ Was(t, trade[t].receipt)
    /\ \A k \in Tabs : Was(tab[k].trade, tab[k].tx) /\ Was(tab[k].trade, tab[k].local.tx)

\* A reservation that somebody asked to delete has been rejected by the wallet.
DeletesAreOld == \A d \in deletes : d.id <= intent[d.trade].id
ReleasesAreAsked ==
    \A k \in Tabs : tab[k].pc = "release" => [trade |-> tab[k].trade, id |-> tab[k].id] \in deletes

Pinned(t) == intent[t].live /\ [trade |-> t, id |-> intent[t].id] \notin deletes

\* Only one wallet prompt is open for a checkout, and only before a transfer.
PromptIsAlone(k) ==
    tab[k].pc = "wallet" =>
        /\ Pinned(tab[k].trade) /\ intent[tab[k].trade].id = tab[k].id /\ tab[k].id # 0
        /\ \A x \in sent : x.trade # tab[k].trade
        /\ \A j \in Tabs \ {k} : ~ (tab[j].pc = "wallet" /\ tab[j].trade = tab[k].trade)

PromptsAreAlone == \A k \in Tabs : PromptIsAlone(k)

SentIsPinned ==
    /\ \A x \in sent : Pinned(x.trade)
    /\ \A x, y \in sent : x # y => x.trade # y.trade /\ x.nonce # y.nonce
    /\ \A x \in sent : x.nonce <= Cardinality(sent)

TabsAreOpen == \A k \in Tabs : tab[k].pc # "idle" => tab[k].trade \in Trades

BrowserInv ==
    /\ \A t \in Trades : claim[t].tx = NoTx
    /\ \A h \in Hosts, t \in Trades : journal[h][t].step = "none"
    /\ HashesAreSent
    /\ DeletesAreOld /\ ReleasesAreAsked
    /\ PromptsAreAlone /\ SentIsPinned /\ TabsAreOpen

IInv ==
    /\ TypeOK
    /\ IsFiniteSet(sent)
    /\ unattended => WorkerInv
    /\ ~ unattended => BrowserInv

------------------------------------------------------------------------------
(* The initial state *)

USE Nulls, NullTx

\* What the three updates of a checkout's rows leave: a hash on the intent, ...
LEMMA AttachedRow ==
    ASSUME NEW t \in Trades, NEW tx \in Txs \cup {NoTx},
           intent \in [Trades -> [id : 0 .. MaxIntents, live : BOOLEAN, op : Hosts \cup {NoOp}, tx : Txs \cup {NoTx}]],
           intent' = [intent EXCEPT ![t].tx = tx]
    PROVE  /\ intent' \in [Trades -> [id : 0 .. MaxIntents, live : BOOLEAN, op : Hosts \cup {NoOp}, tx : Txs \cup {NoTx}]]
           /\ \A u \in Trades : /\ intent'[u].live = intent[u].live /\ intent'[u].op = intent[u].op
                               /\ intent'[u].id = intent[u].id
           /\ intent'[t].tx = tx
           /\ \A u \in Trades \ {t} : intent'[u] = intent[u]
<1> DEFINE R == [id : 0 .. MaxIntents, live : BOOLEAN, op : Hosts \cup {NoOp}, tx : Txs \cup {NoTx}]
<1> DEFINE row == [intent[t] EXCEPT !.tx = tx]
<1>1. intent \in [Trades -> R]
    OBVIOUS
<1>2. row \in R /\ row.live = intent[t].live /\ row.op = intent[t].op /\ row.id = intent[t].id /\ row.tx = tx
    BY <1>1
<1>3. intent' = [intent EXCEPT ![t] = row]
    OBVIOUS
<1> HIDE DEF R, row
<1>4. intent' \in [Trades -> R] /\ intent'[t] = row /\ \A u \in Trades \ {t} : intent'[u] = intent[u]
    BY <1>1, <1>2, <1>3
<1>5. intent' \in [Trades -> [id : 0 .. MaxIntents, live : BOOLEAN, op : Hosts \cup {NoOp}, tx : Txs \cup {NoTx}]]
    BY ONLY <1>4 DEF R
<1>6. /\ intent'[t].live = intent[t].live /\ intent'[t].op = intent[t].op
      /\ intent'[t].id = intent[t].id /\ intent'[t].tx = tx
    BY ONLY <1>2, <1>4
<1> QED
    BY ONLY <1>4, <1>5, <1>6

\* ... a receipt on the trade ...
LEMMA PaidRow ==
    ASSUME NEW t \in Trades, NEW tx \in Txs \cup {NoTx}, NEW st \in {"held", "cancelled"},
           trade \in [Trades -> [status : {"pending", "held", "cancelled"}, gate : Gates, receipt : Txs \cup {NoTx}]],
           trade' = [trade EXCEPT ![t].status = st, ![t].receipt = tx]
    PROVE  /\ trade' \in [Trades -> [status : {"pending", "held", "cancelled"}, gate : Gates, receipt : Txs \cup {NoTx}]]
           /\ trade'[t].receipt = tx
           /\ \A u \in Trades \ {t} : trade'[u] = trade[u]
<1> DEFINE R == [status : {"pending", "held", "cancelled"}, gate : Gates, receipt : Txs \cup {NoTx}]
<1> DEFINE row == [trade[t] EXCEPT !.status = st, !.receipt = tx]
<1>1. trade \in [Trades -> R]
    OBVIOUS
<1>2. row \in R /\ row.receipt = tx
    BY <1>1
<1>3. trade' = [trade EXCEPT ![t] = row]
    OBVIOUS
<1> HIDE DEF R, row
<1>6. t \in Trades
    OBVIOUS
<1>4. trade' \in [Trades -> R] /\ trade'[t] = row /\ \A u \in Trades \ {t} : trade'[u] = trade[u]
    BY ONLY <1>1, <1>2, <1>3, <1>6
<1>5. trade' \in [Trades -> [status : {"pending", "held", "cancelled"}, gate : Gates, receipt : Txs \cup {NoTx}]]
    BY ONLY <1>4 DEF R
<1> QED
    BY ONLY <1>2, <1>4, <1>5

\* ... and a hash on its claim.
LEMMA ClaimedRow ==
    ASSUME NEW t \in Trades, NEW tx \in Txs \cup {NoTx},
           claim \in [Trades -> [tx : Txs \cup {NoTx}, confirmed : BOOLEAN]],
           claim' = [claim EXCEPT ![t].tx = tx]
    PROVE  /\ claim' \in [Trades -> [tx : Txs \cup {NoTx}, confirmed : BOOLEAN]]
           /\ claim'[t].tx = tx /\ claim'[t].confirmed = claim[t].confirmed
           /\ \A u \in Trades \ {t} : claim'[u] = claim[u]
<1> DEFINE row == [claim[t] EXCEPT !.tx = tx]
<1>1. row \in [tx : Txs \cup {NoTx}, confirmed : BOOLEAN] /\ row.tx = tx /\ row.confirmed = claim[t].confirmed
    OBVIOUS
<1>2. claim' = [claim EXCEPT ![t] = row]
    OBVIOUS
<1> HIDE DEF row
<1> QED
    BY <1>1, <1>2

LEMMA InitHolds == Init => IInv
<1> SUFFICES ASSUME Init PROVE IInv
    OBVIOUS
<1> USE DEF Init, CheckoutsInit, WorkerInit, BrowserInit
<1>1. TypeOK
    BY PaymentBounds DEF TypeOK, CheckoutsTyped, WorkerTyped, BrowserTyped, Gates, JournalSteps,
        NoJournal, Idle, NoRecord, Closed
<1>2. IsFiniteSet(sent)
    BY FS_EmptySet
<1>3. WorkerInv
    BY DEF WorkerInv, Reserved, Signed, Started, JournalsReserve, JournalsSign, ClaimsAreSigned,
        ClaimsApart, ReceiptsClaimed, SentIsClaimed, PassesKnow, PassKnows, DoneIsConfirmed, NoJournal, Idle
<1>4. BrowserInv
    BY DEF BrowserInv, HashesAreSent, Was, DeletesAreOld, ReleasesAreAsked, Pinned, PromptsAreAlone, PromptIsAlone,
        SentIsPinned, TabsAreOpen, NoJournal, NoRecord, Closed
<1> QED
    BY <1>1, <1>2, <1>3, <1>4 DEF IInv

------------------------------------------------------------------------------
(* Each step of a worker *)

Passes == {Idle} \cup [pc : {"reserve", "sign", "claim", "mark", "final", "broadcast", "recover", "held", "save"}, trade : Trades]
Journals == [step : JournalSteps, id : 0 .. MaxIntents, tx : Txs \cup {NoTx}]

LEMMA PassIsTyped ==
    ASSUME TypeOK, NEW h \in Hosts, ~ At(h, "idle")
    PROVE run[h].trade \in Trades /\ Notes(h) \in Journals
BY DEF TypeOK, WorkerTyped, At, Idle, Notes, Journals

LEMMA Moved ==
    ASSUME TypeOK, NEW h \in Hosts, NEW pc, Goes(h, pc), ~ At(h, "idle"),
           pc \in {"idle", "reserve", "sign", "claim", "mark", "final", "broadcast", "recover", "held", "save"}
    PROVE /\ run' \in [Hosts -> Passes]
          /\ run'[h].pc = pc /\ (pc # "idle" => run'[h].trade = run[h].trade)
          /\ \A g \in Hosts \ {h} : run'[g] = run[g]
BY DEF TypeOK, WorkerTyped, Goes, At, Idle, Passes

LEMMA BeginStep ==
    ASSUME IInv, unattended, NEW h \in Hosts, NEW t \in Trades, Begin(h, t), UNCHANGED <<Browser, unattended>>
    PROVE IInv'
<1> DEFINE note == [journal[h][t] EXCEPT !.step = IF @ = "none" THEN "planned" ELSE @]
<1> USE DEF Rows, Chain, Browser
<1>1. TypeOK /\ WorkerInv
    BY DEF IInv
<1>2. note \in Journals /\ journal[h][t] \in Journals
  <2>1. journal[h][t] \in Journals
    BY <1>1 DEF TypeOK, WorkerTyped, Journals
  <2> QED
    BY <2>1 DEF Journals, JournalSteps
<1>3. journal' = [journal EXCEPT ![h][t] = note]
    BY <1>1 DEF Begin, TypeOK, WorkerTyped
<1> HIDE DEF note
<1>4. /\ journal' \in [Hosts -> [Trades -> Journals]]
      /\ journal'[h][t] = note
      /\ \A g \in Hosts, u \in Trades : g # h \/ u # t => journal'[g][u] = journal[g][u]
  <2>1. journal \in [Hosts -> [Trades -> Journals]]
    BY <1>1 DEF TypeOK, WorkerTyped, Journals
  <2> QED
    BY <1>2, <1>3, <2>1
<1>5. \A g \in Hosts, u \in Trades :
        \/ journal'[g][u] = journal[g][u]
        \/ journal'[g][u].step = "planned" /\ journal[g][u].step = "none"
    BY <1>2, <1>4 DEF note, Journals
<1>6. TypeOK'
  <2>1. CheckoutsTyped'
    BY <1>1 DEF TypeOK, CheckoutsTyped, Begin
  <2>2. Resumes(journal[h][t].step) \in {"reserve", "sign", "claim", "recover"}
    BY <1>2 DEF Journals, JournalSteps, Resumes, Begin
  <2>3. WorkerTyped'
    BY <1>1, <1>4, <2>2 DEF TypeOK, WorkerTyped, Begin, Journals
  <2> QED
    BY <1>1, <2>1, <2>3 DEF TypeOK, BrowserTyped
<1>7. WorkerInv'
  <2>1. deletes' = {} /\ (JournalsReserve /\ JournalsSign /\ ClaimsAreSigned /\ ClaimsApart)'
    BY <1>1, <1>5 DEF WorkerInv, Begin, Reserved, Signed, JournalsReserve, JournalsSign, ClaimsAreSigned, ClaimsApart
  <2>2. (ReceiptsClaimed /\ SentIsClaimed /\ DoneIsConfirmed)'
    BY <1>1, <1>5 DEF WorkerInv, Begin, Started, ClaimsAreSigned, ReceiptsClaimed, SentIsClaimed, DoneIsConfirmed,
        TypeOK, CheckoutsTyped, Txs
  <2>3. PassesKnow'
    <3>1. run' = [run EXCEPT ![h] = [pc |-> Resumes(journal[h][t].step), trade |-> t]] /\ UNCHANGED claim
        BY DEF Begin
    <3>2. /\ run'[h].pc = Resumes(journal[h][t].step) /\ run'[h].trade = t
          /\ \A g \in Hosts \ {h} : run'[g] = run[g]
        BY <1>1, <3>1 DEF TypeOK, WorkerTyped
    <3>3. /\ journal[h][t].step \in JournalSteps \ {"done"}
          /\ note.step = IF journal[h][t].step = "none" THEN "planned" ELSE journal[h][t].step
        BY <1>2 DEF Begin, Journals, note
    <3>4. PassKnows(h)'
        BY <1>4, <3>2, <3>3 DEF PassKnows, Resumes, JournalSteps
    <3>5. ASSUME NEW g \in Hosts \ {h} PROVE PassKnows(g)'
      <4>1. PassKnows(g)
        BY <1>1 DEF WorkerInv, PassesKnow
      <4>2. run[g].pc # "idle" => run[g].trade \in Trades
        BY <1>1 DEF TypeOK, WorkerTyped, Idle
      <4>3. run[g].pc # "idle" => journal'[g][run[g].trade] = journal[g][run[g].trade]
        BY <1>4, <4>2
      <4> QED
        BY <3>1, <3>2, <4>1, <4>3 DEF PassKnows
    <3> QED
        BY <3>4, <3>5 DEF PassesKnow
  <2> QED
    BY <1>1, <2>1, <2>2, <2>3 DEF WorkerInv
<1> QED
    BY <1>1, <1>6, <1>7 DEF IInv, Begin

LEMMA RequestIntentStep ==
    ASSUME IInv, unattended, NEW h \in Hosts, RequestIntent(h), UNCHANGED <<Browser, unattended>>
    PROVE IInv'
<1> USE DEF Rows, Chain, Browser
<1>1. TypeOK /\ WorkerInv /\ At(h, "reserve") /\ ~ At(h, "idle")
    BY DEF IInv, RequestIntent, At
<1>2. PICK t \in Trades : t = run[h].trade /\ journal[h][t] = Notes(h) /\ Notes(h) \in Journals
    BY <1>1, PassIsTyped DEF Notes
<1>3. Notes(h).step = "planned"
    BY <1>1, <1>2 DEF WorkerInv, PassesKnow, PassKnows, At
<1>4. /\ intent' \in [Trades -> [id : 0 .. MaxIntents, live : BOOLEAN, op : Hosts \cup {NoOp}, tx : Txs \cup {NoTx}]]
      /\ intent'[t].live /\ intent'[t].op = h /\ intent'[t].tx = NoTx
      /\ \A u \in Trades \ {t} : intent'[u] = intent[u]
      /\ intent[t].live => intent'[t] = intent[t]
  <2>1. CASE CreateIntent(t, h)
    BY <1>1, <1>2, <2>1, PaymentBounds DEF CreateIntent, TypeOK, CheckoutsTyped
  <2>2. CASE intent[t].live /\ intent[t].op = h /\ intent[t].tx = NoTx /\ UNCHANGED intent
    BY <1>1, <1>2, <2>2 DEF TypeOK, CheckoutsTyped
  <2> QED
    BY <1>2, <2>1, <2>2 DEF RequestIntent
<1>5. claim[t].tx = NoTx /\ UNCHANGED <<trade, claim, deletes, sent, mined, walletFile>>
    BY <1>1, <1>2 DEF RequestIntent, CreateIntent, TypeOK, CheckoutsTyped
<1>6. /\ journal' \in [Hosts -> [Trades -> Journals]]
      /\ run' \in [Hosts -> Passes]
      /\ \A g \in Hosts \ {h} : run'[g] = run[g]
      /\ \A g \in Hosts, u \in Trades : g # h \/ u # t => journal'[g][u] = journal[g][u]
      /\ \/ /\ run'[h].pc = "sign" /\ run'[h].trade = t
            /\ journal'[h][t].step = "intended" /\ journal'[h][t].id = intent'[t].id
         \/ run'[h].pc = "idle" /\ journal'[h][t] = journal[h][t]
  <2>1. CASE Goes(h, "sign") /\ Writes(h, [Notes(h) EXCEPT !.step = "intended", !.id = intent'[t].id])
    <3>1. [Notes(h) EXCEPT !.step = "intended", !.id = intent'[t].id] \in Journals
        BY <1>2, <1>4 DEF Journals, JournalSteps
    <3>2. /\ journal' \in [Hosts -> [Trades -> Journals]]
          /\ journal'[h][t] = [Notes(h) EXCEPT !.step = "intended", !.id = intent'[t].id]
          /\ \A g \in Hosts, u \in Trades : g # h \/ u # t => journal'[g][u] = journal[g][u]
      <4>1. journal' = [journal EXCEPT ![h][t] = [Notes(h) EXCEPT !.step = "intended", !.id = intent'[t].id]]
        BY <1>2, <2>1 DEF Writes
      <4>2. journal \in [Hosts -> [Trades -> Journals]]
        BY <1>1 DEF TypeOK, WorkerTyped, Journals
      <4> QED
        BY <3>1, <4>1, <4>2
    <3> QED
        BY <1>1, <1>2, <2>1, <3>2, Moved DEF Journals
  <2>2. CASE Goes(h, "idle") /\ UNCHANGED journal
    BY <1>1, <1>2, <2>2, Moved DEF TypeOK, WorkerTyped, Journals
  <2> QED
    BY <1>2, <2>1, <2>2 DEF RequestIntent
<1>7. TypeOK'
  <2>1. CheckoutsTyped'
    BY <1>1, <1>4, <1>5 DEF TypeOK, CheckoutsTyped
  <2> QED
    BY <1>1, <1>5, <1>6, <2>1 DEF TypeOK, WorkerTyped, BrowserTyped, Journals, Passes
<1>8. WorkerInv'
  <2>1. deletes' = {} /\ (JournalsReserve /\ JournalsSign)'
    <3>1. JournalsReserve'
      <4> SUFFICES ASSUME NEW g \in Hosts, NEW u \in Trades, journal'[g][u].step \in Reserved
                   PROVE intent'[u].live /\ intent'[u].op = g /\ intent'[u].id = journal'[g][u].id
        BY DEF JournalsReserve
      <4>1. CASE g = h /\ u = t
        BY <1>2, <1>3, <1>4, <1>6, <4>1 DEF Reserved
      <4>2. CASE g # h \/ u # t
        BY <1>1, <1>4, <1>6, <4>2 DEF WorkerInv, JournalsReserve
      <4> QED
        BY <4>1, <4>2
    <3> QED
        BY <1>1, <1>2, <1>3, <1>5, <1>6, <3>1 DEF WorkerInv, Signed, JournalsSign
  <2>2. ClaimsAreSigned' /\ ClaimsApart'
    BY <1>1, <1>3, <1>4, <1>5, <1>6 DEF WorkerInv, Signed, ClaimsAreSigned, ClaimsApart
  <2>3. ReceiptsClaimed' /\ DoneIsConfirmed'
    BY <1>1, <1>2, <1>3, <1>5, <1>6 DEF WorkerInv, ReceiptsClaimed, DoneIsConfirmed
  <2>4. SentIsClaimed'
    <3> SUFFICES ASSUME NEW x \in sent
                 PROVE claim[x.trade].tx = x /\ journal'[intent'[x.trade].op][x.trade].step \in Started
        BY <1>5 DEF SentIsClaimed
    <3>1. x \in Txs /\ x.trade \in Trades /\ x # NoTx
        BY <1>1 DEF TypeOK, CheckoutsTyped, Txs
    <3>2. claim[x.trade].tx = x /\ journal[intent[x.trade].op][x.trade].step \in Started
        BY <1>1 DEF WorkerInv, SentIsClaimed
    <3>3. x.trade # t /\ intent[x.trade].op \in Hosts
        BY <1>1, <1>5, <3>1, <3>2 DEF WorkerInv, ClaimsAreSigned
    <3> QED
        BY <1>4, <1>6, <3>1, <3>2, <3>3
  <2>5. PassesKnow'
    BY <1>1, <1>2, <1>3, <1>5, <1>6 DEF WorkerInv, PassesKnow, PassKnows, TypeOK, WorkerTyped, Idle
  <2> QED
    BY <2>1, <2>2, <2>3, <2>4, <2>5 DEF WorkerInv
<1> QED
    BY <1>1, <1>5, <1>7, <1>8 DEF IInv

\* Signing, marking and closing write the journal and nothing else.
LEMMA JournalStep ==
    ASSUME IInv, unattended, NEW h \in Hosts, Sign(h) \/ MarkStarted(h) \/ SaveDone(h),
           UNCHANGED <<Browser, unattended>>
    PROVE IInv'
<1> USE DEF Rows, Chain, Browser
<1>1. TypeOK /\ WorkerInv /\ ~ At(h, "idle")
    BY DEF IInv, Sign, MarkStarted, SaveDone, At
<1>2. PICK t \in Trades : t = run[h].trade /\ journal[h][t] = Notes(h) /\ Notes(h) \in Journals
    BY <1>1, PassIsTyped DEF Notes
<1>3. UNCHANGED <<trade, intent, claim, deletes, sent, mined, walletFile>>
    BY DEF Sign, MarkStarted, SaveDone
<1>4. PICK note \in Journals, pc \in {"claim", "final", "idle"} :
        /\ Writes(h, note) /\ Goes(h, pc)
        /\ note.id = Notes(h).id
        /\ \/ Notes(h).step = "intended" /\ note.step = "signed" /\ note.tx \in Txs /\ note.tx.trade = t /\ pc = "claim"
           \/ note.tx = Notes(h).tx /\ Notes(h).step \in {"signed", "started"} /\ claim[t].tx = note.tx
              /\ \/ note.step = "started" /\ pc = "final"
                 \/ note.step = "done" /\ pc = "idle" /\ claim[t].confirmed
  <2>1. CASE Sign(h)
    <3>1. PICK n \in Nonces : Writes(h, [Notes(h) EXCEPT !.step = "signed", !.tx = [trade |-> run[h].trade, nonce |-> n]])
        BY <2>1 DEF Sign
    <3>2. [Notes(h) EXCEPT !.step = "signed", !.tx = [trade |-> run[h].trade, nonce |-> n]] \in Journals
        BY <1>2 DEF Journals, JournalSteps, Txs
    <3> QED
        BY <1>1, <1>2, <2>1, <3>1, <3>2 DEF Sign, At, WorkerInv, PassesKnow, PassKnows, Journals, Txs
  <2>2. CASE MarkStarted(h)
    <3>1. [Notes(h) EXCEPT !.step = "started"] \in Journals
        BY <1>2 DEF Journals, JournalSteps
    <3> QED
        BY <1>1, <1>2, <2>2, <3>1 DEF MarkStarted, At, WorkerInv, PassesKnow, PassKnows, Journals
  <2>3. CASE SaveDone(h)
    <3>1. [Notes(h) EXCEPT !.step = "done"] \in Journals
        BY <1>2 DEF Journals, JournalSteps
    <3> QED
        BY <1>1, <1>2, <2>3, <3>1 DEF SaveDone, At, WorkerInv, PassesKnow, PassKnows, Journals
  <2> QED
    BY <2>1, <2>2, <2>3
<1>5. /\ journal' \in [Hosts -> [Trades -> Journals]]
      /\ journal'[h][t] = note
      /\ \A g \in Hosts, u \in Trades : g # h \/ u # t => journal'[g][u] = journal[g][u]
  <2>1. journal' = [journal EXCEPT ![h][t] = note]
    BY <1>2, <1>4 DEF Writes
  <2>2. journal \in [Hosts -> [Trades -> Journals]]
    BY <1>1 DEF TypeOK, WorkerTyped, Journals
  <2> QED
    BY <2>1, <2>2
<1>6. /\ run' \in [Hosts -> Passes]
      /\ run'[h].pc = pc /\ (pc # "idle" => run'[h].trade = t)
      /\ \A g \in Hosts \ {h} : run'[g] = run[g]
    BY <1>1, <1>2, <1>4, Moved
<1>7. TypeOK'
    BY <1>1, <1>3, <1>5, <1>6 DEF TypeOK, CheckoutsTyped, WorkerTyped, BrowserTyped, Journals, Passes
<1>8. WorkerInv'
  <2>1. deletes' = {} /\ (JournalsReserve /\ JournalsSign)'
    <3>1. Notes(h).step \in Reserved /\ note.tx \in Txs /\ note.tx.trade = t
        BY <1>1, <1>2, <1>4 DEF WorkerInv, JournalsSign, Reserved, Signed
    <3>2. intent[t].live /\ intent[t].op = h /\ intent[t].id = note.id
        BY <1>1, <1>2, <1>4, <3>1 DEF WorkerInv, JournalsReserve
    <3>3. JournalsReserve'
        BY <1>1, <1>3, <1>5, <3>2 DEF WorkerInv, JournalsReserve
    <3>4. JournalsSign'
        BY <1>1, <1>5, <3>1 DEF WorkerInv, JournalsSign
    <3> QED
        BY <1>1, <1>3, <3>3, <3>4 DEF WorkerInv
  <2>2. ClaimsAreSigned' /\ ClaimsApart'
    BY <1>1, <1>2, <1>3, <1>4, <1>5 DEF WorkerInv, Signed, ClaimsAreSigned, ClaimsApart
  <2>3. ReceiptsClaimed' /\ DoneIsConfirmed'
    BY <1>1, <1>2, <1>3, <1>4, <1>5 DEF WorkerInv, ReceiptsClaimed, DoneIsConfirmed
  <2>4. SentIsClaimed'
    <3> SUFFICES ASSUME NEW x \in sent
                 PROVE claim[x.trade].tx = x /\ journal'[intent[x.trade].op][x.trade].step \in Started
        BY <1>3 DEF SentIsClaimed
    <3>1. x \in Txs /\ x.trade \in Trades /\ x # NoTx
        BY <1>1 DEF TypeOK, CheckoutsTyped, Txs
    <3>2. claim[x.trade].tx = x /\ journal[intent[x.trade].op][x.trade].step \in Started
        BY <1>1 DEF WorkerInv, SentIsClaimed
    <3>3. intent[x.trade].op \in Hosts
        BY <1>1, <3>1, <3>2 DEF WorkerInv, ClaimsAreSigned
    <3> QED
        BY <1>2, <1>4, <1>5, <3>1, <3>2, <3>3 DEF Started
  <2>5. PassesKnow'
    <3>1. PassKnows(h)'
        BY <1>3, <1>4, <1>5, <1>6 DEF PassKnows
    <3>2. ASSUME NEW g \in Hosts \ {h} PROVE PassKnows(g)'
      <4>1. run'[g] = run[g] /\ (run[g].pc # "idle" => journal'[g][run[g].trade] = journal[g][run[g].trade])
        BY <1>1, <1>5, <1>6 DEF TypeOK, WorkerTyped, Idle
      <4> QED
        BY <1>1, <1>3, <4>1 DEF WorkerInv, PassesKnow, PassKnows, PassKnows
    <3> QED
        BY <3>1, <3>2 DEF PassesKnow
  <2> QED
    BY <2>1, <2>2, <2>3, <2>4, <2>5 DEF WorkerInv
<1> QED
    BY <1>1, <1>3, <1>7, <1>8 DEF IInv

LEMMA AskStep ==
    ASSUME IInv, unattended, NEW h \in Hosts, Claim(h) \/ FinalClaim(h), UNCHANGED <<Browser, unattended>>
    PROVE IInv'
<1> USE DEF Rows, Chain, Browser
<1>1. TypeOK /\ WorkerInv /\ run[h].pc \in {"claim", "final"} /\ ~ At(h, "idle")
    BY DEF IInv, Claim, FinalClaim, Ask, At
<1>2. PICK t \in Trades : t = run[h].trade /\ journal[h][t] = Notes(h) /\ Notes(h) \in Journals
    BY <1>1, PassIsTyped DEF Notes
<1>3. PICK tx \in Txs : tx = Notes(h).tx /\ tx.trade = t
    BY <1>1, <1>2 DEF WorkerInv, PassesKnow, PassKnows, JournalsSign, Signed
<1>4. UNCHANGED <<trade, journal, deletes, sent, mined, walletFile>>
    BY DEF Claim, FinalClaim, Ask, GrantClaim, AllowAgain, RecoverOnly
<1>5. PICK pc \in {"mark", "broadcast", "held"} :
        /\ Goes(h, pc)
        /\ pc = "broadcast" => run[h].pc = "final"
        /\ \/ GrantClaim(t, Notes(h).id, h, tx)
           \/ UNCHANGED <<intent, claim>> /\ claim[t].tx = tx
    BY <1>2, <1>3 DEF Claim, FinalClaim, Ask, At, AllowAgain, RecoverOnly
<1>6. /\ run' \in [Hosts -> Passes]
      /\ run'[h].pc = pc /\ run'[h].trade = t
      /\ \A g \in Hosts \ {h} : run'[g] = run[g]
    BY <1>1, <1>2, <1>5, Moved
<1>7. Notes(h).step \in {"signed", "started"} /\ (pc = "broadcast" => Notes(h).step = "started")
    BY <1>1, <1>5 DEF WorkerInv, PassesKnow, PassKnows, Notes
<1>8. CheckoutsTyped' /\ WorkerInv'
  <2>1. CASE UNCHANGED <<intent, claim>> /\ claim[t].tx = tx
    <3>1. CheckoutsTyped'
        BY <1>1, <1>4, <2>1 DEF TypeOK, CheckoutsTyped
    <3>2. PassKnows(h)'
        BY <1>2, <1>3, <1>4, <1>6, <1>7, <2>1 DEF PassKnows
    <3>3. ASSUME NEW g \in Hosts \ {h} PROVE PassKnows(g)'
        BY <1>1, <1>4, <1>6, <2>1 DEF PassKnows, PassesKnow, WorkerInv
    <3> QED
        BY <1>1, <1>4, <2>1, <3>1, <3>2, <3>3 DEF WorkerInv, JournalsReserve, JournalsSign, ClaimsAreSigned,
            ClaimsApart, ReceiptsClaimed, SentIsClaimed, PassesKnow, DoneIsConfirmed
  <2>2. CASE GrantClaim(t, Notes(h).id, h, tx)
    <3>1. /\ claim[t].tx = NoTx /\ intent[t].live /\ intent[t].op = h /\ WalletFree(t, tx.nonce)
          /\ claim' = [claim EXCEPT ![t].tx = tx] /\ intent' = [intent EXCEPT ![t].tx = tx]
        BY <2>2 DEF GrantClaim, ClaimFits
    <3>2. /\ claim' \in [Trades -> [tx : Txs \cup {NoTx}, confirmed : BOOLEAN]]
          /\ claim'[t].tx = tx /\ claim'[t].confirmed = claim[t].confirmed
          /\ \A u \in Trades \ {t} : claim'[u] = claim[u]
        BY <1>1, <3>1, ClaimedRow DEF TypeOK, CheckoutsTyped
    <3>3. /\ intent' \in [Trades -> [id : 0 .. MaxIntents, live : BOOLEAN, op : Hosts \cup {NoOp}, tx : Txs \cup {NoTx}]]
          /\ intent'[t].live = intent[t].live /\ intent'[t].op = intent[t].op /\ intent'[t].id = intent[t].id
          /\ intent'[t].tx = tx
          /\ \A u \in Trades \ {t} : intent'[u] = intent[u]
        BY <1>1, <3>1, AttachedRow DEF TypeOK, CheckoutsTyped
    <3>4. ~ claim[t].confirmed /\ trade[t].receipt = NoTx
        BY <1>1, <1>2, <3>1 DEF WorkerInv, ReceiptsClaimed, TypeOK, CheckoutsTyped
    <3>5. (JournalsReserve /\ JournalsSign /\ ClaimsAreSigned)'
      <4>1. JournalsReserve' /\ JournalsSign'
        BY <1>1, <1>4, <3>3 DEF WorkerInv, JournalsReserve, JournalsSign
      <4>2. intent'[t].op \in Hosts /\ journal'[intent'[t].op][t].step \in Signed
            /\ journal'[intent'[t].op][t].tx = claim'[t].tx
        <5>1. intent'[t].op = h /\ claim'[t].tx = tx
            BY <3>1, <3>2, <3>3
        <5>2. journal'[h][t] = Notes(h)
            BY <1>2, <1>4
        <5> QED
            BY <1>3, <1>7, <5>1, <5>2 DEF Signed
      <4>3. ClaimsAreSigned
        BY <1>1 DEF WorkerInv
      <4>4. ClaimsAreSigned'
        BY <1>4, <3>2, <3>3, <4>2, <4>3 DEF ClaimsAreSigned
      <4> QED
        BY <4>1, <4>4
    <3>6. ClaimsApart'
        BY <1>1, <3>1, <3>2, <3>3 DEF WorkerInv, ClaimsApart, WalletFree
    <3>7. (ReceiptsClaimed /\ DoneIsConfirmed)'
      <4>1. ReceiptsClaimed /\ DoneIsConfirmed
        BY <1>1 DEF WorkerInv
      <4>2. ReceiptsClaimed'
        BY <1>4, <3>2, <3>4, <4>1 DEF ReceiptsClaimed
      <4>3. DoneIsConfirmed'
        BY <1>4, <3>2, <3>4, <4>1 DEF DoneIsConfirmed
      <4> QED
        BY <4>2, <4>3
    <3>8. SentIsClaimed'
        BY <1>1, <1>4, <3>1, <3>2, <3>3 DEF WorkerInv, SentIsClaimed, TypeOK, CheckoutsTyped, Txs
    <3>9. PassKnows(h)'
        BY <1>2, <1>3, <1>4, <1>6, <1>7, <3>2, <3>3 DEF PassKnows
    <3>10. ASSUME NEW g \in Hosts \ {h} PROVE PassKnows(g)'
        BY <1>1, <1>4, <1>6, <3>1, <3>2, <3>3 DEF PassKnows, PassesKnow, WorkerInv, TypeOK, WorkerTyped, Idle, JournalsSign, Signed
    <3>11. CheckoutsTyped'
        BY <1>1, <1>4, <3>1, <3>2, <3>3 DEF TypeOK, CheckoutsTyped
    <3> QED
        BY <1>1, <1>4, <3>11, <3>5, <3>6, <3>7, <3>8, <3>9, <3>10 DEF WorkerInv, PassesKnow
  <2> QED
    BY <1>5, <2>1, <2>2
<1>9. TypeOK'
    BY <1>1, <1>4, <1>6, <1>8 DEF TypeOK, WorkerTyped, BrowserTyped, Passes
<1> QED
    BY <1>1, <1>4, <1>8, <1>9 DEF IInv

LEMMA BroadcastStep ==
    ASSUME IInv, unattended, NEW h \in Hosts, Broadcast(h), UNCHANGED <<Browser, unattended>>
    PROVE IInv'
<1> USE DEF Rows, Chain, Browser
<1>1. TypeOK /\ WorkerInv /\ run[h].pc = "broadcast" /\ ~ At(h, "idle")
    BY DEF IInv, Broadcast, At
<1>2. PICK t \in Trades : t = run[h].trade /\ journal[h][t] = Notes(h) /\ Notes(h) \in Journals
    BY <1>1, PassIsTyped DEF Notes
<1>3. /\ Notes(h).step = "started" /\ claim[t].tx = Notes(h).tx
      /\ Notes(h).tx \in Txs /\ Notes(h).tx.trade = t /\ intent[t].op = h
    BY <1>1, <1>2 DEF WorkerInv, PassesKnow, PassKnows, JournalsSign, JournalsReserve, Signed, Reserved
<1>4. UNCHANGED <<trade, intent, claim, journal, deletes, mined, walletFile>> /\ Goes(h, "held")
      /\ sent' = sent \cup {Notes(h).tx}
    BY DEF Broadcast
<1>5. /\ run' \in [Hosts -> Passes]
      /\ run'[h].pc = "held" /\ run'[h].trade = t
      /\ \A g \in Hosts \ {h} : run'[g] = run[g]
    BY <1>1, <1>2, <1>4, Moved
<1>6. TypeOK'
    BY <1>1, <1>3, <1>4, <1>5 DEF TypeOK, CheckoutsTyped, WorkerTyped, BrowserTyped, Passes
<1>7. IsFiniteSet(sent)'
    BY <1>4, FS_AddElement DEF IInv
<1>8. WorkerInv'
  <2>1. SentIsClaimed'
    BY <1>1, <1>2, <1>3, <1>4 DEF WorkerInv, SentIsClaimed, Started
  <2>2. PassKnows(h)'
    BY <1>2, <1>3, <1>4, <1>5 DEF PassKnows
  <2>3. ASSUME NEW g \in Hosts \ {h} PROVE PassKnows(g)'
    BY <1>1, <1>4, <1>5 DEF PassKnows, PassesKnow, WorkerInv
  <2> QED
    BY <1>1, <1>4, <2>1, <2>2, <2>3 DEF WorkerInv, JournalsReserve, JournalsSign, ClaimsAreSigned,
        ClaimsApart, ReceiptsClaimed, PassesKnow, DoneIsConfirmed
<1> QED
    BY <1>1, <1>6, <1>7, <1>8 DEF IInv

LEMMA PostProofStep ==
    ASSUME IInv, unattended, NEW h \in Hosts, PostProof(h), UNCHANGED <<Browser, unattended>>
    PROVE IInv'
<1> USE DEF Rows, Chain, Browser
<1>1. TypeOK /\ WorkerInv /\ run[h].pc \in {"recover", "held"} /\ ~ At(h, "idle")
    BY DEF IInv, PostProof, At
<1>2. PICK t \in Trades : t = run[h].trade /\ journal[h][t] = Notes(h) /\ Notes(h) \in Journals
    BY <1>1, PassIsTyped DEF Notes
<1>3. Notes(h).step \in {"signed", "started"}
    BY <1>1 DEF WorkerInv, PassesKnow, PassKnows, Notes
<1>4. PICK tx \in Txs : tx = Notes(h).tx /\ tx.trade = t /\ intent[t].op = h
    BY <1>1, <1>2, <1>3 DEF WorkerInv, JournalsSign, JournalsReserve, Signed, Reserved
<1>5. UNCHANGED <<journal, deletes, sent, mined, walletFile>>
    BY DEF PostProof
<1>6. PICK pc \in {"save", "claim", "idle"} :
        /\ Goes(h, pc)
        /\ \/ RecordPayment(t, Notes(h).id, tx)
           \/ SaveProof(t, Notes(h).id, tx)
           \/ UNCHANGED Rows
    BY <1>2, <1>4 DEF PostProof
<1>7. /\ run' \in [Hosts -> Passes]
      /\ run'[h].pc = pc /\ (pc # "idle" => run'[h].trade = t)
      /\ \A g \in Hosts \ {h} : run'[g] = run[g]
    BY <1>1, <1>2, <1>6, Moved
<1>8. \/ UNCHANGED Rows
      \/ /\ claim[t].tx = tx /\ intent[t].live
         /\ \A u \in Trades : claim'[u].tx = claim[u].tx /\ (claim[u].confirmed => claim'[u].confirmed)
         /\ \A u \in Trades : intent'[u].live = intent[u].live /\ intent'[u].op = intent[u].op /\ intent'[u].id = intent[u].id
         /\ \A u \in Trades \ {t} : trade'[u] = trade[u] /\ claim'[u] = claim[u]
         /\ (trade'[t].receipt = tx /\ claim'[t].confirmed) \/ (trade'[t] = trade[t] /\ claim'[t] = claim[t])
         /\ CheckoutsTyped'
  <2>1. ASSUME ProofFits(t, Notes(h).id, tx) PROVE claim[t].tx = tx /\ intent[t].live
    BY <1>4, <2>1 DEF ProofFits
  <2>2. CASE SaveProof(t, Notes(h).id, tx)
    BY <1>1, <1>4, <1>5, <2>1, <2>2 DEF SaveProof, Attached, TypeOK, CheckoutsTyped
  <2>3. CASE RecordPayment(t, Notes(h).id, tx)
    <3>1. claim[t].tx = tx /\ intent[t].live
        BY <2>1, <2>3 DEF RecordPayment
    <3>2. intent' = [intent EXCEPT ![t].tx = tx]
        BY <2>3 DEF RecordPayment, Attached
    <3>3. PICK st \in {"held", "cancelled"} : trade' = [trade EXCEPT ![t].status = st, ![t].receipt = tx]
        BY <1>1, <2>3 DEF RecordPayment, Verdicts, TypeOK, CheckoutsTyped, Gates
    <3>4. /\ claim' \in [Trades -> [tx : Txs \cup {NoTx}, confirmed : BOOLEAN]]
          /\ claim'[t].tx = tx /\ claim'[t].confirmed
          /\ \A u \in Trades \ {t} : claim'[u] = claim[u]
      <4> DEFINE row == [claim[t] EXCEPT !.confirmed = @ \/ claim[t].tx = tx]
      <4>1. claim \in [Trades -> [tx : Txs \cup {NoTx}, confirmed : BOOLEAN]]
        BY <1>1 DEF TypeOK, CheckoutsTyped
      <4>2. row \in [tx : Txs \cup {NoTx}, confirmed : BOOLEAN] /\ row.tx = tx /\ row.confirmed
        BY <3>1, <4>1
      <4>3. claim' = [claim EXCEPT ![t] = row]
        BY <2>3 DEF RecordPayment
      <4> HIDE DEF row
      <4> QED
        BY <4>1, <4>2, <4>3
    <3>5. /\ \A u \in Trades : intent'[u].live = intent[u].live /\ intent'[u].op = intent[u].op /\ intent'[u].id = intent[u].id
          /\ \A u \in Trades \ {t} : trade'[u] = trade[u] /\ intent'[u] = intent[u]
          /\ trade'[t].receipt = tx /\ intent'[t].tx = tx
          /\ trade' \in [Trades -> [status : {"pending", "held", "cancelled"}, gate : Gates, receipt : Txs \cup {NoTx}]]
          /\ intent' \in [Trades -> [id : 0 .. MaxIntents, live : BOOLEAN, op : Hosts \cup {NoOp}, tx : Txs \cup {NoTx}]]
      <4>1. /\ trade \in [Trades -> [status : {"pending", "held", "cancelled"}, gate : Gates, receipt : Txs \cup {NoTx}]]
            /\ intent \in [Trades -> [id : 0 .. MaxIntents, live : BOOLEAN, op : Hosts \cup {NoOp}, tx : Txs \cup {NoTx}]]
        BY <1>1 DEF TypeOK, CheckoutsTyped
      <4>2. /\ trade' \in [Trades -> [status : {"pending", "held", "cancelled"}, gate : Gates, receipt : Txs \cup {NoTx}]]
            /\ trade'[t].receipt = tx /\ \A u \in Trades \ {t} : trade'[u] = trade[u]
        BY <3>3, <4>1, PaidRow
      <4>3. /\ intent' \in [Trades -> [id : 0 .. MaxIntents, live : BOOLEAN, op : Hosts \cup {NoOp}, tx : Txs \cup {NoTx}]]
            /\ \A u \in Trades : intent'[u].live = intent[u].live /\ intent'[u].op = intent[u].op /\ intent'[u].id = intent[u].id
            /\ intent'[t].tx = tx /\ \A u \in Trades \ {t} : intent'[u] = intent[u]
        BY <3>2, <4>1, AttachedRow
      <4> QED
        BY <4>2, <4>3
    <3>6. CheckoutsTyped'
      <4>1. \A u \in Trades : claim[u].tx # NoTx => intent[u].live /\ intent[u].tx = claim[u].tx
        BY <1>1 DEF TypeOK, CheckoutsTyped
      <4>2. ASSUME NEW u \in Trades, claim'[u].tx # NoTx
            PROVE  intent'[u].live /\ intent'[u].tx = claim'[u].tx
        <5>1. CASE u = t
            BY <3>1, <3>4, <3>5, <5>1
        <5>2. CASE u # t
            BY <3>4, <3>5, <4>1, <4>2, <5>2
        <5> QED
            BY <5>1, <5>2
      <4>3. /\ deletes' \subseteq [trade : Trades, id : 1 .. MaxIntents]
            /\ sent' \subseteq Txs /\ mined' \subseteq sent'
        BY <1>1, <1>5 DEF TypeOK, CheckoutsTyped
      <4> QED
        BY <3>4, <3>5, <4>2, <4>3 DEF CheckoutsTyped
    <3> QED
        BY <3>1, <3>4, <3>5, <3>6
  <2> QED
    BY <1>6, <2>2, <2>3
<1>9. TypeOK'
  <2>1. CheckoutsTyped'
    BY <1>1, <1>5, <1>8 DEF TypeOK, CheckoutsTyped
  <2> QED
    BY <1>1, <1>5, <1>7, <2>1 DEF TypeOK, WorkerTyped, BrowserTyped, Passes
<1>10. /\ UNCHANGED <<sent, mined, deletes, journal>>
       /\ \A u \in Trades : /\ claim'[u].tx = claim[u].tx
                            /\ claim[u].confirmed => claim'[u].confirmed
                            /\ intent'[u].live = intent[u].live /\ intent'[u].op = intent[u].op
                            /\ intent'[u].id = intent[u].id
    BY <1>5, <1>8
<1>11. WorkerInv'
  <2>1. (JournalsReserve /\ JournalsSign /\ ClaimsAreSigned /\ ClaimsApart)'
    BY <1>1, <1>10 DEF WorkerInv, JournalsReserve, JournalsSign, ClaimsAreSigned, ClaimsApart
  <2>2. ReceiptsClaimed'
    BY <1>1, <1>8 DEF WorkerInv, ReceiptsClaimed
  <2>3. SentIsClaimed' /\ DoneIsConfirmed'
    BY <1>1, <1>10 DEF WorkerInv, SentIsClaimed, DoneIsConfirmed, TypeOK, CheckoutsTyped, Txs
  <2>4. PassKnows(h)'
    BY <1>2, <1>3, <1>7, <1>10 DEF PassKnows
  <2>5. ASSUME NEW g \in Hosts \ {h} PROVE PassKnows(g)'
    BY <1>1, <1>7, <1>10 DEF PassKnows, PassesKnow, WorkerInv, TypeOK, WorkerTyped, Idle
  <2> QED
    BY <1>1, <1>10, <2>1, <2>2, <2>3, <2>4, <2>5 DEF WorkerInv, PassesKnow
<1> QED
    BY <1>1, <1>9, <1>10, <1>11 DEF IInv

LEMMA StopStep ==
    ASSUME IInv, unattended, NEW h \in Hosts, Stop(h), UNCHANGED <<Browser, unattended>>
    PROVE IInv'
<1> USE DEF Rows, Chain, Browser
<1>1. TypeOK /\ WorkerInv /\ UNCHANGED <<journal, walletFile, Rows, deletes, Chain>>
    BY DEF IInv, Stop
<1>2. /\ run' \in [Hosts -> Passes]
      /\ run'[h].pc = "idle"
      /\ \A g \in Hosts \ {h} : run'[g] = run[g]
    BY <1>1, Moved DEF Stop
<1>3. TypeOK'
    BY <1>1, <1>2 DEF TypeOK, CheckoutsTyped, WorkerTyped, BrowserTyped, Passes
<1>4. \A g \in Hosts : PassKnows(g)'
    BY <1>1, <1>2 DEF PassKnows, PassesKnow, WorkerInv
<1> QED
    BY <1>1, <1>3, <1>4 DEF IInv, WorkerInv, JournalsReserve, JournalsSign, ClaimsAreSigned,
        ClaimsApart, ReceiptsClaimed, SentIsClaimed, PassesKnow, DoneIsConfirmed

LEMMA WorkerPreserves == IInv /\ unattended /\ WorkerStep /\ UNCHANGED <<Browser, unattended>> => IInv'
BY BeginStep, RequestIntentStep, JournalStep, AskStep, BroadcastStep, PostProofStep, StopStep DEF WorkerStep

------------------------------------------------------------------------------
(* Time, the market and the chain: neither half's facts depend on the       *)
(* checkout's status and gate, and a late request deletes a reservation     *)
(* that no transfer uses.                                                   *)

LEMMA CheckoutsPreserve ==
    ASSUME IInv, CheckoutsStep, UNCHANGED <<Worker, Browser, unattended>>
    PROVE IInv'
<1> USE DEF Worker, Browser
<1>1. TypeOK
    BY DEF IInv
<1>2. CASE \E d \in deletes : LateDelete(d)
  <2>1. PICK d \in deletes : LateDelete(d)
    BY <1>2
  <2>2. PICK t \in Trades : t = d.trade /\ d.id \in 1 .. MaxIntents /\ d = [trade |-> t, id |-> d.id]
    BY <1>1 DEF TypeOK, CheckoutsTyped
  <2>3. /\ ~ unattended /\ BrowserInv
    BY <2>1 DEF IInv, WorkerInv
  <2>4. /\ intent[t].live /\ intent[t].id = d.id /\ intent[t].tx = NoTx
        /\ intent' = [intent EXCEPT ![t].live = FALSE]
        /\ UNCHANGED <<trade, claim, deletes, sent, mined>>
    BY <2>1, <2>2 DEF LateDelete, Releasable, Released
  <2>5. CheckoutsTyped'
    <3>1. intent' \in [Trades -> [id : 0 .. MaxIntents, live : BOOLEAN, op : Hosts \cup {NoOp}, tx : Txs \cup {NoTx}]]
      <4> DEFINE T == [Trades -> [id : 0 .. MaxIntents, live : BOOLEAN, op : Hosts \cup {NoOp}, tx : Txs \cup {NoTx}]]
      <4>1. intent \in T
        BY <1>1 DEF TypeOK, CheckoutsTyped
      <4> QED
        BY <2>4, <4>1
    <3>2. \A u \in Trades : claim'[u].tx # NoTx => intent'[u].live /\ intent'[u].tx = claim'[u].tx
        BY <1>1, <2>4 DEF TypeOK, CheckoutsTyped
    <3> QED
        BY <1>1, <2>4, <3>1, <3>2 DEF TypeOK, CheckoutsTyped
  <2>6. TypeOK'
    BY <1>1, <2>5 DEF TypeOK, WorkerTyped, BrowserTyped
  <2>7. /\ \A u \in Trades : intent'[u].id = intent[u].id /\ intent'[u].tx = intent[u].tx
        /\ \A u \in Trades \ {t} : intent'[u] = intent[u]
        /\ ~ Pinned(t) /\ \A u \in Trades : Pinned(u) => Pinned(u)'
    BY <1>1, <2>2, <2>4 DEF TypeOK, CheckoutsTyped, Pinned
  <2>8. BrowserInv'
    <3>1. HashesAreSent'
        BY <2>3, <2>4, <2>7 DEF BrowserInv, HashesAreSent, Was
    <3>2. (DeletesAreOld /\ ReleasesAreAsked /\ TabsAreOpen)'
        BY <1>1, <2>3, <2>4, <2>7 DEF BrowserInv, DeletesAreOld, ReleasesAreAsked, TabsAreOpen, TypeOK, CheckoutsTyped
    <3>3. PromptsAreAlone'
      <4>1. \A k \in Tabs : tab[k].pc = "wallet" => tab[k].trade \in Trades /\ Pinned(tab[k].trade)
        BY <2>3 DEF BrowserInv, PromptsAreAlone, PromptIsAlone, TabsAreOpen
      <4> QED
        BY <2>3, <2>4, <2>7, <4>1 DEF BrowserInv, PromptsAreAlone, PromptIsAlone
    <3>4. SentIsPinned'
        BY <1>1, <2>3, <2>4, <2>7 DEF BrowserInv, SentIsPinned, TypeOK, CheckoutsTyped, Txs
    <3> QED
        BY <2>3, <2>4, <3>1, <3>2, <3>3, <3>4 DEF BrowserInv
  <2> QED
    BY <2>3, <2>4, <2>6, <2>8 DEF IInv
<1>3. CASE \E tx \in sent : Mine(tx)
  <2>1. PICK tx \in sent : Mine(tx)
    BY <1>3
  <2>2. TypeOK'
    BY <1>1, <2>1 DEF Mine, TypeOK, CheckoutsTyped, WorkerTyped, BrowserTyped
  <2>3. WorkerInv => WorkerInv'
    BY <2>1 DEF Mine, WorkerInv, JournalsReserve, JournalsSign, ClaimsAreSigned, ClaimsApart, ReceiptsClaimed,
        SentIsClaimed, PassesKnow, PassKnows, DoneIsConfirmed
  <2>4. BrowserInv => BrowserInv'
    BY <2>1 DEF Mine, BrowserInv, HashesAreSent, Was, DeletesAreOld, ReleasesAreAsked, PromptsAreAlone, PromptIsAlone, Pinned,
        SentIsPinned, TabsAreOpen
  <2> QED
    BY <2>1, <2>2, <2>3, <2>4 DEF IInv, Mine
<1>4. CASE \E t \in Trades : DeadlinePasses(t) \/ Regate(t) \/ CancelCheckout(t)
  <2>1. PICK t \in Trades : DeadlinePasses(t) \/ Regate(t) \/ CancelCheckout(t)
    BY <1>4
  <2>2. UNCHANGED <<intent, claim, deletes, sent, mined>>
    BY <2>1 DEF DeadlinePasses, Regate, CancelCheckout
  <2>3. /\ trade' \in [Trades -> [status : {"pending", "held", "cancelled"}, gate : Gates, receipt : Txs \cup {NoTx}]]
        /\ \A u \in Trades : trade'[u].receipt = trade[u].receipt
    <3> DEFINE T == [Trades -> [status : {"pending", "held", "cancelled"}, gate : Gates, receipt : Txs \cup {NoTx}]]
    <3>1. trade \in T
        BY <1>1 DEF TypeOK, CheckoutsTyped
    <3>2. CASE \E gate \in Gates : trade' = [trade EXCEPT ![t].gate = gate]
        BY <3>1, <3>2
    <3>3. CASE trade' = [trade EXCEPT ![t].status = "cancelled"]
        BY <3>1, <3>3
    <3> QED
        BY <2>1, <3>2, <3>3 DEF DeadlinePasses, Regate, CancelCheckout, Gates
  <2>4. TypeOK'
    BY <1>1, <2>2, <2>3 DEF TypeOK, CheckoutsTyped, WorkerTyped, BrowserTyped
  <2>5. WorkerInv => WorkerInv'
    BY <2>2, <2>3 DEF WorkerInv, JournalsReserve, JournalsSign, ClaimsAreSigned, ClaimsApart, ReceiptsClaimed,
        SentIsClaimed, PassesKnow, PassKnows, DoneIsConfirmed
  <2>6. BrowserInv => BrowserInv'
    BY <2>2, <2>3 DEF BrowserInv, HashesAreSent, Was, DeletesAreOld, ReleasesAreAsked, PromptsAreAlone, PromptIsAlone, Pinned,
        SentIsPinned, TabsAreOpen
  <2> QED
    BY <2>2, <2>4, <2>5, <2>6 DEF IInv
<1> QED
    BY <1>2, <1>3, <1>4 DEF CheckoutsStep

------------------------------------------------------------------------------
(* Each step of a tab *)

TabSteps == {"idle", "reserve", "wallet", "release", "forget", "keep", "prove", "verify"}
Records == [id : 0 .. MaxIntents, tx : Txs \cup {NoTx}]
TabStates == [pc : TabSteps, trade : Trades \cup {NoTrade}, id : 0 .. MaxIntents, tx : Txs \cup {NoTx}, local : Records]

LEMMA Shown ==
    ASSUME TypeOK, NEW k \in Tabs, NEW pc \in TabSteps, NEW id \in 0 .. MaxIntents, NEW tx \in Txs \cup {NoTx},
           Shows(k, pc, id, tx)
    PROVE /\ tab' \in [Tabs -> TabStates]
          /\ tab'[k].pc = pc /\ tab'[k].id = id /\ tab'[k].tx = tx
          /\ tab'[k].trade = tab[k].trade /\ tab'[k].local = tab[k].local
          /\ \A j \in Tabs \ {k} : tab'[j] = tab[j]
<1>1. tab \in [Tabs -> TabStates]
    BY DEF TypeOK, BrowserTyped, TabStates, TabSteps, Records
<1> DEFINE now == [tab[k] EXCEPT !.pc = pc, !.id = id, !.tx = tx]
<1>2. now \in TabStates /\ now.pc = pc /\ now.id = id /\ now.tx = tx
      /\ now.trade = tab[k].trade /\ now.local = tab[k].local
    BY <1>1 DEF TabStates
<1>3. tab' = [tab EXCEPT ![k] = now]
    BY DEF Shows
<1> HIDE DEF now
<1>4. tab' \in [Tabs -> TabStates] /\ tab'[k] = now /\ \A j \in Tabs \ {k} : tab'[j] = tab[j]
    BY <1>1, <1>2, <1>3
<1> QED
    BY <1>2, <1>4

LEMMA TabIsTyped ==
    ASSUME TypeOK, BrowserInv, NEW k \in Tabs
    PROVE /\ tab[k] \in TabStates /\ tab[k].id \in 0 .. MaxIntents /\ tab[k].tx \in Txs \cup {NoTx}
          /\ tab[k].pc # "idle" => tab[k].trade \in Trades
BY DEF TypeOK, BrowserTyped, TabStates, TabSteps, Records, BrowserInv, TabsAreOpen

LEMMA IsClosed ==
    ASSUME TypeOK, NEW k \in Tabs, Closes(k)
    PROVE /\ tab' \in [Tabs -> TabStates]
          /\ tab'[k] = Closed
          /\ \A j \in Tabs \ {k} : tab'[j] = tab[j]
<1>1. Closed \in TabStates
    BY PaymentBounds DEF Closed, NoRecord, TabStates, TabSteps, Records
<1>2. tab \in [Tabs -> TabStates]
    BY DEF TypeOK, BrowserTyped, TabStates, TabSteps, Records
<1> QED
    BY <1>1, <1>2 DEF Closes

\* A tab that opens no prompt and asks for nothing keeps the invariant as
\* long as the hashes it writes are those of transfers for the checkout.
LEMMA TabMoves ==
    ASSUME TypeOK, BrowserInv, NEW k \in Tabs,
           \A j \in Tabs \ {k} : tab'[j] = tab[j],
           tab'[k].pc \notin {"wallet", "release"},
           tab'[k].pc # "idle" => tab'[k].trade \in Trades,
           Was(tab'[k].trade, tab'[k].tx), Was(tab'[k].trade, tab'[k].local.tx),
           UNCHANGED <<journal, claim, deletes, sent>>,
           \A t \in Trades : intent'[t].live = intent[t].live /\ intent'[t].id = intent[t].id,
           \A t \in Trades : Was(t, saved'[t].tx) /\ Was(t, intent'[t].tx) /\ Was(t, trade'[t].receipt)
    PROVE BrowserInv'
<1>1. HashesAreSent'
    BY DEF BrowserInv, HashesAreSent, Was
<1>2. (DeletesAreOld /\ ReleasesAreAsked /\ TabsAreOpen)'
    BY DEF BrowserInv, DeletesAreOld, ReleasesAreAsked, TabsAreOpen, TypeOK, CheckoutsTyped
<1>3. \A t \in Trades : Pinned(t)' <=> Pinned(t)
    BY DEF Pinned
<1>4. PromptsAreAlone'
    BY <1>3 DEF BrowserInv, PromptsAreAlone, PromptIsAlone, TabsAreOpen
<1>5. SentIsPinned'
    BY <1>3 DEF BrowserInv, SentIsPinned, TypeOK, CheckoutsTyped, Txs
<1> QED
    BY <1>1, <1>2, <1>4, <1>5 DEF BrowserInv

LEMMA QuietTabStep ==
    ASSUME IInv, ~ unattended, NEW k \in Tabs,
           (\E t \in Trades : OpenPage(k, t)) \/ Resume(k) \/ Forget(k) \/ KeepHash(k) \/ CloseTab(k),
           UNCHANGED <<Worker, unattended>>
    PROVE IInv'
<1> USE DEF Rows, Chain, Worker
<1>1. TypeOK /\ BrowserInv
    BY DEF IInv
<1>2. UNCHANGED <<Rows, deletes, Chain>>
    BY DEF OpenPage, Resume, Forget, KeepHash, CloseTab
<1>3. saved \in [Trades -> Records] /\ tab \in [Tabs -> TabStates] /\ tab[k] \in TabStates
    BY <1>1 DEF TypeOK, BrowserTyped, Records, TabStates, TabSteps
<1> DEFINE Quiet ==
        /\ saved' \in [Trades -> Records] /\ tab' \in [Tabs -> TabStates]
        /\ \A j \in Tabs \ {k} : tab'[j] = tab[j]
        /\ tab'[k].pc \notin {"wallet", "release"}
        /\ tab'[k].pc # "idle" => tab'[k].trade \in Trades
        /\ Was(tab'[k].trade, tab'[k].tx) /\ Was(tab'[k].trade, tab'[k].local.tx)
        /\ \A t \in Trades : Was(t, saved'[t].tx)
<1>4. /\ \A t \in Trades : Was(t, saved[t].tx) /\ Was(t, intent[t].tx) /\ Was(t, trade[t].receipt)
      /\ Was(tab[k].trade, tab[k].tx) /\ Was(tab[k].trade, tab[k].local.tx)
      /\ tab[k].pc # "idle" => tab[k].trade \in Trades
    BY <1>1 DEF BrowserInv, HashesAreSent, TabsAreOpen
<1>5. ASSUME NEW t \in Trades, OpenPage(k, t) PROVE Quiet
  <2> DEFINE now == [Closed EXCEPT !.pc = "reserve", !.trade = t, !.local = saved[t]]
  <2>1. now \in TabStates /\ now.pc = "reserve" /\ now.trade = t /\ now.tx = NoTx /\ now.local = saved[t]
    <3>1. Closed \in TabStates /\ Closed.tx = NoTx
        BY PaymentBounds DEF Closed, NoRecord, TabStates, TabSteps, Records
    <3>2. saved[t] \in Records
        BY <1>3
    <3> HIDE DEF Closed
    <3> QED
        BY <3>1, <3>2 DEF TabStates, TabSteps
  <2>2. tab' = [tab EXCEPT ![k] = now] /\ saved' = saved
    BY <1>5 DEF OpenPage
  <2> HIDE DEF now
  <2>3. tab' \in [Tabs -> TabStates] /\ tab'[k] = now /\ \A j \in Tabs \ {k} : tab'[j] = tab[j]
    BY <1>3, <2>1, <2>2
  <2> QED
    BY <1>3, <1>4, <2>1, <2>2, <2>3 DEF Was
<1>6. ASSUME Resume(k) PROVE Quiet
  <2>1. PICK tx \in Txs : Shows(k, "prove", intent[tab[k].trade].id, tx) /\ Was(tab[k].trade, tx)
    <3>1. InTab(k, "reserve") /\ tab[k].trade \in Trades
        BY <1>4, <1>6 DEF Resume, InTab
    <3>2. PICK here \in {NoTx, tab[k].local.tx}, copied \in {NoTx} \cup {x \in sent : x.trade = tab[k].trade} :
            LET known == {intent[tab[k].trade].tx, here} \ {NoTx}
                tx == IF known # {} THEN CHOOSE x \in known : TRUE ELSE copied
            IN tx # NoTx /\ Shows(k, "prove", intent[tab[k].trade].id, tx)
        BY <1>6 DEF Resume
    <3> DEFINE known == {intent[tab[k].trade].tx, here} \ {NoTx}
    <3> DEFINE tx == IF known # {} THEN CHOOSE x \in known : TRUE ELSE copied
    <3>3. tx \in known \cup {copied} /\ tx # NoTx
        BY <3>2
    <3>4. Was(tab[k].trade, tx)
        BY <1>4, <3>1, <3>2, <3>3 DEF Was
    <3>5. tx \in Txs
        BY <1>1, <3>3, <3>4 DEF Was, TypeOK, CheckoutsTyped
    <3> QED
        BY <3>2, <3>4, <3>5
  <2>2. intent[tab[k].trade].id \in 0 .. MaxIntents /\ tab[k].trade \in Trades /\ saved' = saved
    BY <1>1, <1>4, <1>6 DEF Resume, InTab, TypeOK, CheckoutsTyped
  <2>3. /\ tab' \in [Tabs -> TabStates]
        /\ tab'[k].pc = "prove" /\ tab'[k].tx = tx
        /\ tab'[k].trade = tab[k].trade /\ tab'[k].local = tab[k].local
        /\ \A j \in Tabs \ {k} : tab'[j] = tab[j]
    BY <1>1, <2>1, <2>2, Shown DEF TabSteps
  <2> QED
    BY <1>3, <1>4, <2>1, <2>2, <2>3 DEF Was
<1>7. ASSUME Forget(k) \/ CloseTab(k) PROVE Quiet
  <2>1. Closes(k) /\ tab[k].pc # "idle"
    BY <1>7 DEF Forget, CloseTab, InTab
  <2>2. tab' \in [Tabs -> TabStates] /\ tab'[k] = Closed /\ \A j \in Tabs \ {k} : tab'[j] = tab[j]
    BY <1>1, <2>1, IsClosed
  <2>3. saved' \in [Trades -> Records] /\ \A t \in Trades : Was(t, saved'[t].tx)
    <3>1. NoRecord \in Records /\ NoRecord.tx = NoTx
        BY PaymentBounds DEF NoRecord, Records
    <3> QED
        BY <1>3, <1>4, <1>7, <3>1 DEF Forget, CloseTab, Was
  <2>4. Closed.pc = "idle" /\ Closed.tx = NoTx /\ Closed.local.tx = NoTx
    BY DEF Closed, NoRecord
  <2> QED
    BY <2>2, <2>3, <2>4 DEF Was
<1>8. ASSUME KeepHash(k) PROVE Quiet
  <2>1. PICK pc \in {"prove", "verify"} : Shows(k, pc, tab[k].id, tab[k].tx)
    BY <1>8 DEF KeepHash, Turns
  <2>2. /\ tab' \in [Tabs -> TabStates]
        /\ tab'[k].pc = pc /\ tab'[k].tx = tab[k].tx
        /\ tab'[k].trade = tab[k].trade /\ tab'[k].local = tab[k].local
        /\ \A j \in Tabs \ {k} : tab'[j] = tab[j]
    BY <1>1, <2>1, Shown, TabIsTyped DEF TabSteps
  <2>3. tab[k].trade \in Trades
    BY <1>4, <1>8 DEF KeepHash
  <2>4. saved' \in [Trades -> Records] /\ \A t \in Trades : Was(t, saved'[t].tx)
    <3> DEFINE record == [id |-> tab[k].id, tx |-> tab[k].tx]
    <3>1. record \in Records /\ record.tx = tab[k].tx
        BY <1>1, TabIsTyped DEF Records
    <3>2. saved' = [saved EXCEPT ![tab[k].trade] = record]
        BY <1>8 DEF KeepHash, Persists
    <3> HIDE DEF record
    <3> QED
        BY <1>3, <1>4, <2>3, <3>1, <3>2
  <2> QED
    BY <1>4, <2>2, <2>3, <2>4 DEF Was
<1> HIDE DEF Quiet
<1>9. Quiet
    BY <1>5, <1>6, <1>7, <1>8
<1>10. TypeOK'
    BY <1>1, <1>2, <1>9 DEF Quiet, TypeOK, CheckoutsTyped, WorkerTyped, BrowserTyped, TabStates, TabSteps, Records
<1>11. BrowserInv'
    BY <1>1, <1>2, <1>4, <1>9, TabMoves DEF Quiet
<1> QED
    BY <1>2, <1>10, <1>11 DEF IInv

LEMMA VerifyStep ==
    ASSUME IInv, ~ unattended, NEW k \in Tabs, Verify(k), UNCHANGED <<Worker, unattended>>
    PROVE IInv'
<1> USE DEF Rows, Chain, Worker
<1>1. TypeOK /\ BrowserInv /\ tab[k].pc = "verify"
    BY DEF IInv, Verify, InTab
<1>2. PICK t \in Trades, tx \in Txs \cup {NoTx} : t = tab[k].trade /\ tx = tab[k].tx
    BY <1>1, TabIsTyped
<1>3. UNCHANGED <<saved, deletes, sent, mined>>
    BY DEF Verify
<1>4. /\ tab' \in [Tabs -> TabStates]
      /\ \A j \in Tabs \ {k} : tab'[j] = tab[j]
      /\ \/ tab'[k] = Closed
         \/ tab' = tab
  <2>1. CASE Closes(k)
    BY <1>1, <2>1, IsClosed
  <2>2. CASE UNCHANGED tab
    BY <1>1, <2>2 DEF TypeOK, BrowserTyped, TabStates, TabSteps, Records
  <2> QED
    BY <2>1, <2>2 DEF Verify
<1>5. /\ \A u \in Trades : Was(u, saved[u].tx) /\ Was(u, intent[u].tx) /\ Was(u, trade[u].receipt)
      /\ Was(t, tx) /\ Was(tab[k].trade, tab[k].local.tx)
    BY <1>1, <1>2 DEF BrowserInv, HashesAreSent
<1>6. /\ CheckoutsTyped' /\ UNCHANGED claim
      /\ \A u \in Trades : intent'[u].live = intent[u].live /\ intent'[u].id = intent[u].id
      /\ \A u \in Trades : Was(u, intent'[u].tx) /\ Was(u, trade'[u].receipt)
  <2>1. /\ trade \in [Trades -> [status : {"pending", "held", "cancelled"}, gate : Gates, receipt : Txs \cup {NoTx}]]
        /\ intent \in [Trades -> [id : 0 .. MaxIntents, live : BOOLEAN, op : Hosts \cup {NoOp}, tx : Txs \cup {NoTx}]]
        /\ claim \in [Trades -> [tx : Txs \cup {NoTx}, confirmed : BOOLEAN]]
        /\ \A u \in Trades : claim[u].tx = NoTx
    BY <1>1 DEF TypeOK, CheckoutsTyped, BrowserInv
  <2>2. CASE UNCHANGED Rows
    BY <1>1, <1>3, <1>5, <2>2 DEF TypeOK, CheckoutsTyped
  <2>3. ASSUME intent' = [intent EXCEPT ![t].tx = tx]
        PROVE /\ intent' \in [Trades -> [id : 0 .. MaxIntents, live : BOOLEAN, op : Hosts \cup {NoOp}, tx : Txs \cup {NoTx}]]
              /\ \A u \in Trades : intent'[u].live = intent[u].live /\ intent'[u].id = intent[u].id
              /\ \A u \in Trades : Was(u, intent'[u].tx)
    BY <1>5, <2>1, <2>3, AttachedRow
  <2>4. CASE SaveProof(t, tab[k].id, tx)
    <3>1. intent' = [intent EXCEPT ![t].tx = tx] /\ UNCHANGED <<trade, claim>>
        BY <2>4 DEF SaveProof, Attached
    <3>2. /\ intent' \in [Trades -> [id : 0 .. MaxIntents, live : BOOLEAN, op : Hosts \cup {NoOp}, tx : Txs \cup {NoTx}]]
          /\ \A u \in Trades : intent'[u].live = intent[u].live /\ intent'[u].id = intent[u].id
          /\ \A u \in Trades : Was(u, intent'[u].tx)
        BY <2>3, <3>1
    <3> QED
        BY <1>1, <1>3, <1>5, <2>1, <3>1, <3>2 DEF TypeOK, CheckoutsTyped
  <2>5. CASE RecordPayment(t, tab[k].id, tx)
    <3>1. PICK st \in {"held", "cancelled"} : trade' = [trade EXCEPT ![t].status = st, ![t].receipt = tx]
        BY <2>1, <2>5 DEF RecordPayment, Verdicts, Gates
    <3>3. /\ trade' \in [Trades -> [status : {"pending", "held", "cancelled"}, gate : Gates, receipt : Txs \cup {NoTx}]]
          /\ \A u \in Trades : Was(u, trade'[u].receipt)
        BY <1>5, <2>1, <3>1, PaidRow
    <3>4. tx # NoTx
        BY <1>1, <2>5 DEF RecordPayment, TypeOK, CheckoutsTyped
    <3>5. claim' = [claim EXCEPT ![t].confirmed = @ \/ claim[t].tx = tx]
        BY <2>5 DEF RecordPayment
    <3>6. claim' = claim
      <4>1. [claim[t] EXCEPT !.confirmed = @ \/ claim[t].tx = tx] = claim[t]
        BY <2>1, <3>4
      <4> QED
        BY <2>1, <3>5, <4>1
    <3>7. intent' = [intent EXCEPT ![t].tx = tx]
        BY <2>5 DEF RecordPayment, Attached
    <3> QED
        BY <1>1, <1>3, <2>1, <2>3, <3>3, <3>6, <3>7 DEF TypeOK, CheckoutsTyped
  <2> QED
    BY <1>2, <2>2, <2>4, <2>5 DEF Verify
<1>7. TypeOK'
    BY <1>1, <1>3, <1>4, <1>6 DEF TypeOK, WorkerTyped, BrowserTyped, TabStates, TabSteps, Records
<1>8. BrowserInv'
  <2>1. Closed.pc = "idle" /\ Closed.tx = NoTx /\ Closed.local.tx = NoTx
    BY DEF Closed, NoRecord
  <2>2. /\ tab'[k].pc \notin {"wallet", "release"}
        /\ tab'[k].pc # "idle" => tab'[k].trade \in Trades
        /\ Was(tab'[k].trade, tab'[k].tx) /\ Was(tab'[k].trade, tab'[k].local.tx)
    BY <1>1, <1>2, <1>4, <1>5, <2>1 DEF Was
  <2> QED
    BY <1>1, <1>3, <1>4, <1>5, <1>6, <2>2, TabMoves
<1> QED
    BY <1>3, <1>7, <1>8 DEF IInv

LEMMA ReserveStep ==
    ASSUME IInv, ~ unattended, NEW k \in Tabs, Reserve(k), UNCHANGED <<Worker, unattended>>
    PROVE IInv'
<1> USE DEF Rows, Chain, Worker
<1>1. TypeOK /\ BrowserInv /\ tab[k].pc = "reserve"
    BY DEF IInv, Reserve, InTab
<1>2. PICK t \in Trades : t = tab[k].trade
    BY <1>1, TabIsTyped
<1>3. UNCHANGED <<trade, claim, deletes, sent, mined>> /\ CreateIntent(t, NoOp)
    BY <1>2 DEF Reserve
<1>4. PICK id \in 1 .. MaxIntents : id = intent[t].id + 1
    BY <1>1, <1>3, PaymentBounds DEF CreateIntent, TypeOK, CheckoutsTyped
<1>5. /\ intent' \in [Trades -> [id : 0 .. MaxIntents, live : BOOLEAN, op : Hosts \cup {NoOp}, tx : Txs \cup {NoTx}]]
      /\ intent'[t].id = id /\ intent'[t].live /\ intent'[t].tx = NoTx /\ ~ intent[t].live
      /\ \A u \in Trades \ {t} : intent'[u] = intent[u]
  <2> DEFINE T == [id : 0 .. MaxIntents, live : BOOLEAN, op : Hosts \cup {NoOp}, tx : Txs \cup {NoTx}]
  <2> DEFINE row == [id |-> id, live |-> TRUE, op |-> NoOp, tx |-> NoTx]
  <2>1. row \in T /\ row.id = id /\ row.live /\ row.tx = NoTx
    OBVIOUS
  <2>2. intent \in [Trades -> T]
    BY <1>1 DEF TypeOK, CheckoutsTyped
  <2>3. intent' = [intent EXCEPT ![t] = row] /\ ~ intent[t].live
    BY <1>3, <1>4 DEF CreateIntent
  <2> HIDE DEF row
  <2> QED
    BY <2>1, <2>2, <2>3
<1>6. Shows(k, "wallet", id, NoTx) /\ saved' = [saved EXCEPT ![t] = [id |-> id, tx |-> NoTx]]
    BY <1>2, <1>5 DEF Reserve, Persists
<1>7. /\ tab' \in [Tabs -> TabStates]
      /\ tab'[k].pc = "wallet" /\ tab'[k].id = id /\ tab'[k].tx = NoTx
      /\ tab'[k].trade = t /\ tab'[k].local = tab[k].local
      /\ \A j \in Tabs \ {k} : tab'[j] = tab[j]
  <2>1. id \in 0 .. MaxIntents
    BY PaymentBounds
  <2> QED
    BY <1>1, <1>2, <1>6, <2>1, Shown DEF TabSteps
<1>8. /\ saved' \in [Trades -> Records]
      /\ saved'[t].tx = NoTx /\ \A u \in Trades \ {t} : saved'[u] = saved[u]
  <2>1. saved \in [Trades -> Records] /\ [id |-> id, tx |-> NoTx] \in Records
    BY <1>1, PaymentBounds DEF TypeOK, BrowserTyped, Records
  <2> QED
    BY <1>6, <2>1
<1>9. TypeOK'
  <2>1. CheckoutsTyped'
    BY <1>1, <1>3, <1>5 DEF TypeOK, CheckoutsTyped, BrowserInv
  <2> QED
    BY <1>1, <1>7, <1>8, <2>1 DEF TypeOK, WorkerTyped, BrowserTyped, TabStates, TabSteps, Records
<1>10. BrowserInv'
  <2>1. HashesAreSent'
    <3>1. \A u \in Trades : (Was(u, saved[u].tx) /\ Was(u, intent[u].tx) /\ Was(u, trade[u].receipt))'
        BY <1>1, <1>3, <1>5, <1>8 DEF BrowserInv, HashesAreSent, Was
    <3>2. \A j \in Tabs : (Was(tab[j].trade, tab[j].tx) /\ Was(tab[j].trade, tab[j].local.tx))'
        BY <1>1, <1>2, <1>3, <1>7 DEF BrowserInv, HashesAreSent, Was
    <3> QED
        BY <3>1, <3>2 DEF HashesAreSent
  <2>2. [trade |-> t, id |-> id] \notin deletes /\ DeletesAreOld'
    <3>1. \A d \in deletes : d.trade \in Trades /\ d.id \in 1 .. MaxIntents /\ d.id <= intent[d.trade].id
        BY <1>1 DEF BrowserInv, DeletesAreOld, TypeOK, CheckoutsTyped
    <3>2. intent[t].id \in 0 .. MaxIntents
        BY <1>1 DEF TypeOK, CheckoutsTyped
    <3>3. [trade |-> t, id |-> id] \notin deletes
        BY <1>4, <3>1, <3>2
    <3>4. \A d \in deletes : d.id <= intent'[d.trade].id
        BY <1>4, <1>5, <3>1, <3>2
    <3> QED
        BY <1>3, <3>3, <3>4 DEF DeletesAreOld
  <2>3. Pinned(t)' /\ ~ Pinned(t) /\ \A u \in Trades \ {t} : Pinned(u)' <=> Pinned(u)
    BY <1>3, <1>5, <2>2 DEF Pinned
  <2>4. (ReleasesAreAsked /\ TabsAreOpen)'
    BY <1>1, <1>3, <1>7 DEF BrowserInv, ReleasesAreAsked, TabsAreOpen
  <2>5. \A x \in sent : x.trade \in Trades \ {t} /\ Pinned(x.trade)
    BY <1>1, <2>3 DEF BrowserInv, SentIsPinned, TypeOK, CheckoutsTyped, Txs
  <2>6. \A j \in Tabs : tab[j].pc = "wallet" => tab[j].trade \in Trades \ {t}
    BY <1>1, <2>3 DEF BrowserInv, PromptsAreAlone, PromptIsAlone, TabsAreOpen
  <2>7. PromptsAreAlone'
    <3>1. PromptIsAlone(k)'
        BY <1>3, <1>4, <1>5, <1>7, <2>3, <2>5, <2>6 DEF PromptIsAlone, Pinned
    <3>2. ASSUME NEW j \in Tabs \ {k} PROVE PromptIsAlone(j)'
      <4>1. PromptIsAlone(j)
        BY <1>1 DEF BrowserInv, PromptsAreAlone
      <4> QED
        BY <1>3, <1>5, <1>7, <2>3, <2>6, <4>1 DEF PromptIsAlone, Pinned
    <3> QED
        BY <3>1, <3>2 DEF PromptsAreAlone
  <2>8. SentIsPinned'
    BY <1>1, <1>3, <2>3, <2>5 DEF BrowserInv, SentIsPinned
  <2> QED
    BY <1>1, <1>3, <2>1, <2>2, <2>4, <2>7, <2>8 DEF BrowserInv
<1> QED
    BY <1>3, <1>9, <1>10 DEF IInv

LEMMA WalletSendsStep ==
    ASSUME IInv, ~ unattended, NEW k \in Tabs, WalletSends(k), UNCHANGED <<Worker, unattended>>
    PROVE IInv'
<1> USE DEF Rows, Chain, Worker
<1>1. TypeOK /\ BrowserInv /\ tab[k].pc = "wallet" /\ IsFiniteSet(sent) /\ PromptIsAlone(k)
    BY DEF IInv, WalletSends, InTab, BrowserInv, PromptsAreAlone
<1>2. PICK t \in Trades : t = tab[k].trade
    BY <1>1, TabIsTyped
<1>3. Cardinality(sent) \in Nat
    BY <1>1, FS_CardinalityType
<1>4. PICK tx \in Txs :
        /\ tx = [trade |-> t, nonce |-> Cardinality(sent) + 1]
        /\ sent' = sent \cup {tx} /\ Shows(k, "keep", tab[k].id, tx)
    BY <1>2 DEF WalletSends, Txs
<1>5. UNCHANGED <<saved, trade, intent, claim, deletes, mined>>
    BY DEF WalletSends
<1>6. \A x \in sent : x.trade \in Trades \ {t} /\ x.nonce <= Cardinality(sent) /\ x.nonce \in Nat
    BY <1>1, <1>2 DEF PromptIsAlone, BrowserInv, SentIsPinned, TypeOK, CheckoutsTyped, Txs, Nonces
<1>7. tx \notin sent /\ IsFiniteSet(sent)' /\ Cardinality(sent') = Cardinality(sent) + 1
  <2>1. tx \notin sent
    BY <1>4, <1>6
  <2> QED
    BY <1>1, <1>4, <2>1, FS_AddElement
<1>8. /\ tab' \in [Tabs -> TabStates]
      /\ tab'[k].pc = "keep" /\ tab'[k].tx = tx
      /\ tab'[k].trade = t /\ tab'[k].local = tab[k].local
      /\ \A j \in Tabs \ {k} : tab'[j] = tab[j]
    BY <1>1, <1>2, <1>4, TabIsTyped, Shown DEF TabSteps
<1>9. TypeOK'
  <2>1. CheckoutsTyped'
    BY <1>1, <1>4, <1>5 DEF TypeOK, CheckoutsTyped
  <2> QED
    BY <1>1, <1>5, <1>8, <2>1 DEF TypeOK, WorkerTyped, BrowserTyped, TabStates, TabSteps, Records
<1>10. BrowserInv'
  <2>1. HashesAreSent'
    <3>1. \A u \in Trades : (Was(u, saved[u].tx) /\ Was(u, intent[u].tx) /\ Was(u, trade[u].receipt))'
        BY <1>1, <1>4, <1>5 DEF BrowserInv, HashesAreSent, Was
    <3>2. \A j \in Tabs : (Was(tab[j].trade, tab[j].tx) /\ Was(tab[j].trade, tab[j].local.tx))'
        BY <1>1, <1>2, <1>4, <1>8 DEF BrowserInv, HashesAreSent, Was
    <3> QED
        BY <3>1, <3>2 DEF HashesAreSent
  <2>2. (DeletesAreOld /\ ReleasesAreAsked /\ TabsAreOpen)'
    BY <1>1, <1>5, <1>8 DEF BrowserInv, DeletesAreOld, ReleasesAreAsked, TabsAreOpen
  <2>3. \A u \in Trades : Pinned(u)' <=> Pinned(u)
    BY <1>5 DEF Pinned
  <2>4. ASSUME NEW j \in Tabs \ {k} PROVE PromptIsAlone(j)'
    <3>1. PromptIsAlone(j)
        BY <1>1 DEF BrowserInv, PromptsAreAlone
    <3>2. tab[j].pc = "wallet" => tab[j].trade # t
        BY <1>1, <1>2 DEF PromptIsAlone
    <3> QED
        BY <1>4, <1>5, <1>8, <3>1, <3>2 DEF PromptIsAlone, Pinned
  <2>5. PromptIsAlone(k)'
    BY <1>8 DEF PromptIsAlone
  <2>6. SentIsPinned'
    <3>1. \A x \in sent' : Pinned(x.trade)'
        BY <1>1, <1>2, <1>4, <1>5 DEF BrowserInv, SentIsPinned, PromptIsAlone, Pinned
    <3>2. \A x, y \in sent' : x # y => x.trade # y.trade /\ x.nonce # y.nonce
        BY <1>1, <1>3, <1>4, <1>6 DEF BrowserInv, SentIsPinned
    <3>3. \A x \in sent' : x.nonce <= Cardinality(sent')
        BY <1>3, <1>4, <1>6, <1>7
    <3> QED
        BY <3>1, <3>2, <3>3 DEF SentIsPinned
  <2> QED
    BY <1>1, <1>5, <2>1, <2>2, <2>4, <2>5, <2>6 DEF BrowserInv, PromptsAreAlone
<1> QED
    BY <1>5, <1>7, <1>9, <1>10 DEF IInv, WalletSends

LEMMA WalletRejectsStep ==
    ASSUME IInv, ~ unattended, NEW k \in Tabs, WalletRejects(k), UNCHANGED <<Worker, unattended>>
    PROVE IInv'
<1> USE DEF Rows, Chain, Worker
<1>1. TypeOK /\ BrowserInv /\ tab[k].pc = "wallet" /\ PromptIsAlone(k)
    BY DEF IInv, WalletRejects, InTab, BrowserInv, PromptsAreAlone
<1>2. PICK t \in Trades, id \in 1 .. MaxIntents : t = tab[k].trade /\ id = tab[k].id
    BY <1>1, TabIsTyped, PaymentBounds DEF PromptIsAlone
<1>3. intent[t].live /\ intent[t].id = id /\ \A x \in sent : x.trade # t
    BY <1>1, <1>2 DEF PromptIsAlone, Pinned
<1>4. /\ deletes' = deletes \cup {[trade |-> t, id |-> id]}
      /\ Shows(k, "release", tab[k].id, tab[k].tx)
      /\ UNCHANGED <<saved, trade, intent, claim, sent, mined>>
    BY <1>2 DEF WalletRejects, Turns
<1>5. /\ tab' \in [Tabs -> TabStates]
      /\ tab'[k].pc = "release" /\ tab'[k].tx = tab[k].tx /\ tab'[k].id = id
      /\ tab'[k].trade = t /\ tab'[k].local = tab[k].local
      /\ \A j \in Tabs \ {k} : tab'[j] = tab[j]
    BY <1>1, <1>2, <1>4, TabIsTyped, Shown DEF TabSteps
<1>6. TypeOK'
  <2>1. CheckoutsTyped'
    BY <1>1, <1>4 DEF TypeOK, CheckoutsTyped
  <2> QED
    BY <1>1, <1>4, <1>5, <2>1 DEF TypeOK, WorkerTyped, BrowserTyped, TabStates, TabSteps, Records
<1>7. BrowserInv'
  <2>1. HashesAreSent'
    BY <1>1, <1>2, <1>4, <1>5 DEF BrowserInv, HashesAreSent, Was
  <2>2. DeletesAreOld'
    BY <1>1, <1>2, <1>3, <1>4, PaymentBounds DEF BrowserInv, DeletesAreOld, TypeOK, CheckoutsTyped
  <2>3. (ReleasesAreAsked /\ TabsAreOpen)'
    BY <1>1, <1>4, <1>5 DEF BrowserInv, ReleasesAreAsked, TabsAreOpen
  <2>4. \A u \in Trades \ {t} : Pinned(u) => Pinned(u)'
    BY <1>4 DEF Pinned
  <2>5. ASSUME NEW j \in Tabs \ {k} PROVE PromptIsAlone(j)'
    <3>1. PromptIsAlone(j) /\ (tab[j].pc = "wallet" => tab[j].trade \in Trades \ {t})
        BY <1>1, <1>2, TabIsTyped DEF BrowserInv, PromptsAreAlone, PromptIsAlone
    <3> QED
        BY <1>4, <1>5, <3>1 DEF PromptIsAlone, Pinned
  <2>6. PromptIsAlone(k)'
    BY <1>5 DEF PromptIsAlone
  <2>7. SentIsPinned'
    BY <1>1, <1>3, <1>4, <2>4 DEF BrowserInv, SentIsPinned, TypeOK, CheckoutsTyped, Txs
  <2> QED
    BY <1>1, <1>4, <2>1, <2>2, <2>3, <2>5, <2>6, <2>7 DEF BrowserInv, PromptsAreAlone
<1> QED
    BY <1>4, <1>6, <1>7 DEF IInv

LEMMA ReleaseStep ==
    ASSUME IInv, ~ unattended, NEW k \in Tabs, Release(k), UNCHANGED <<Worker, unattended>>
    PROVE IInv'
<1> USE DEF Rows, Chain, Worker
<1>1. TypeOK /\ BrowserInv /\ tab[k].pc = "release"
    BY DEF IInv, Release, InTab
<1>2. PICK t \in Trades, id \in 0 .. MaxIntents : t = tab[k].trade /\ id = tab[k].id
    BY <1>1, TabIsTyped
<1>3. UNCHANGED <<saved, trade, claim, deletes, sent, mined>> /\ [trade |-> t, id |-> id] \in deletes
    BY <1>1, <1>2 DEF Release, BrowserInv, ReleasesAreAsked
<1>4. CASE Releasable(t, id)
  <2>1. /\ intent[t].live /\ intent[t].id = id /\ intent[t].tx = NoTx
        /\ intent' = [intent EXCEPT ![t].live = FALSE]
        /\ Shows(k, "forget", tab[k].id, tab[k].tx)
    BY <1>2, <1>4 DEF Release, Releasable, Released, Turns
  <2>2. /\ tab' \in [Tabs -> TabStates]
        /\ tab'[k].pc = "forget" /\ tab'[k].tx = tab[k].tx
        /\ tab'[k].trade = t /\ tab'[k].local = tab[k].local
        /\ \A j \in Tabs \ {k} : tab'[j] = tab[j]
    BY <1>1, <1>2, <2>1, TabIsTyped, Shown DEF TabSteps
  <2>3. intent' \in [Trades -> [id : 0 .. MaxIntents, live : BOOLEAN, op : Hosts \cup {NoOp}, tx : Txs \cup {NoTx}]]
    <3> DEFINE T == [Trades -> [id : 0 .. MaxIntents, live : BOOLEAN, op : Hosts \cup {NoOp}, tx : Txs \cup {NoTx}]]
    <3>1. intent \in T
        BY <1>1 DEF TypeOK, CheckoutsTyped
    <3> QED
        BY <2>1, <3>1
  <2>4. /\ \A u \in Trades : intent'[u].id = intent[u].id /\ intent'[u].tx = intent[u].tx
        /\ \A u \in Trades \ {t} : intent'[u] = intent[u]
        /\ ~ Pinned(t) /\ \A u \in Trades : Pinned(u) => Pinned(u)'
    BY <1>1, <1>3, <2>1 DEF TypeOK, CheckoutsTyped, Pinned
  <2>5. TypeOK'
    <3>1. CheckoutsTyped'
        BY <1>1, <1>3, <2>3 DEF TypeOK, CheckoutsTyped, BrowserInv
    <3> QED
        BY <1>1, <1>3, <2>2, <3>1 DEF TypeOK, WorkerTyped, BrowserTyped, TabStates, TabSteps, Records
  <2>6. HashesAreSent'
    <3>1. \A u \in Trades : (Was(u, saved[u].tx) /\ Was(u, intent[u].tx) /\ Was(u, trade[u].receipt))'
        BY <1>1, <1>3, <2>4 DEF BrowserInv, HashesAreSent, Was
    <3>2. \A j \in Tabs : (Was(tab[j].trade, tab[j].tx) /\ Was(tab[j].trade, tab[j].local.tx))'
        BY <1>1, <1>2, <1>3, <2>2 DEF BrowserInv, HashesAreSent, Was
    <3> QED
        BY <3>1, <3>2 DEF HashesAreSent
  <2>7. (DeletesAreOld /\ ReleasesAreAsked /\ TabsAreOpen)'
    BY <1>1, <1>3, <2>2, <2>4 DEF BrowserInv, DeletesAreOld, ReleasesAreAsked, TabsAreOpen, TypeOK, CheckoutsTyped
  <2>8. ASSUME NEW j \in Tabs PROVE PromptIsAlone(j)'
    <3>1. PromptIsAlone(j) /\ (tab[j].pc = "wallet" => tab[j].trade \in Trades \ {t})
        BY <1>1, <2>4, TabIsTyped DEF BrowserInv, PromptsAreAlone, PromptIsAlone
    <3> QED
        BY <1>1, <1>3, <2>2, <2>4, <3>1 DEF PromptIsAlone, Pinned
  <2>9. SentIsPinned'
    BY <1>1, <1>3, <2>4 DEF BrowserInv, SentIsPinned, TypeOK, CheckoutsTyped, Txs
  <2>10. BrowserInv'
    BY <1>1, <1>3, <2>6, <2>7, <2>8, <2>9 DEF BrowserInv, PromptsAreAlone
  <2> QED
    BY <1>3, <2>5, <2>10 DEF IInv
<1>5. CASE ~ Releasable(t, id)
  <2>1. intent' = intent /\ Closes(k)
    BY <1>2, <1>5 DEF Release
  <2>2. tab' \in [Tabs -> TabStates] /\ tab'[k] = Closed /\ \A j \in Tabs \ {k} : tab'[j] = tab[j]
    BY <1>1, <2>1, IsClosed
  <2>3. TypeOK'
    BY <1>1, <1>3, <2>1, <2>2 DEF TypeOK, CheckoutsTyped, WorkerTyped, BrowserTyped, TabStates, TabSteps, Records
  <2>4. Closed.pc = "idle" /\ Closed.tx = NoTx /\ Closed.local.tx = NoTx
    BY DEF Closed, NoRecord
  <2>5. Was(tab'[k].trade, tab'[k].tx) /\ Was(tab'[k].trade, tab'[k].local.tx)
    BY <2>2, <2>4 DEF Was
  <2>6. \A u \in Trades : Was(u, saved'[u].tx) /\ Was(u, intent'[u].tx) /\ Was(u, trade'[u].receipt)
    BY <1>1, <1>3, <2>1 DEF BrowserInv, HashesAreSent
  <2>7. BrowserInv'
    BY <1>1, <1>3, <2>1, <2>2, <2>4, <2>5, <2>6, TabMoves
  <2> QED
    BY <1>3, <2>3, <2>7 DEF IInv
<1> QED
    BY <1>4, <1>5

LEMMA BrowserPreserves == IInv /\ ~ unattended /\ BrowserStep /\ UNCHANGED <<Worker, unattended>> => IInv'
BY QuietTabStep, ReserveStep, WalletSendsStep, WalletRejectsStep, ReleaseStep, VerifyStep DEF BrowserStep

------------------------------------------------------------------------------
(* The results *)

LEMMA StutterHolds == IInv /\ UNCHANGED vars => IInv'
<1> SUFFICES ASSUME IInv, UNCHANGED vars PROVE IInv'
    OBVIOUS
<1> USE DEF vars, Rows, Chain, Worker, Browser
<1>1. TypeOK'
    BY DEF IInv, TypeOK, CheckoutsTyped, WorkerTyped, BrowserTyped
<1>2. WorkerInv => WorkerInv'
    BY DEF WorkerInv, JournalsReserve, JournalsSign, ClaimsAreSigned, ClaimsApart, ReceiptsClaimed,
        SentIsClaimed, PassesKnow, PassKnows, DoneIsConfirmed
<1>3. BrowserInv => BrowserInv'
    BY DEF BrowserInv, HashesAreSent, Was, DeletesAreOld, ReleasesAreAsked, PromptsAreAlone, PromptIsAlone, Pinned,
        SentIsPinned, TabsAreOpen
<1> QED
    BY <1>1, <1>2, <1>3 DEF IInv

\* What is kept by every step, whoever makes it.
THEOREM PaymentsAreInductive == Spec => []IInv
<1>1. IInv /\ [Next]_vars => IInv'
    BY CheckoutsPreserve, WorkerPreserves, BrowserPreserves, StutterHolds DEF Next
<1> QED
    BY <1>1, InitHolds, PTL DEF Spec

\* Every row, file and record keeps its type, and a claim's reservation stays
\* and carries the claimed transaction (the claims' foreign key).
THEOREM PaymentsAreTyped == Spec => []TypeOK
<1>1. IInv => TypeOK
    BY DEF IInv
<1> QED
    BY <1>1, PaymentsAreInductive, PTL

\* For any number of checkouts, hosts and tabs, a checkout is paid once, no
\* two transactions of the wallet compete for a nonce, and a worker's wallet
\* has one payment at a time that no receipt accounts for.
THEOREM PaidOnce == Spec => []OneTransferEach
<1>1. ASSUME IInv PROVE OneTransferEach
  <2>1. TypeOK /\ \A x \in sent : x \in Txs /\ x.trade \in Trades /\ x # NoTx
    BY <1>1 DEF IInv, TypeOK, CheckoutsTyped, Txs
  <2>2. CASE unattended
    <3> SUFFICES ASSUME NEW x \in sent, NEW y \in sent, x # y
                 PROVE x.trade # y.trade /\ x.nonce # y.nonce /\ \E z \in {x, y} : trade[z.trade].receipt = z
        BY <2>2 DEF OneTransferEach
    <3>1. claim[x.trade].tx = x /\ claim[y.trade].tx = y
        BY <1>1, <2>2 DEF IInv, WorkerInv, SentIsClaimed
    <3>2. x.trade # y.trade
        BY <3>1
    <3>3. x.nonce # y.nonce /\ (claim[x.trade].confirmed \/ claim[y.trade].confirmed)
        BY <1>1, <2>1, <2>2, <3>1, <3>2 DEF IInv, WorkerInv, ClaimsApart
    <3>4. trade[x.trade].receipt = x \/ trade[y.trade].receipt = y
        BY <1>1, <2>1, <2>2, <3>1, <3>3 DEF IInv, WorkerInv, ReceiptsClaimed
    <3> QED
        BY <3>2, <3>3, <3>4
  <2>3. CASE ~ unattended
    BY <1>1, <2>3 DEF IInv, BrowserInv, SentIsPinned, OneTransferEach
  <2> QED
    BY <2>2, <2>3
<1> QED
    BY <1>1, PaymentsAreInductive, PTL

\* For any number of them, a transfer that was sent can be recovered from the
\* reservation, the claim and a journal, and a journal is closed only for a
\* recorded payment.
THEOREM TransfersAreRecoverable == Spec => []SentIsRecoverable
<1>1. ASSUME IInv PROVE SentIsRecoverable
  <2>1. TypeOK /\ \A x \in sent : x \in Txs /\ x.trade \in Trades /\ x # NoTx
    BY <1>1 DEF IInv, TypeOK, CheckoutsTyped, Txs
  <2>2. CASE unattended
    <3>1. WorkerInv
        BY <1>1, <2>2 DEF IInv
    <3>2. ASSUME NEW x \in sent
          PROVE /\ intent[x.trade].live /\ intent[x.trade].tx \in {NoTx, x}
                /\ trade[x.trade].receipt \in {NoTx, x}
                /\ claim[x.trade].tx = x /\ Journaled(x)
      <4>1. claim[x.trade].tx = x /\ journal[intent[x.trade].op][x.trade].step \in Started
        BY <3>1 DEF WorkerInv, SentIsClaimed
      <4>2. intent[x.trade].live /\ intent[x.trade].tx = x
        BY <2>1, <4>1 DEF TypeOK, CheckoutsTyped
      <4>3. trade[x.trade].receipt \in {NoTx, x}
        BY <2>1, <3>1, <4>1 DEF WorkerInv, ReceiptsClaimed
      <4>4. intent[x.trade].op \in Hosts /\ journal[intent[x.trade].op][x.trade].tx = x
        BY <2>1, <3>1, <4>1 DEF WorkerInv, ClaimsAreSigned
      <4>5. intent[x.trade].id = journal[intent[x.trade].op][x.trade].id
        BY <2>1, <3>1, <4>1, <4>4 DEF WorkerInv, JournalsReserve, Started, Reserved
      <4> QED
        BY <4>1, <4>2, <4>3, <4>4, <4>5 DEF Journaled, Started
    <3>3. \A h \in Hosts, t \in Trades : journal[h][t].step = "done" =>
            trade[t].receipt = journal[h][t].tx /\ claim[t].confirmed
        BY <3>1 DEF WorkerInv, DoneIsConfirmed, ReceiptsClaimed
    <3> QED
        BY <3>2, <3>3 DEF SentIsRecoverable
  <2>3. CASE ~ unattended
    <3>1. BrowserInv
        BY <1>1, <2>3 DEF IInv
    <3>2. ASSUME NEW x \in sent
          PROVE /\ intent[x.trade].live /\ intent[x.trade].tx \in {NoTx, x}
                /\ trade[x.trade].receipt \in {NoTx, x}
      <4>1. intent[x.trade].live /\ \A y \in sent : y.trade = x.trade => y = x
        BY <3>1 DEF BrowserInv, SentIsPinned, Pinned
      <4>2. Was(x.trade, intent[x.trade].tx) /\ Was(x.trade, trade[x.trade].receipt)
        BY <2>1, <3>1 DEF BrowserInv, HashesAreSent
      <4> QED
        BY <4>1, <4>2 DEF Was
    <3> QED
        BY <2>3, <3>1, <3>2 DEF SentIsRecoverable, BrowserInv
  <2> QED
    BY <2>2, <2>3
<1> QED
    BY <1>1, PaymentsAreInductive, PTL

================================================================================
