------------------------ MODULE SettlementOutboxLive ------------------------
(***************************************************************************)
(* SettlementOutbox in a world that eventually behaves.  Until then calls  *)
(* are killed, RPC requests fail, waits time out and the network forgets   *)
(* transactions in any order; from some moment on a call that could        *)
(* proceed does.  What is left to show is that no row was brought into a   *)
(* state from which the retries of the cron cannot settle it.              *)
(***************************************************************************)
EXTENDS SettlementOutbox

VARIABLE calm       \* no fault happens from now on

liveVars == <<vars, calm>>

\* A worker gives up only when the network has nothing for it: its transaction
\* waits behind an earlier nonce, or is no longer the one of its nonce.
NothingToReceive(w) ==
    \/ pc[w] = "send" /\ ~ ENABLED Broadcast(w)
    \/ pc[w] = "wait" /\ ~ ENABLED ReceiptArrives(w)

CalmStep(w) ==
    \/ Claim(w) \/ ClaimLost(w)
    \/ ReadNetworkNonce(w) \/ AllocateNonce(w) \/ Sign(w)
    \/ Reread(w) \/ RereadNothing(w)
    \/ Broadcast(w) \/ MarkSubmitted(w) \/ ReceiptArrives(w)
    \/ NothingToReceive(w) /\ GiveUp(w)

CalmNext ==
    \/ \E t \in Transfers : QueueTransfer(t) \/ ReclaimStale(t)
    \/ \E w \in Workers, t \in Transfers : Begin(w, t)
    \/ \E w \in Workers : CalmStep(w)
    \/ Mine

LiveInit == Init /\ calm = FALSE

LiveNext ==
    \/ ~ calm /\ Next /\ UNCHANGED calm
    \/ calm /\ CalmNext /\ UNCHANGED calm
    \/ ~ calm /\ calm' = TRUE /\ UNCHANGED vars

\* The cron runs every few minutes and takes every open row in turn (lines
\* 317-320); a call that can go on does; the network mines what it can mine.
Fairness ==
    /\ WF_liveVars(~ calm /\ calm' = TRUE /\ UNCHANGED vars)
    /\ \A t \in Transfers :
        /\ SF_liveVars(\E w \in Workers : Begin(w, t) /\ UNCHANGED calm)
        /\ WF_liveVars(ReclaimStale(t) /\ UNCHANGED calm)
    /\ \A w \in Workers : WF_liveVars(CalmStep(w) /\ UNCHANGED calm)
    /\ WF_liveVars(Mine /\ UNCHANGED calm)

LiveSpec == LiveInit /\ [][LiveNext]_liveVars /\ Fairness

\* Whatever faults came before, a queued payout or refund is eventually settled on
\* the record: confirmed, or failed because it reverted (the retries of
\* processPendingSettlementTransfers, lines 313-335).
EventuallySettled ==
    \A t \in Transfers : status[t] # "none" ~> status[t] \in Final

=============================================================================
