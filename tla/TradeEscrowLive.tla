-------------------------- MODULE TradeEscrowLive --------------------------
(***************************************************************************)
(* TradeEscrow in a world that eventually behaves.  Until then requests    *)
(* die at any await and the outbox may lose sight of an outcome it         *)
(* reported; from some moment on a request that can go on does.  What is   *)
(* left to show is that no request that died, and no two that raced, left  *)
(* a settlement where the cron cannot bring it to its end.                 *)
(***************************************************************************)
EXTENDS TradeEscrow

VARIABLE calm       \* no fault happens from now on

liveVars == <<vars, calm>>

RequestStep(r) ==
    \/ AcceptFunding(r) \/ RefuseFunding(r) \/ FindCheckoutExpired(r)
    \/ FindTradeChanged(r) \/ RecordLatePayment(r)
    \/ ClaimConfirmation(r) \/ JoinConfirmation(r) \/ MarkReviewAccepted(r)
    \/ RecordDispute(r)
    \/ QueuePayout(r) \/ QueueRefund(r) \/ AwaitPayout(r) \/ AwaitRefund(r)
    \/ FinalizeCompletion(r) \/ FinalizeDispute(r) \/ MarkRefunded(r)

\* A request that no step is open to was refused, and ends.
CalmStep(r) ==
    \/ RequestStep(r)
    \/ ~ ENABLED RequestStep(r) /\ Fail(r)

NewRequest ==
    \E r \in Requests, t \in Trades :
        \/ \E p \in Proofs : PresentPayment(r, t, p)
        \/ Confirm(r, t) \/ AutoConfirm(r, t) \/ OpenDispute(r, t)
        \/ \E s \in Shares : ResolveExternal(r, t, s) \/ ResolveLedger(r, t, s)

CronRetries(t) == \E r \in Requests : RetrySettlement(r, t)

OutboxForgets == \E k \in Keys : report[k] # "open" /\ report'[k] = "open"

CalmNext ==
    \/ OutboxStep /\ ~ OutboxForgets
    \/ \E t \in Trades :
        \/ ReserveExternal(t) \/ CreateLedgerTrade(t)
        \/ DeadlinePasses(t) \/ CancelByBuyer(t) \/ ExpireByCron(t)
        \/ Deliver(t) \/ CronRetries(t)
    \/ NewRequest
    \/ \E r \in Requests : CalmStep(r)

LiveInit == Init /\ calm = FALSE

LiveNext ==
    \/ ~ calm /\ Next /\ UNCHANGED calm
    \/ calm /\ CalmNext /\ UNCHANGED calm
    \/ ~ calm /\ calm' = TRUE /\ UNCHANGED vars

\* The cron runs every few minutes and takes every started settlement in turn
\* (lines 47-104); the outbox settles what was queued (SettlementOutboxLive).
\* Nothing is assumed of the buyer, the seller or the arbiter.
Fairness ==
    /\ WF_liveVars(~ calm /\ calm' = TRUE /\ UNCHANGED vars)
    /\ WF_liveVars(OutboxStep /\ ~ OutboxForgets /\ UNCHANGED calm)
    /\ \A t \in Trades : SF_liveVars(CronRetries(t) /\ UNCHANGED calm)
    /\ \A r \in Requests : WF_liveVars(CalmStep(r) /\ UNCHANGED calm)

LiveSpec == LiveInit /\ [][LiveNext]_liveVars /\ Fairness

\* Once a payment is to be divided or returned (confirmed, auto-confirmed, resolved,
\* or late), that happens and is recorded, unless the chain reverts a transfer:
\* whichever request dies, the retries of app/api/cron/auto-confirm finish it.
SettlementsFinish ==
    \A t \in External :
        payout[t] = "processing" ~>
            \/ payout[t] \in {"complete", "refunded"}
            \/ \E kind \in Kinds : outcome[<<t, kind>>] = "reverted"

=============================================================================
