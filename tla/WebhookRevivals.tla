-------------------------- MODULE WebhookRevivals --------------------------
(***************************************************************************)
(* WebhookDelivery with a history: which increments of the failure counter *)
(* had read the subscription before it was last stopped.  The history      *)
(* guards nothing; it lets a property tell the read an increment rests on  *)
(* from the reads made after the stop.                                     *)
(***************************************************************************)
EXTENDS WebhookDelivery

VARIABLE before     \* increments read before the last stop, and not yet written

historyVars == <<vars, before>>

\* Calls of incrementFailureCount between their select and their update.
ReadsMade == {x \in Workers \X (1..2) : <<"increment", x[2]>> \in worker[x[1]].todo}

Stops == hook.active /\ ~hook'.active

Remember == before' = IF Stops THEN ReadsMade' ELSE before \cap ReadsMade'

HistoryInit == Init /\ before = {}

HistoryNext ==
  \/ \E d \in Deliveries :
       \/ QueueFundedWorkOrder(d) /\ Remember
       \/ WorkMovesOn(d) /\ Remember
       \/ LeaseRunsOut(d) /\ Remember
       \/ BackoffEnds(d) /\ Remember
       \/ \E w \in Workers : \/ DeliverWebhookEvent(w, d) /\ Remember
                             \/ ProcessPending(w, d) /\ Remember
  \/ \E w \in Workers :
       \/ Claim(w) /\ Remember
       \/ ReadRow(w) /\ Remember
       \/ CheckNotice(w) /\ Remember
       \/ Post(w) /\ Remember
       \/ NotSent(w) /\ Remember
       \/ Execute(w) /\ Remember
       \/ StatementFails(w) /\ Remember
       \/ Crash(w) /\ Remember
  \/ Unsubscribe /\ Remember
  \/ Done /\ Remember

HistorySpec == HistoryInit /\ [][HistoryNext]_historyVars /\ Fairness

-----------------------------------------------------------------------------
\* A subscription that was stopped, by its owner or at the failure limit, comes back
\* only by an increment whose read precedes the stop: it is that increment the step
\* writes.  One whose read came after, of however old a call, never revives it
\* (incrementFailureCount).
RevivedOnlyByOldRead ==
  [][~hook.active /\ hook'.active =>
       \E read \in before : read \notin ReadsMade']_historyVars

=============================================================================
