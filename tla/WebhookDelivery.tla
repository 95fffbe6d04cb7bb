--------------------------- MODULE WebhookDelivery ---------------------------
(***************************************************************************)
(* The webhook outbox of src/lib/webhook-delivery.ts for one subscription: *)
(* events are rows of webhook_deliveries before they are sent, attempts    *)
(* claim a row under a two-minute lease, a cron run retries what is due,   *)
(* and the outcome is recorded by writes that run in parallel.  A worker   *)
(* is one call of attemptWebhookDelivery, in whatever process.             *)
(***************************************************************************)
EXTENDS Naturals, FiniteSets

CONSTANTS Deliveries,     \* rows of webhook_deliveries of the subscription
          Workers,        \* calls of attemptWebhookDelivery that may overlap
          MaxAttempts,    \* MAX_DELIVERY_ATTEMPTS, 8 in the code
          FailureLimit,   \* failures that disable a subscription, 10 in the code
          MaxFaults       \* bound of the model on crashes, errors and overruns

ASSUME DeliveryAssumption ==
  /\ MaxAttempts \in Nat \ {0}
  /\ FailureLimit \in Nat \ {0}
  /\ MaxFaults \in Nat
  /\ IsFiniteSet(Workers)
  /\ Deliveries # {}

VARIABLES row,         \* row[d]: the delivery's columns
          hook,        \* the subscription's failure_count and active columns
          actionable,  \* actionable[d]: the work a notice announces is waiting
          worker,      \* worker[w]: what a call has read and still has to write
          posts,       \* posts[d]: requests the endpoint was sent
          failed,      \* attempts of the subscription that did fail
          faults       \* crashes, failed statements, and leases outlived

vars == <<row, hook, actionable, worker, posts, failed, faults>>

-----------------------------------------------------------------------------
Row == [made : BOOLEAN, notice : BOOLEAN,
        attempts : Nat, success : BOOLEAN, suppressed : BOOLEAN,
        lock : {"none", "fresh", "stale"}, due : BOOLEAN]

Counter == [failure_count : Nat, active : BOOLEAN]

\* The statements a call can have outstanding: recordFailure may run twice, once
\* inside the try and once in its catch.
RowWrites == {<<"success", 0>>, <<"suppress", 0>>, <<"inactive", 0>>,
              <<"failure", 1>>, <<"failure", 2>>}
HookWrites == {<<"reset", 0>>, <<"increment", 1>>, <<"increment", 2>>}
Reads == {<<"count", 1>>, <<"count", 2>>}
Statements == RowWrites \cup HookWrites \cup Reads

RecordFailure(k) == {<<"failure", k>>, <<"count", k>>}

Call == [pc : {"idle", "listed", "claimed", "read", "send", "record"},
         delivery : Deliveries, attempts : Nat, active : BOOLEAN,
         todo : SUBSET Statements, saw : [1..2 -> Counter], caught : BOOLEAN]

NoneSeen == [k \in 1..2 |-> [failure_count |-> 0, active |-> TRUE]]

NoCall == [pc |-> "idle", delivery |-> CHOOSE d \in Deliveries : TRUE, attempts |-> 0,
           active |-> TRUE, todo |-> {}, saw |-> NoneSeen, caught |-> FALSE]

Faults == faults.crashes + faults.errors + faults.late

\* Mutants of Claimable: the row's outcome, the attempts left, or a lease that has run
\* out is not looked at.
ClaimableDelivered(d) == row[d].made /\ ~row[d].suppressed
                         /\ row[d].attempts < MaxAttempts /\ row[d].lock /= "fresh"
ClaimableForever(d) == row[d].made /\ ~row[d].success /\ ~row[d].suppressed
                       /\ row[d].lock /= "fresh"
ClaimableUnlocked(d) == row[d].made /\ ~row[d].success /\ ~row[d].suppressed
                        /\ row[d].attempts < MaxAttempts /\ row[d].lock = "none"

\* The WHERE of the claim: not delivered, not suppressed, attempts left, and no
\* lease on the row that is still running.
Claimable(d) == /\ row[d].made /\ ~row[d].success /\ ~row[d].suppressed
                /\ row[d].attempts < MaxAttempts
                /\ row[d].lock /= "fresh"

Ended(d) == row[d].success \/ row[d].suppressed \/ row[d].attempts >= MaxAttempts

-----------------------------------------------------------------------------
(* Rows *)

Init ==
  /\ row = [d \in Deliveries |-> [made |-> FALSE, notice |-> FALSE, attempts |-> 0, success |-> FALSE,
              suppressed |-> FALSE, lock |-> "none", due |-> TRUE]]
  /\ hook = [failure_count |-> 0, active |-> TRUE]
  /\ actionable = [d \in Deliveries |-> TRUE]
  /\ worker = [w \in Workers |-> NoCall]
  /\ posts = [d \in Deliveries |-> 0]
  /\ failed = 0
  /\ faults = [crashes |-> 0, errors |-> 0, late |-> 0]

\* The event is work_order.ready, or another.
Insert(d, notice) == row' = [row EXCEPT ![d].made = TRUE, ![d].notice = notice]

List(w, d) == worker' = [worker EXCEPT ![w] = [NoCall EXCEPT !.pc = "listed", !.delivery = d]]

\* An event is a row first, and is then attempted.  The subscription, active at first,
\* was read some awaits before the insert, and may have been stopped since.
DeliverWebhookEvent(w, d) ==
  /\ ~row[d].made
  /\ worker[w].pc = "idle"
  /\ Insert(d, FALSE) /\ List(w, d)
  /\ UNCHANGED <<hook, actionable, posts, failed, faults>>

\* A notice is inserted by the transaction that funds the order and that reads the
\* subscription, and is not attempted.
QueueFundedWorkOrder(d) ==
  /\ ~row[d].made /\ hook.active
  /\ Insert(d, TRUE)
  /\ UNCHANGED <<hook, actionable, worker, posts, failed, faults>>

\* The cron run lists a row that is due; the call that attempts it comes later.
ProcessPending(w, d) ==
  /\ worker[w].pc = "idle"
  /\ Claimable(d) /\ row[d].due
  /\ List(w, d)
  /\ UNCHANGED <<row, hook, actionable, posts, failed, faults>>

\* The trade behind a notice is delivered, cancelled, disputed, or its deadline passes.
WorkMovesOn(d) ==
  /\ row[d].notice /\ actionable[d]
  /\ actionable' = [actionable EXCEPT ![d] = FALSE]
  /\ UNCHANGED <<row, hook, worker, posts, failed, faults>>

\* The owner deletes the subscription, or the agent is archived.
Unsubscribe ==
  /\ hook.active
  /\ hook' = [hook EXCEPT !.active = FALSE]
  /\ UNCHANGED <<row, actionable, worker, posts, failed, faults>>

-----------------------------------------------------------------------------
(* One attempt *)

Claim(w) ==
  LET d == worker[w].delivery IN
  /\ worker[w].pc = "listed"
  /\ \/ /\ Claimable(d)
        /\ row' = [row EXCEPT ![d].lock = "fresh"]
        /\ worker' = [worker EXCEPT ![w].pc = "claimed"]
     \/ /\ ~Claimable(d)
        /\ worker' = [worker EXCEPT ![w] = NoCall]
        /\ UNCHANGED row
  /\ UNCHANGED <<hook, actionable, posts, failed, faults>>

ReadRow(w) ==
  /\ worker[w].pc = "claimed"
  /\ worker' = [worker EXCEPT ![w].pc = "read", ![w].active = hook.active,
                              ![w].attempts = row[worker[w].delivery].attempts]
  /\ UNCHANGED <<row, hook, actionable, posts, failed, faults>>

Record(w, statements) ==
  worker' = [worker EXCEPT ![w].pc = "record", ![w].todo = statements,
                           ![w].active = TRUE,
                           ![w].caught = <<"failure", 2>> \in statements]

\* The current trade and attempt behind a notice are read, then the subscription's
\* flag as it was read with the row.
CheckNotice(w) ==
  /\ worker[w].pc = "read"
  /\ \/ ~actionable[worker[w].delivery] /\ Record(w, {<<"suppress", 0>>})
     \/ /\ actionable[worker[w].delivery]
        /\ \/ ~worker[w].active /\ Record(w, {<<"inactive", 0>>})
           \/ worker[w].active /\ worker' = [worker EXCEPT ![w].pc = "send"]
  /\ UNCHANGED <<row, hook, actionable, posts, failed, faults>>

\* Mutant of Post: a refusal, recorded in the try, is thrown and recorded again.
PostThrowsRefusal(w) ==
  /\ worker[w].pc = "send"
  /\ posts' = [posts EXCEPT ![worker[w].delivery] = @ + 1]
  /\ \/ Record(w, {<<"success", 0>>, <<"reset", 0>>}) /\ UNCHANGED failed
     \/ Record(w, RecordFailure(1) \cup RecordFailure(2)) /\ failed' = failed + 1
  /\ UNCHANGED <<row, hook, actionable, faults>>

\* The endpoint accepts the request, refuses it, or does not answer in time.
Post(w) ==
  /\ worker[w].pc = "send"
  /\ posts' = [posts EXCEPT ![worker[w].delivery] = @ + 1]
  /\ \/ Record(w, {<<"success", 0>>, <<"reset", 0>>}) /\ UNCHANGED failed
     \/ \E k \in 1..2 : Record(w, RecordFailure(k)) /\ failed' = failed + 1
  /\ UNCHANGED <<row, hook, actionable, faults>>

\* The signing key does not match, or the destination is refused before sending.
NotSent(w) ==
  /\ worker[w].pc = "send"
  /\ Record(w, RecordFailure(2))
  /\ failed' = failed + 1
  /\ UNCHANGED <<row, hook, actionable, posts, faults>>

-----------------------------------------------------------------------------
(* The outcome, in parallel statements *)

\* Mutant of RowAfter: a failure leaves the number of attempts as it was.
RowAfterUncounted(r, s, n) ==
  CASE s[1] = "success"  -> [r EXCEPT !.attempts = n + 1, !.success = TRUE, !.lock = "none"]
    [] s[1] = "failure"  -> [r EXCEPT !.attempts = n, !.due = FALSE, !.lock = "none"]
    [] s[1] = "inactive" -> [r EXCEPT !.attempts = MaxAttempts, !.lock = "none"]
    [] s[1] = "suppress" -> [r EXCEPT !.suppressed = TRUE, !.lock = "none"]

\* The row after a statement of a call that had read `n` attempts.
RowAfter(r, s, n) ==
  CASE s[1] = "success"  -> [r EXCEPT !.attempts = n + 1, !.success = TRUE, !.lock = "none"]
    [] s[1] = "failure"  -> [r EXCEPT !.attempts = n + 1, !.due = FALSE, !.lock = "none"]
    [] s[1] = "inactive" -> [r EXCEPT !.attempts = MaxAttempts, !.lock = "none"]
    [] s[1] = "suppress" -> IF r.success \/ r.suppressed THEN r
                            ELSE [r EXCEPT !.suppressed = TRUE, !.lock = "none"]

\* Mutant of CounterAfter: below the limit the subscription is active.
CounterAfterRevives(h, s, saw) ==
  IF s[1] = "reset" THEN [h EXCEPT !.failure_count = 0]
  ELSE LET n == saw[s[2]].failure_count + 1
       IN  [failure_count |-> n, active |-> n < FailureLimit]

\* The increment writes back the flag it read with the count.
CounterAfter(h, s, saw) ==
  IF s[1] = "reset" THEN [h EXCEPT !.failure_count = 0]
  ELSE LET n == saw[s[2]].failure_count + 1
       IN  [failure_count |-> n, active |-> n < FailureLimit /\ saw[s[2]].active]

Apply(w, s) ==
  LET d == worker[w].delivery IN
  /\ row' = IF s \in RowWrites
            THEN [row EXCEPT ![d] = RowAfter(@, s, worker[w].attempts)] ELSE row
  /\ hook' = IF s \in HookWrites THEN CounterAfter(hook, s, worker[w].saw) ELSE hook

\* What a call has left once statements `left` remain.
Left(w, left) ==
  IF left = {} THEN NoCall
  ELSE [worker[w] EXCEPT !.todo = left,
          !.saw = [k \in 1..2 |-> IF <<"increment", k>> \in left THEN @[k] ELSE NoneSeen[k]]]

Execute(w) ==
  /\ worker[w].pc = "record"
  /\ \E s \in worker[w].todo :
       /\ Apply(w, s)
       /\ worker' = [worker EXCEPT ![w] =
            IF s \in Reads
            THEN [worker[w] EXCEPT !.saw[s[2]] = hook,
                    !.todo = (@ \ {s}) \cup {<<"increment", s[2]>>}]
            ELSE Left(w, worker[w].todo \ {s})]
  /\ UNCHANGED <<actionable, posts, failed, faults>>

\* A statement fails, applied or not.  Inside the try this records a failure, once,
\* while the other statements go on; elsewhere the call is over.
StatementFails(w) ==
  /\ worker[w].pc = "record"
  /\ Faults < MaxFaults
  /\ faults' = [faults EXCEPT !.errors = @ + 1]
  /\ \E s \in worker[w].todo :
       /\ Apply(w, s) \/ UNCHANGED <<row, hook>>
       /\ LET inTry == s[2] = 1 \/ s[1] \in {"success", "reset"}
              left == worker[w].todo \ {s}
          IN  worker' = [worker EXCEPT ![w] =
                IF inTry /\ ~worker[w].caught
                THEN [worker[w] EXCEPT !.todo = left \cup RecordFailure(2), !.caught = TRUE]
                ELSE Left(w, left)]
  /\ UNCHANGED <<actionable, posts, failed>>

-----------------------------------------------------------------------------
(* Time and crashes *)

Crash(w) ==
  /\ worker[w].pc \notin {"idle", "listed"}
  /\ Faults < MaxFaults
  /\ faults' = [faults EXCEPT !.crashes = @ + 1]
  /\ worker' = [worker EXCEPT ![w] = NoCall]
  /\ UNCHANGED <<row, hook, actionable, posts, failed>>

Sending(w) == worker[w].pc \in {"claimed", "read", "send"}

Holds(w, d) == /\ worker[w].delivery = d
               /\ Sending(w) \/ worker[w].todo \cap RowWrites /= {}

\* Two minutes pass.  A live attempt needs about ten seconds; one that is still
\* working when its lease ends counts as a fault.
LeaseRunsOut(d) ==
  /\ row[d].lock = "fresh"
  /\ IF \E w \in Workers : Holds(w, d)
     THEN Faults < MaxFaults /\ faults' = [faults EXCEPT !.late = @ + 1]
     ELSE UNCHANGED faults
  /\ row' = [row EXCEPT ![d].lock = "stale"]
  /\ UNCHANGED <<hook, actionable, worker, posts, failed>>

BackoffEnds(d) ==
  /\ row[d].made /\ ~row[d].due /\ ~Ended(d)
  /\ row' = [row EXCEPT ![d].due = TRUE]
  /\ UNCHANGED <<hook, actionable, worker, posts, failed, faults>>

-----------------------------------------------------------------------------
Attempt(w) == Claim(w) \/ ReadRow(w) \/ CheckNotice(w) \/ Post(w) \/ NotSent(w) \/ Execute(w)

\* The rows of the model are used up, and each has ended.
Done == /\ \A w \in Workers : worker[w].pc = "idle"
        /\ \A d \in Deliveries : row[d].made /\ Ended(d)
        /\ UNCHANGED vars

Next ==
  \/ \E d \in Deliveries : \/ QueueFundedWorkOrder(d) \/ WorkMovesOn(d)
                           \/ LeaseRunsOut(d) \/ BackoffEnds(d)
                           \/ \E w \in Workers : DeliverWebhookEvent(w, d) \/ ProcessPending(w, d)
  \/ \E w \in Workers : Attempt(w) \/ StatementFails(w) \/ Crash(w)
  \/ Unsubscribe
  \/ Done

\* A call that is not lost goes on; leases and backoffs end; and the cron run comes
\* back often enough to find a row that keeps being due.
Fairness ==
  /\ \A w \in Workers : WF_vars(Attempt(w))
  /\ \A d \in Deliveries : /\ WF_vars(LeaseRunsOut(d))
                           /\ WF_vars(BackoffEnds(d))
                           /\ SF_vars(\E w \in Workers : ProcessPending(w, d))

Spec == Init /\ [][Next]_vars /\ Fairness

-----------------------------------------------------------------------------
(* Properties *)

\* Leases outlived and statements failed: after one of them two calls may work on a row
\* at a time.  A crash is none: it takes a call away.
Overlaps == faults.errors + faults.late

Typed ==
  /\ row \in [Deliveries -> Row]
  /\ hook \in Counter
  /\ actionable \in [Deliveries -> BOOLEAN]
  /\ worker \in [Workers -> Call]
  /\ posts \in [Deliveries -> Nat]
  /\ failed \in Nat
  /\ faults \in [crashes : Nat, errors : Nat, late : Nat]

\* Types; and attempts never passes its limit, unless calls overlap and one reads the
\* count after others have written it (attemptWebhookDelivery reads it after the claim).
TypeOK == Typed /\ (Overlaps = 0 => \A d \in Deliveries : row[d].attempts <= MaxAttempts)

\* Calls that have claimed d and have no answer yet.
Senders(d) == {w \in Workers : Sending(w) /\ worker[w].delivery = d}

\* A row is being sent by one call at a time, and by none once it is recorded as
\* delivered, whatever cron runs listed it before and whatever calls crashed; each
\* failed statement and lease outlived adds at most one (the claim of
\* attemptWebhookDelivery).
OneSender ==
  \A d \in Deliveries :
    Cardinality(Senders(d)) + (IF row[d].success THEN 1 ELSE 0) <= 1 + Overlaps

\* Attempts are counted: the endpoint is sent a delivery at most MAX_DELIVERY_ATTEMPTS
\* times, and once more for each crash, which loses the count of the attempt it ends.
\* An overlap takes the bound away: the call that lost its lease writes back the count
\* it had read and frees a row others have claimed, so a run of attempts is undone.
PostsAreBounded ==
  Overlaps = 0 => \A d \in Deliveries : posts[d] <= MaxAttempts + faults.crashes

\* failure_count, read and then written beside other reads and resets, can lose failures
\* but never invents one: each unit is an attempt that failed, or an error the database
\* gave while an outcome was recorded, so a subscription is not disabled too early.
FailureCountIsReal == hook.failure_count <= failed + faults.errors

\* Every queued delivery ends delivered, suppressed or out of attempts, after any
\* crash that left its row locked.
EveryDeliveryEnds ==
  \A d \in Deliveries : row[d].made ~> Ended(d)

=============================================================================
