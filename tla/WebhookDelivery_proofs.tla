----------------------- MODULE WebhookDelivery_proofs -----------------------
(***************************************************************************)
(* One sender at a time, bounded requests and an honest failure counter,   *)
(* for any number of deliveries, overlapping calls, attempts and faults.   *)
(*                                                                         *)
(* The argument counts tokens.  A call that is sending a row holds one     *)
(* token of it, and so does every statement on the row it still has to     *)
(* execute; only a claim makes a token without a fault, and a claim needs  *)
(* the lease to be over.  So a row has at most one token for its lease and *)
(* one for each overlap.  Likewise an increment of the failure counter     *)
(* still to be made is a token, paid for by a failed attempt or an error.  *)
(* Last, with the history of WebhookRevivals: while the subscription is    *)
(* stopped, every increment that would revive it was read before the stop. *)
(***************************************************************************)
EXTENDS WebhookRevivals, FiniteSetTheorems, TLAPS

SendToken == <<"send", 0>>
RowTokens == RowWrites \cup {SendToken}

\* What calls hold of row d: being sent, or a statement not yet executed.
Token(w, d, s) == /\ worker[w].delivery = d
                  /\ \/ s = SendToken /\ Sending(w)
                     \/ s \in RowWrites \cap worker[w].todo

Tokens(d) == {x \in Workers \X RowTokens : Token(x[1], d, x[2])}

Fresh(d) == IF row[d].lock = "fresh" THEN 1 ELSE 0

\* A call has statements to execute only at its end.
CallsAreShaped == \A w \in Workers : worker[w].pc # "record" => worker[w].todo = {}

\* A row has one token for its running lease and one for each overlap.
TokensAreFew == \A d \in Deliveries : Cardinality(Tokens(d)) <= Overlaps + Fresh(d)

DeliveredIsFree == \A d \in Deliveries : row[d].success => row[d].lock # "fresh"

\* A call whose request was made and whose count is still to be written.
CountWrites == {<<"success", 0>>, <<"failure", 1>>, <<"failure", 2>>}

Counting(w, d) == worker[w].delivery = d /\ worker[w].todo \cap CountWrites # {}

\* Without overlaps a call's copy of the count is the row's.
CopyIsCurrent(w) ==
    LET d == worker[w].delivery IN
    /\ Sending(w) => row[d].attempts < MaxAttempts
    /\ worker[w].pc \in {"read", "send"} => worker[w].attempts = row[d].attempts
    /\ Counting(w, d) => worker[w].attempts = row[d].attempts
                         /\ row[d].attempts < MaxAttempts

\* Without overlaps a request is counted, about to be, or lost to a crash.
PostsAreCounted(d) ==
    \/ posts[d] <= row[d].attempts + faults.crashes
    \/ \E w \in Workers : Counting(w, d) /\ posts[d] <= row[d].attempts + faults.crashes + 1

Counted ==
    /\ \A d \in Deliveries : row[d].attempts <= MaxAttempts /\ PostsAreCounted(d)
    /\ \A w \in Workers : CopyIsCurrent(w)

AttemptsAreCounted == Overlaps = 0 => Counted

\* The increments of failure_count that calls still have to make.
Increments == Reads \cup {<<"increment", 1>>, <<"increment", 2>>}

Pending == {x \in Workers \X Increments : x[2] \in worker[x[1]].todo}

\* The counter, and each value of it a call will add one to, leave room for them.
FailuresAreReal ==
    /\ hook.failure_count + Cardinality(Pending) <= failed + faults.errors
    /\ \A w \in Workers, k \in 1..2 :
         <<"increment", k>> \in worker[w].todo =>
            worker[w].saw[k].failure_count + Cardinality(Pending) <= failed + faults.errors

IInv == /\ Typed
        /\ CallsAreShaped
        /\ TokensAreFew
        /\ DeliveredIsFree
        /\ AttemptsAreCounted
        /\ FailuresAreReal

-----------------------------------------------------------------------------
(* Operators of the model *)

\* What a statement does to the row, for the types and for the lease.
LEMMA RowAfterFacts ==
    ASSUME NEW r \in Row, NEW s \in RowWrites, NEW n \in Nat
    PROVE  /\ RowAfter(r, s, n) \in Row
           /\ RowAfter(r, s, n).lock = "fresh" => r.lock = "fresh"
           /\ RowAfter(r, s, n).success => r.success \/ RowAfter(r, s, n).lock # "fresh"
           /\ s[1] \in {"success", "failure"} => RowAfter(r, s, n).attempts = n + 1
           /\ s[1] = "inactive" => RowAfter(r, s, n).attempts = MaxAttempts
           /\ s[1] = "suppress" => RowAfter(r, s, n).attempts = r.attempts
<1>0. MaxAttempts \in Nat /\ n + 1 \in Nat
    BY DeliveryAssumption
<1>1. CASE s[1] = "success"
  <2>1. RowAfter(r, s, n) = [r EXCEPT !.attempts = n + 1, !.success = TRUE, !.lock = "none"]
      BY <1>1 DEF RowAfter
  <2> QED
      BY <1>0, <1>1, <2>1 DEF Row
<1>2. CASE s[1] = "failure"
  <2>1. RowAfter(r, s, n) = [r EXCEPT !.attempts = n + 1, !.due = FALSE, !.lock = "none"]
      BY <1>2 DEF RowAfter
  <2> QED
      BY <1>0, <1>2, <2>1 DEF Row
<1>3. CASE s[1] = "inactive"
    BY <1>0, <1>3 DEF RowAfter, Row
<1>4. CASE s[1] = "suppress"
    BY <1>0, <1>4 DEF RowAfter, Row
<1> QED
    BY <1>1, <1>2, <1>3, <1>4 DEF RowWrites

\* What a statement does to the counter.
LEMMA CounterAfterFacts ==
    ASSUME NEW h \in Counter, NEW s \in HookWrites, NEW saw \in [1..2 -> Counter]
    PROVE  /\ CounterAfter(h, s, saw) \in Counter
           /\ s[1] = "reset" => CounterAfter(h, s, saw).failure_count = 0
                                /\ CounterAfter(h, s, saw).active = h.active
           /\ s[1] = "increment" =>
                /\ s[2] \in 1..2
                /\ CounterAfter(h, s, saw).failure_count = saw[s[2]].failure_count + 1
                /\ CounterAfter(h, s, saw).active => saw[s[2]].active
<1>1. CASE s[1] = "reset"
    BY <1>1 DEF CounterAfter, Counter
<1>2. CASE s[1] = "increment"
  <2>1. s[2] \in 1..2
      BY <1>2 DEF HookWrites
  <2> QED
      BY <1>2, <2>1, DeliveryAssumption DEF CounterAfter, Counter
<1> QED
    BY <1>1, <1>2 DEF HookWrites

\* A call that has nothing to do is one of the calls, with nothing left.
LEMMA NoCallFacts ==
    NoCall \in Call /\ NoCall.pc = "idle" /\ NoCall.todo = {}
<1>1. (CHOOSE d \in Deliveries : TRUE) \in Deliveries
    BY DeliveryAssumption
<1>2. NoneSeen \in [1..2 -> Counter]
    BY DEF NoneSeen, Counter
<1> QED
    BY <1>1, <1>2 DEF NoCall, Call, Statements

\* What remains of a call: its statements, and what its increments had read.
LEMMA LeftFacts ==
    ASSUME Typed, NEW w \in Workers, NEW left \in SUBSET Statements, worker[w].pc = "record"
    PROVE  /\ Left(w, left) \in Call
           /\ Left(w, left).todo = left
           /\ Left(w, left).pc \in {"idle", "record"}
           /\ left # {} => /\ Left(w, left).pc = "record"
                           /\ Left(w, left).delivery = worker[w].delivery
                           /\ Left(w, left).attempts = worker[w].attempts
           /\ \A k \in 1..2 : <<"increment", k>> \in left =>
                                Left(w, left).saw[k] = worker[w].saw[k]
<1>1. CASE left = {}
    BY <1>1, NoCallFacts DEF Left
<1>2. CASE left # {}
  <2> DEFINE saw == [k \in 1..2 |-> IF <<"increment", k>> \in left
                                    THEN worker[w].saw[k] ELSE NoneSeen[k]]
  <2>1. worker[w] \in Call
      BY DEF Typed
  <2>2. saw \in [1..2 -> Counter]
      BY <2>1 DEF Call, NoneSeen, Counter
  <2>3. Left(w, left) = [worker[w] EXCEPT !.todo = left, !.saw = saw]
      BY <1>2 DEF Left
  <2>4. \A k \in 1..2 : <<"increment", k>> \in left => saw[k] = worker[w].saw[k]
      OBVIOUS
  <2> HIDE DEF saw
  <2> QED
      BY <1>2, <2>1, <2>2, <2>3, <2>4 DEF Call
<1> QED
    BY <1>1, <1>2

\* A statement changes its own row or the counter, and keeps their types.
LEMMA ApplyFacts ==
    ASSUME Typed, NEW w \in Workers, NEW s \in Statements, Apply(w, s)
    PROVE  /\ row' \in [Deliveries -> Row] /\ hook' \in Counter
           /\ s \in RowWrites =>
                /\ row' = [row EXCEPT ![worker[w].delivery] =
                             RowAfter(row[worker[w].delivery], s, worker[w].attempts)]
                /\ hook' = hook
           /\ s \in HookWrites => row' = row /\ hook' = CounterAfter(hook, s, worker[w].saw)
           /\ s \in Reads => row' = row /\ hook' = hook
<1>1. worker[w] \in Call /\ worker[w].delivery \in Deliveries /\ worker[w].attempts \in Nat
      /\ worker[w].saw \in [1..2 -> Counter]
    BY DEF Typed, Call
<1>2. row \in [Deliveries -> Row] /\ hook \in Counter
    BY DEF Typed
<1>3. CASE s \in RowWrites
  <2>1. s \notin HookWrites /\ s \notin Reads
      BY <1>3 DEF RowWrites, HookWrites, Reads
  <2>2. row' = [row EXCEPT ![worker[w].delivery] =
                  RowAfter(row[worker[w].delivery], s, worker[w].attempts)] /\ hook' = hook
      BY <1>3, <2>1 DEF Apply
  <2>3. RowAfter(row[worker[w].delivery], s, worker[w].attempts) \in Row
      BY <1>1, <1>2, <1>3, RowAfterFacts
  <2> QED
      BY <1>1, <1>2, <1>3, <2>1, <2>2, <2>3
<1>4. CASE s \in HookWrites
  <2>1. s \notin RowWrites /\ s \notin Reads
      BY <1>4 DEF RowWrites, HookWrites, Reads
  <2>2. CounterAfter(hook, s, worker[w].saw) \in Counter
      BY <1>1, <1>2, <1>4, CounterAfterFacts
  <2> QED
      BY <1>2, <1>4, <2>1, <2>2 DEF Apply
<1>5. CASE s \in Reads
  <2>1. s \notin RowWrites /\ s \notin HookWrites
      BY <1>5 DEF RowWrites, HookWrites, Reads
  <2> QED
      BY <1>2, <1>5, <2>1 DEF Apply
<1> QED
    BY <1>3, <1>4, <1>5 DEF Statements

\* The call after a step of Execute: one statement fewer, or a read turned into the
\* increment it is for.
LEMMA ExecuteFacts ==
    ASSUME Typed, NEW w \in Workers, Execute(w)
    PROVE  \E s \in worker[w].todo :
             /\ worker[w].pc = "record" /\ s \in Statements /\ Apply(w, s)
             /\ worker' = [worker EXCEPT ![w] = worker'[w]]
             /\ worker'[w] \in Call /\ worker'[w].pc \in {"idle", "record"}
             /\ worker'[w].todo = (worker[w].todo \ {s})
                                    \cup (IF s \in Reads THEN {<<"increment", s[2]>>} ELSE {})
             /\ worker'[w].todo # {} => /\ worker'[w].pc = "record"
                                        /\ worker'[w].delivery = worker[w].delivery
                                        /\ worker'[w].attempts = worker[w].attempts
             /\ \A k \in 1..2 : <<"increment", k>> \in worker'[w].todo =>
                  worker'[w].saw[k] = IF s = <<"count", k>> THEN hook ELSE worker[w].saw[k]
<1>1. PICK s \in worker[w].todo :
        /\ Apply(w, s)
        /\ worker' = [worker EXCEPT ![w] =
             IF s \in Reads
             THEN [worker[w] EXCEPT !.saw[s[2]] = hook,
                     !.todo = (@ \ {s}) \cup {<<"increment", s[2]>>}]
             ELSE Left(w, worker[w].todo \ {s})]
    BY DEF Execute
<1>2. worker[w] \in Call /\ worker[w].todo \in SUBSET Statements /\ s \in Statements
      /\ worker \in [Workers -> Call] /\ hook \in Counter
    BY DEF Typed, Call
<1>3. worker[w].pc = "record"
    BY DEF Execute
<1>4. CASE s \in Reads
  <2> DEFINE call == [worker[w] EXCEPT !.saw[s[2]] = hook,
                        !.todo = (@ \ {s}) \cup {<<"increment", s[2]>>}]
  <2>1. worker' = [worker EXCEPT ![w] = call] /\ worker'[w] = call
      BY <1>1, <1>2, <1>4
  <2>2. s[2] \in 1..2 /\ s = <<"count", s[2]>> /\ <<"increment", s[2]>> \in Statements
      BY <1>4 DEF Reads, Statements, HookWrites
  <2>3. worker[w].saw \in [1..2 -> Counter]
      BY <1>2 DEF Call
  <2>4. /\ call.todo = (worker[w].todo \ {s}) \cup {<<"increment", s[2]>>}
        /\ call.saw = [worker[w].saw EXCEPT ![s[2]] = hook]
        /\ call.pc = "record" /\ call.delivery = worker[w].delivery
        /\ call.attempts = worker[w].attempts
      BY <1>2, <1>3 DEF Call
  <2>5. call \in Call
    <3>1. (worker[w].todo \ {s}) \cup {<<"increment", s[2]>>} \in SUBSET Statements
        BY <1>2, <2>2
    <3>2. [worker[w].saw EXCEPT ![s[2]] = hook] \in [1..2 -> Counter]
        BY <1>2, <2>3
    <3> QED
        BY <1>2, <3>1, <3>2 DEF Call
  <2>6. \A k \in 1..2 : call.saw[k] = IF s = <<"count", k>> THEN hook ELSE worker[w].saw[k]
      BY <2>2, <2>3, <2>4
  <2> HIDE DEF call
  <2> QED
      BY <1>1, <1>2, <1>3, <1>4, <2>1, <2>4, <2>5, <2>6
<1>5. CASE s \notin Reads
  <2> DEFINE call == Left(w, worker[w].todo \ {s})
  <2>1. worker' = [worker EXCEPT ![w] = call] /\ worker'[w] = call
      BY <1>1, <1>2, <1>5
  <2>2. worker[w].todo \ {s} \in SUBSET Statements
      BY <1>2
  <2>3. /\ call \in Call /\ call.todo = worker[w].todo \ {s} /\ call.pc \in {"idle", "record"}
        /\ call.todo # {} => /\ call.pc = "record"
                             /\ call.delivery = worker[w].delivery
                             /\ call.attempts = worker[w].attempts
        /\ \A k \in 1..2 : <<"increment", k>> \in call.todo => call.saw[k] = worker[w].saw[k]
      BY <1>3, <2>2, LeftFacts
  <2>4. \A k \in 1..2 : s # <<"count", k>>
      BY <1>5 DEF Reads
  <2> HIDE DEF call
  <2> QED
      BY <1>1, <1>2, <1>3, <1>5, <2>1, <2>3, <2>4
<1> QED
    BY <1>4, <1>5

\* The call after a statement of it failed: one statement fewer, and perhaps the record
\* of a failure more.
LEMMA FailsFacts ==
    ASSUME Typed, NEW w \in Workers, StatementFails(w)
    PROVE  \E s \in worker[w].todo :
             /\ worker[w].pc = "record" /\ s \in Statements
             /\ Apply(w, s) \/ (row' = row /\ hook' = hook)
             /\ worker' = [worker EXCEPT ![w] = worker'[w]]
             /\ worker'[w] \in Call /\ worker'[w].pc \in {"idle", "record"}
             /\ worker'[w].todo \subseteq (worker[w].todo \ {s}) \cup RecordFailure(2)
             /\ worker'[w].todo # {} => /\ worker'[w].pc = "record"
                                        /\ worker'[w].delivery = worker[w].delivery
                                        /\ worker'[w].attempts = worker[w].attempts
             /\ \A k \in 1..2 : <<"increment", k>> \in worker'[w].todo =>
                  worker'[w].saw[k] = worker[w].saw[k]
<1>1. PICK s \in worker[w].todo :
        /\ Apply(w, s) \/ UNCHANGED <<row, hook>>
        /\ worker' = [worker EXCEPT ![w] =
             IF (s[2] = 1 \/ s[1] \in {"success", "reset"}) /\ ~worker[w].caught
             THEN [worker[w] EXCEPT !.todo = (worker[w].todo \ {s}) \cup RecordFailure(2),
                                    !.caught = TRUE]
             ELSE Left(w, worker[w].todo \ {s})]
    BY DEF StatementFails
<1>2. worker[w] \in Call /\ worker[w].todo \in SUBSET Statements /\ s \in Statements
      /\ worker \in [Workers -> Call]
    BY DEF Typed, Call
<1>3. worker[w].pc = "record"
    BY DEF StatementFails
<1>4. CASE (s[2] = 1 \/ s[1] \in {"success", "reset"}) /\ ~worker[w].caught
  <2> DEFINE call == [worker[w] EXCEPT !.todo = (worker[w].todo \ {s}) \cup RecordFailure(2),
                                       !.caught = TRUE]
  <2>1. worker' = [worker EXCEPT ![w] = call] /\ worker'[w] = call
      BY <1>1, <1>2, <1>4
  <2>2. (worker[w].todo \ {s}) \cup RecordFailure(2) \in SUBSET Statements
      BY <1>2 DEF RecordFailure, Statements, RowWrites, Reads
  <2>3. /\ call \in Call /\ call.pc = "record" /\ call.delivery = worker[w].delivery
        /\ call.todo = (worker[w].todo \ {s}) \cup RecordFailure(2)
        /\ call.attempts = worker[w].attempts /\ call.saw = worker[w].saw
      BY <1>2, <1>3, <2>2 DEF Call
  <2> HIDE DEF call
  <2> QED
      BY <1>1, <1>2, <1>3, <2>1, <2>3
<1>5. CASE ~((s[2] = 1 \/ s[1] \in {"success", "reset"}) /\ ~worker[w].caught)
  <2> DEFINE call == Left(w, worker[w].todo \ {s})
  <2>1. worker' = [worker EXCEPT ![w] = call] /\ worker'[w] = call
      BY <1>1, <1>2, <1>5
  <2>2. worker[w].todo \ {s} \in SUBSET Statements
      BY <1>2
  <2>3. /\ call \in Call /\ call.todo = worker[w].todo \ {s} /\ call.pc \in {"idle", "record"}
        /\ call.todo # {} => /\ call.pc = "record"
                             /\ call.delivery = worker[w].delivery
                             /\ call.attempts = worker[w].attempts
        /\ \A k \in 1..2 : <<"increment", k>> \in call.todo => call.saw[k] = worker[w].saw[k]
      BY <1>3, <2>2, LeftFacts
  <2> HIDE DEF call
  <2> QED
      BY <1>1, <1>2, <1>3, <2>1, <2>3
<1> QED
    BY <1>4, <1>5

\* The call that has its answer and starts its statements.
LEMMA RecordFacts ==
    ASSUME Typed, NEW w \in Workers, NEW statements \in SUBSET Statements, Record(w, statements)
    PROVE  /\ worker' = [worker EXCEPT ![w] = worker'[w]]
           /\ worker'[w] \in Call /\ worker'[w].pc = "record"
           /\ worker'[w].todo = statements
           /\ worker'[w].delivery = worker[w].delivery
           /\ worker'[w].attempts = worker[w].attempts
<1> DEFINE twice == <<"failure", 2>> \in statements
           call == [worker[w] EXCEPT !.pc = "record", !.todo = statements, !.active = TRUE,
                                     !.caught = twice]
<1>1. worker[w] \in Call /\ worker \in [Workers -> Call] /\ twice \in BOOLEAN
    BY DEF Typed
<1>2. worker' = [worker EXCEPT ![w] = call] /\ worker'[w] = call
    BY <1>1 DEF Record
<1>3. /\ call \in Call /\ call.pc = "record" /\ call.todo = statements
      /\ call.delivery = worker[w].delivery /\ call.attempts = worker[w].attempts
  <2> HIDE DEF twice
  <2> QED
      BY <1>1 DEF Call
<1> HIDE DEF call
<1> QED
    BY <1>2, <1>3

\* The statements a call starts together are statements.
LEMMA Outcomes ==
    /\ {<<"suppress", 0>>} \in SUBSET Statements /\ {<<"inactive", 0>>} \in SUBSET Statements
    /\ {<<"success", 0>>, <<"reset", 0>>} \in SUBSET Statements
    /\ \A k \in 1..2 : RecordFailure(k) \in SUBSET Statements
BY DEF RecordFailure, Statements, RowWrites, HookWrites, Reads

-----------------------------------------------------------------------------
(* Every step keeps the types *)

\* A call put in a worker's place keeps the types and the shape.
LEMMA OneCallChanges ==
    ASSUME Typed, CallsAreShaped, NEW w \in Workers, NEW call \in Call,
           call.pc # "record" => call.todo = {}, worker' = [worker EXCEPT ![w] = call]
    PROVE  worker' \in [Workers -> Call] /\ CallsAreShaped'
BY DEF Typed, CallsAreShaped

\* Every step of the calls, the subscription and time keeps the types, and gives
\* statements only to a call that records its outcome.
LEMMA TypeStep == Typed /\ CallsAreShaped /\ [Next]_vars => Typed' /\ CallsAreShaped'
<1> SUFFICES ASSUME Typed, CallsAreShaped, [Next]_vars PROVE Typed' /\ CallsAreShaped'
    OBVIOUS
<1>0. /\ row \in [Deliveries -> Row] /\ hook \in Counter /\ worker \in [Workers -> Call]
      /\ actionable \in [Deliveries -> BOOLEAN] /\ posts \in [Deliveries -> Nat]
      /\ failed \in Nat /\ faults \in [crashes : Nat, errors : Nat, late : Nat]
    BY DEF Typed
<1>1. ASSUME NEW w \in Workers, NEW d \in Deliveries, List(w, d)
      PROVE  worker' \in [Workers -> Call] /\ CallsAreShaped'
  <2> DEFINE call == [NoCall EXCEPT !.pc = "listed", !.delivery = d]
  <2>1. call \in Call /\ call.todo = {}
      BY NoCallFacts DEF Call
  <2>2. worker' = [worker EXCEPT ![w] = call]
      BY <1>1 DEF List
  <2> HIDE DEF call
  <2> QED
      BY <2>1, <2>2, OneCallChanges
<1>2. ASSUME NEW w \in Workers, NEW d \in Deliveries, DeliverWebhookEvent(w, d)
      PROVE  Typed' /\ CallsAreShaped'
  <2>1. worker' \in [Workers -> Call] /\ CallsAreShaped'
      BY <1>1, <1>2 DEF DeliverWebhookEvent
  <2>2. row' \in [Deliveries -> Row]
    <3> DEFINE r == [row[d] EXCEPT !.made = TRUE, !.notice = FALSE]
    <3>1. row' = [row EXCEPT ![d] = r]
        BY <1>2 DEF DeliverWebhookEvent, Insert
    <3>2. r \in Row
        BY <1>0 DEF Row
    <3> HIDE DEF r
    <3> QED
        BY <1>0, <3>1, <3>2
  <2> QED
      BY <1>0, <1>2, <2>1, <2>2 DEF DeliverWebhookEvent, Typed
<1>3. ASSUME NEW w \in Workers, NEW d \in Deliveries, ProcessPending(w, d)
      PROVE  Typed' /\ CallsAreShaped'
  <2>1. worker' \in [Workers -> Call] /\ CallsAreShaped'
      BY <1>1, <1>3 DEF ProcessPending
  <2> QED
      BY <1>0, <1>3, <2>1 DEF ProcessPending, Typed
<1>4. ASSUME NEW d \in Deliveries,
             QueueFundedWorkOrder(d) \/ WorkMovesOn(d) \/ LeaseRunsOut(d) \/ BackoffEnds(d)
      PROVE  Typed' /\ CallsAreShaped'
  <2>0. row[d] \in Row
      BY <1>0
  <2>1. row' \in [Deliveries -> Row]
    <3>2. CASE QueueFundedWorkOrder(d)
        BY <1>0, <2>0, <3>2 DEF QueueFundedWorkOrder, Insert, Row
    <3>3. CASE WorkMovesOn(d)
        BY <1>0, <3>3 DEF WorkMovesOn
    <3>4. CASE LeaseRunsOut(d)
        BY <1>0, <2>0, <3>4 DEF LeaseRunsOut, Row
    <3>5. CASE BackoffEnds(d)
        BY <1>0, <2>0, <3>5 DEF BackoffEnds, Row
    <3> QED
        BY <1>4, <3>2, <3>3, <3>4, <3>5
  <2>2. faults' \in [crashes : Nat, errors : Nat, late : Nat]
    <3>1. faults' = faults \/ faults' = [faults EXCEPT !.late = @ + 1]
        BY <1>4 DEF QueueFundedWorkOrder, WorkMovesOn, LeaseRunsOut, BackoffEnds
    <3> QED
        BY <1>0, <3>1
  <2>3. actionable' \in [Deliveries -> BOOLEAN]
      BY <1>0, <1>4 DEF QueueFundedWorkOrder, WorkMovesOn, LeaseRunsOut, BackoffEnds
  <2>4. UNCHANGED <<hook, worker, posts, failed>>
      BY <1>4 DEF QueueFundedWorkOrder, WorkMovesOn, LeaseRunsOut, BackoffEnds
  <2> QED
      BY <1>0, <2>1, <2>2, <2>3, <2>4 DEF Typed, CallsAreShaped
<1>5. ASSUME NEW w \in Workers, Claim(w) PROVE Typed' /\ CallsAreShaped'
  <2> DEFINE d == worker[w].delivery
  <2>1. worker[w] \in Call /\ d \in Deliveries /\ row[d] \in Row
      BY <1>0 DEF Call
  <2>2. CASE Claimable(d)
    <3> DEFINE call == [worker[w] EXCEPT !.pc = "claimed"]
    <3>1. call \in Call /\ call.todo = {}
        BY <1>5, <2>1 DEF Claim, Call, CallsAreShaped
    <3>2. worker' = [worker EXCEPT ![w] = call] /\ row' = [row EXCEPT ![d].lock = "fresh"]
          /\ UNCHANGED <<hook, actionable, posts, failed, faults>>
        BY <1>5, <2>2 DEF Claim
    <3>3. row' \in [Deliveries -> Row]
        BY <1>0, <2>1, <3>2 DEF Row
    <3>4. worker' \in [Workers -> Call] /\ CallsAreShaped'
        <4> HIDE DEF call
        <4> QED BY <3>1, <3>2, OneCallChanges
    <3> QED
        BY <1>0, <3>2, <3>3, <3>4 DEF Typed
  <2>3. CASE ~Claimable(d)
    <3>1. worker' = [worker EXCEPT ![w] = NoCall]
          /\ UNCHANGED <<row, hook, actionable, posts, failed, faults>>
        BY <1>5, <2>3 DEF Claim
    <3>2. worker' \in [Workers -> Call] /\ CallsAreShaped'
        BY <3>1, NoCallFacts, OneCallChanges
    <3> QED
        BY <1>0, <3>1, <3>2 DEF Typed
  <2> QED
      BY <2>2, <2>3
<1>6. ASSUME NEW w \in Workers, ReadRow(w) PROVE Typed' /\ CallsAreShaped'
  <2> DEFINE call == [worker[w] EXCEPT !.pc = "read", !.active = hook.active,
                                       !.attempts = row[worker[w].delivery].attempts]
  <2>1. worker[w] \in Call /\ row[worker[w].delivery] \in Row
      BY <1>0 DEF Call
  <2>2. hook.active \in BOOLEAN /\ row[worker[w].delivery].attempts \in Nat
      BY <1>0, <2>1 DEF Counter, Row
  <2>3. call \in Call /\ call.todo = {}
      BY <1>6, <2>1, <2>2 DEF ReadRow, Call, CallsAreShaped
  <2>4. worker' = [worker EXCEPT ![w] = call]
      BY <1>6 DEF ReadRow
  <2>5. worker' \in [Workers -> Call] /\ CallsAreShaped'
    <3> HIDE DEF call
    <3> QED BY <2>3, <2>4, OneCallChanges
  <2> QED
      BY <1>0, <1>6, <2>5 DEF ReadRow, Typed
<1>7. ASSUME NEW w \in Workers, NEW statements \in SUBSET Statements, Record(w, statements)
      PROVE  worker' \in [Workers -> Call] /\ CallsAreShaped'
    BY <1>7, RecordFacts, OneCallChanges
<1>8. ASSUME NEW w \in Workers, CheckNotice(w) PROVE Typed' /\ CallsAreShaped'
  <2>1. CASE Record(w, {<<"suppress", 0>>}) \/ Record(w, {<<"inactive", 0>>})
    <3>1. worker' \in [Workers -> Call] /\ CallsAreShaped'
        BY <1>7, <2>1, Outcomes
    <3> QED
        BY <1>0, <1>8, <3>1 DEF CheckNotice, Typed
  <2>2. CASE worker' = [worker EXCEPT ![w].pc = "send"]
    <3> DEFINE call == [worker[w] EXCEPT !.pc = "send"]
    <3>1. call \in Call /\ call.todo = {}
        BY <1>0, <1>8 DEF CheckNotice, Call, CallsAreShaped
    <3>2. worker' \in [Workers -> Call] /\ CallsAreShaped'
      <4>1. worker' = [worker EXCEPT ![w] = call]
          BY <2>2
      <4> HIDE DEF call
      <4> QED BY <3>1, <4>1, OneCallChanges
    <3> QED
        BY <1>0, <1>8, <3>2 DEF CheckNotice, Typed
  <2> QED
      BY <1>8, <2>1, <2>2 DEF CheckNotice
<1>9. ASSUME NEW w \in Workers, Post(w) \/ NotSent(w) PROVE Typed' /\ CallsAreShaped'
  <2>1. worker' \in [Workers -> Call] /\ CallsAreShaped'
    <3>1. \E statements \in SUBSET Statements : Record(w, statements)
        BY <1>9, Outcomes DEF Post, NotSent
    <3> QED
        BY <1>7, <3>1
  <2>2. posts' \in [Deliveries -> Nat]
      BY <1>0, <1>9 DEF Post, NotSent, Call
  <2>3. failed' \in Nat
      BY <1>0, <1>9 DEF Post, NotSent
  <2> QED
      BY <1>0, <1>9, <2>1, <2>2, <2>3 DEF Post, NotSent, Typed
<1>10. ASSUME NEW w \in Workers, Execute(w) PROVE Typed' /\ CallsAreShaped'
  <2>1. PICK s \in worker[w].todo :
          /\ s \in Statements /\ Apply(w, s)
          /\ worker' = [worker EXCEPT ![w] = worker'[w]] /\ worker'[w] \in Call
          /\ worker'[w].todo # {} => worker'[w].pc = "record"
      BY <1>10, ExecuteFacts
  <2>2. worker' \in [Workers -> Call] /\ CallsAreShaped'
    <3> DEFINE call == worker'[w]
    <3>1. call \in Call /\ (call.pc # "record" => call.todo = {})
          /\ worker' = [worker EXCEPT ![w] = call]
        BY <2>1
    <3> HIDE DEF call
    <3> QED BY <3>1, OneCallChanges
  <2>3. row' \in [Deliveries -> Row] /\ hook' \in Counter
      BY <2>1, ApplyFacts
  <2> QED
      BY <1>0, <1>10, <2>2, <2>3 DEF Execute, Typed
<1>11. ASSUME NEW w \in Workers, StatementFails(w) PROVE Typed' /\ CallsAreShaped'
  <2>1. PICK s \in worker[w].todo :
          /\ s \in Statements /\ (Apply(w, s) \/ (row' = row /\ hook' = hook))
          /\ worker' = [worker EXCEPT ![w] = worker'[w]] /\ worker'[w] \in Call
          /\ worker'[w].todo # {} => worker'[w].pc = "record"
      BY <1>11, FailsFacts
  <2>2. worker' \in [Workers -> Call] /\ CallsAreShaped'
    <3> DEFINE call == worker'[w]
    <3>1. call \in Call /\ (call.pc # "record" => call.todo = {})
          /\ worker' = [worker EXCEPT ![w] = call]
        BY <2>1
    <3> HIDE DEF call
    <3> QED BY <3>1, OneCallChanges
  <2>3. row' \in [Deliveries -> Row] /\ hook' \in Counter
      BY <1>0, <2>1, ApplyFacts
  <2>4. faults' \in [crashes : Nat, errors : Nat, late : Nat]
      BY <1>0, <1>11 DEF StatementFails
  <2> QED
      BY <1>0, <1>11, <2>2, <2>3, <2>4 DEF StatementFails, Typed
<1>12. ASSUME NEW w \in Workers, Crash(w) PROVE Typed' /\ CallsAreShaped'
  <2>1. worker' \in [Workers -> Call] /\ CallsAreShaped'
      BY <1>12, NoCallFacts, OneCallChanges DEF Crash
  <2>2. faults' \in [crashes : Nat, errors : Nat, late : Nat]
      BY <1>0, <1>12 DEF Crash
  <2> QED
      BY <1>0, <1>12, <2>1, <2>2 DEF Crash, Typed
<1>13. CASE Unsubscribe
    BY <1>0, <1>13 DEF Unsubscribe, Typed, Counter, CallsAreShaped
<1>14. CASE UNCHANGED vars
    BY <1>0, <1>14 DEF vars, Typed, CallsAreShaped
<1> QED
    BY <1>2, <1>3, <1>4, <1>5, <1>6, <1>8, <1>9, <1>10, <1>11, <1>12, <1>13, <1>14
       DEF Next, Attempt, Done

-----------------------------------------------------------------------------
(* Counting tokens *)

\* A finite set that gained at most one element has grown by one at most.
LEMMA Grown ==
    ASSUME NEW S, IsFiniteSet(S), NEW y, NEW T, T \subseteq S \cup {y}
    PROVE  Cardinality(T) \in Nat /\ Cardinality(T) <= Cardinality(S) + 1
<1> DEFINE U == S \cup {y}
<1>1. Cardinality(S) \in Nat
    BY FS_CardinalityType
<1>2. IsFiniteSet(U)
      /\ Cardinality(U) = IF y \in S THEN Cardinality(S) ELSE Cardinality(S) + 1
    BY FS_AddElement
<1>3. T \in SUBSET U
    OBVIOUS
<1> HIDE DEF U
<1>4. Cardinality(U) <= Cardinality(S) + 1
    BY <1>1, <1>2
<1>5. IsFiniteSet(T) /\ Cardinality(T) <= Cardinality(U)
    BY <1>2, <1>3, FS_Subset
<1>6. Cardinality(T) \in Nat /\ Cardinality(U) \in Nat
    BY <1>2, <1>5, FS_CardinalityType
<1> QED
    BY <1>1, <1>4, <1>5, <1>6

\* A finite set that lost an element and gained at most one is no larger.
LEMMA Swapped ==
    ASSUME NEW S, IsFiniteSet(S), NEW x \in S, NEW y, NEW T, T \subseteq (S \ {x}) \cup {y}
    PROVE  Cardinality(T) \in Nat /\ Cardinality(T) <= Cardinality(S)
<1> DEFINE R == S \ {x}
<1>1. IsFiniteSet(R) /\ Cardinality(R) = Cardinality(S) - 1
    BY FS_RemoveElement
<1>2. Cardinality(S) \in Nat
    BY FS_CardinalityType
<1>3. T \subseteq R \cup {y}
    OBVIOUS
<1> HIDE DEF R
<1>4. Cardinality(T) \in Nat /\ Cardinality(T) <= Cardinality(R) + 1
    BY <1>1, <1>3, Grown
<1> QED
    BY <1>1, <1>2, <1>4

\* One that lost an element has shrunk.
LEMMA Dropped ==
    ASSUME NEW S, IsFiniteSet(S), NEW x \in S, NEW T, T \subseteq S \ {x}
    PROVE  Cardinality(T) \in Nat /\ Cardinality(T) <= Cardinality(S) - 1
<1> DEFINE R == S \ {x}
<1>1. IsFiniteSet(R) /\ Cardinality(R) = Cardinality(S) - 1
    BY FS_RemoveElement
<1>2. T \in SUBSET R
    OBVIOUS
<1> HIDE DEF R
<1> QED
    BY <1>1, <1>2, FS_Subset, FS_CardinalityType

\* One that gained nothing is no larger.
LEMMA Within ==
    ASSUME NEW S, IsFiniteSet(S), NEW T, T \subseteq S
    PROVE  Cardinality(T) \in Nat /\ Cardinality(T) <= Cardinality(S)
BY FS_Subset, FS_CardinalityType

\* There are finitely many tokens, and finitely many increments to make.
LEMMA TokensAreFinite ==
    /\ \A d \in Deliveries : IsFiniteSet(Tokens(d)) /\ Cardinality(Tokens(d)) \in Nat
    /\ IsFiniteSet(Pending) /\ Cardinality(Pending) \in Nat
<1>1. ASSUME NEW a, NEW b, NEW c, NEW d, NEW e, NEW f
      PROVE  IsFiniteSet({a, b, c, d, e, f}) /\ IsFiniteSet({a, b, c, d})
  <2>1. {a, b, c, d} = ((({} \cup {a}) \cup {b}) \cup {c}) \cup {d}
        /\ {a, b, c, d, e, f} = ({a, b, c, d} \cup {e}) \cup {f}
      OBVIOUS
  <2>2. IsFiniteSet({} \cup {a})
      BY FS_EmptySet, FS_AddElement
  <2>3. IsFiniteSet(({} \cup {a}) \cup {b})
      BY <2>2, FS_AddElement
  <2>4. IsFiniteSet((({} \cup {a}) \cup {b}) \cup {c})
      BY <2>3, FS_AddElement
  <2>5. IsFiniteSet({a, b, c, d})
      BY <2>1, <2>4, FS_AddElement
  <2>6. IsFiniteSet({a, b, c, d} \cup {e})
      BY <2>5, FS_AddElement
  <2>7. IsFiniteSet(({a, b, c, d} \cup {e}) \cup {f})
      BY <2>6, FS_AddElement
  <2> QED
      BY <2>1, <2>5, <2>7
<1>2. IsFiniteSet(RowTokens)
  <2>1. RowTokens = {<<"success", 0>>, <<"suppress", 0>>, <<"inactive", 0>>,
                     <<"failure", 1>>, <<"failure", 2>>, <<"send", 0>>}
      BY DEF RowTokens, RowWrites, SendToken
  <2> QED
      BY <1>1, <2>1
<1>3. IsFiniteSet(Increments)
  <2>1. Increments = {<<"count", 1>>, <<"count", 2>>, <<"increment", 1>>, <<"increment", 2>>}
      BY DEF Increments, Reads
  <2> QED
      BY <1>1, <2>1
<1>4. IsFiniteSet(Workers)
    BY DeliveryAssumption
<1>5. IsFiniteSet(Workers \X RowTokens) /\ IsFiniteSet(Workers \X Increments)
    BY <1>2, <1>3, <1>4, FS_Product
<1>6. ASSUME NEW d \in Deliveries PROVE IsFiniteSet(Tokens(d)) /\ Cardinality(Tokens(d)) \in Nat
  <2>1. Tokens(d) \subseteq Workers \X RowTokens
      BY DEF Tokens
  <2> QED
      BY <1>5, <2>1, FS_Subset, FS_CardinalityType
<1>7. Pending \subseteq Workers \X Increments
    BY DEF Pending
<1> QED
    BY <1>5, <1>6, <1>7, FS_Subset, FS_CardinalityType

\* A change of one call leaves the tokens of the others.
LEMMA OthersKeepTokens ==
    ASSUME worker \in [Workers -> Call], NEW w \in Workers, NEW call,
           worker' = [worker EXCEPT ![w] = call], NEW d \in Deliveries, NEW x \in Tokens(d)'
    PROVE  \/ x \in Tokens(d) /\ x[1] # w
           \/ /\ x = <<w, x[2]>> /\ x[2] \in RowTokens
              /\ call.delivery = d
              /\ \/ x[2] = SendToken /\ call.pc \in {"claimed", "read", "send"}
                 \/ x[2] \in RowWrites \cap call.todo
<1>1. x \in Workers \X RowTokens /\ x = <<x[1], x[2]>> /\ x[1] \in Workers
      /\ Token(x[1], d, x[2])'
    BY DEF Tokens
<1>2. CASE x[1] = w
  <2>1. worker'[w] = call
      OBVIOUS
  <2> QED
      BY <1>1, <1>2, <2>1 DEF Token, Sending
<1>3. CASE x[1] # w
  <2>1. worker'[x[1]] = worker[x[1]]
      BY <1>1, <1>3
  <2>2. Token(x[1], d, x[2])
      BY <1>1, <2>1 DEF Token, Sending
  <2> QED
      BY <1>1, <1>3, <2>2 DEF Tokens
<1> QED
    BY <1>2, <1>3

\* The outcomes of an attempt start one statement on the row.
OneWrite(statements, s) == statements \in SUBSET Statements /\ s \in RowWrites
                           /\ statements \cap RowWrites \subseteq {s}

LEMMA OneWriteEach ==
    /\ OneWrite({<<"suppress", 0>>}, <<"suppress", 0>>)
    /\ OneWrite({<<"inactive", 0>>}, <<"inactive", 0>>)
    /\ OneWrite({<<"success", 0>>, <<"reset", 0>>}, <<"success", 0>>)
    /\ \A k \in 1..2 : OneWrite(RecordFailure(k), <<"failure", k>>)
<1>1. \A k \in 1..2 : <<"count", k>> \notin RowWrites /\ <<"failure", k>> \in RowWrites
    BY DEF RowWrites
<1>2. <<"reset", 0>> \notin RowWrites
    BY DEF RowWrites
<1>3. {<<"suppress", 0>>, <<"inactive", 0>>, <<"success", 0>>} \subseteq RowWrites
    BY DEF RowWrites
<1> QED
    BY <1>1, <1>2, <1>3, Outcomes DEF OneWrite, RecordFailure

\* A call that records its outcome trades its token for one.
LEMMA RecordTokens ==
    ASSUME Typed, CallsAreShaped, NEW w \in Workers, Sending(w), NEW statements, NEW s,
           Record(w, statements), OneWrite(statements, s)
    PROVE  /\ <<w, SendToken>> \in Tokens(worker[w].delivery)
           /\ \A e \in Deliveries :
                Tokens(e)' \subseteq (Tokens(e) \ {<<w, SendToken>>})
                    \cup (IF e = worker[w].delivery THEN {<<w, s>>} ELSE {})
<1>1. worker \in [Workers -> Call]
    BY DEF Typed
<1>2. /\ worker' = [worker EXCEPT ![w] = worker'[w]] /\ worker'[w].pc = "record"
      /\ worker'[w].todo = statements /\ worker'[w].delivery = worker[w].delivery
    BY RecordFacts DEF OneWrite
<1>3. <<w, SendToken>> \in Tokens(worker[w].delivery)
    BY DEF Tokens, Token, RowTokens
<1>4. ASSUME NEW e \in Deliveries, NEW x \in Tokens(e)'
      PROVE  x \in (Tokens(e) \ {<<w, SendToken>>})
                    \cup (IF e = worker[w].delivery THEN {<<w, s>>} ELSE {})
  <2> DEFINE call == worker'[w]
  <2>1. worker' = [worker EXCEPT ![w] = call]
      BY <1>2
  <2>2. \/ x \in Tokens(e) /\ x[1] # w
        \/ /\ x = <<w, x[2]>> /\ call.delivery = e
           /\ \/ call.pc \in {"claimed", "read", "send"}
              \/ x[2] \in RowWrites \cap call.todo
    <3> HIDE DEF call
    <3> QED
        BY <1>1, <2>1, OthersKeepTokens
  <2> QED
      BY <1>2, <2>2 DEF OneWrite
<1> QED
    BY <1>3, <1>4

\* A claim makes a token of the row claimed.
LEMMA ClaimTokens ==
    ASSUME Typed, CallsAreShaped, NEW w \in Workers, worker[w].pc = "listed",
           worker' = [worker EXCEPT ![w].pc = "claimed"]
    PROVE  \A e \in Deliveries :
             Tokens(e)' \subseteq Tokens(e)
                 \cup (IF e = worker[w].delivery THEN {<<w, SendToken>>} ELSE {})
<1> DEFINE call == [worker[w] EXCEPT !.pc = "claimed"]
<1>1. worker \in [Workers -> Call] /\ worker[w] \in Call
    BY DEF Typed
<1>2. worker' = [worker EXCEPT ![w] = call] /\ call.todo = {}
      /\ call.delivery = worker[w].delivery
    BY <1>1 DEF CallsAreShaped, Call
<1> HIDE DEF call
<1>3. ASSUME NEW e \in Deliveries, NEW x \in Tokens(e)'
      PROVE  x \in Tokens(e) \cup (IF e = worker[w].delivery THEN {<<w, SendToken>>} ELSE {})
  <2>1. \/ x \in Tokens(e) /\ x[1] # w
        \/ /\ x = <<w, x[2]>> /\ x[2] \in RowTokens
           /\ call.delivery = e
           /\ \/ x[2] = SendToken /\ call.pc \in {"claimed", "read", "send"}
              \/ x[2] \in RowWrites \cap call.todo
      BY <1>1, <1>2, OthersKeepTokens
  <2> QED
      BY <1>2, <2>1
<1> QED
    BY <1>3

\* A call with no statement left, or none yet and no claim, has no token.
LEMMA NoTokens ==
    ASSUME Typed, NEW w \in Workers, NEW call, worker' = [worker EXCEPT ![w] = call],
           call.todo = {}, call.pc \notin {"claimed", "read", "send"}
    PROVE  \A e \in Deliveries : Tokens(e)' \subseteq Tokens(e)
BY OthersKeepTokens DEF Typed

\* A call that goes on sending keeps its token.
LEMMA SameTokens ==
    ASSUME Typed, NEW w \in Workers, Sending(w), NEW call, worker' = [worker EXCEPT ![w] = call],
           call.todo = {}, call.delivery = worker[w].delivery
    PROVE  \A e \in Deliveries : Tokens(e)' \subseteq Tokens(e)
<1>1. <<w, SendToken>> \in Tokens(worker[w].delivery)
    BY DEF Tokens, Token, RowTokens
<1>2. ASSUME NEW e \in Deliveries, NEW x \in Tokens(e)' PROVE x \in Tokens(e)
  <2>1. \/ x \in Tokens(e) /\ x[1] # w
        \/ /\ x = <<w, x[2]>> /\ x[2] \in RowTokens
           /\ call.delivery = e
           /\ \/ x[2] = SendToken /\ call.pc \in {"claimed", "read", "send"}
              \/ x[2] \in RowWrites \cap call.todo
      BY OthersKeepTokens DEF Typed
  <2> QED
      BY <1>1, <2>1
<1> QED
    BY <1>2

\* A statement executed gives up its token, and makes none.
LEMMA ExecuteTokens ==
    ASSUME Typed, NEW w \in Workers, NEW s \in worker[w].todo, NEW call,
           worker' = [worker EXCEPT ![w] = call], call.pc \in {"idle", "record"},
           call.todo # {} => call.delivery = worker[w].delivery,
           call.todo \cap RowWrites \subseteq worker[w].todo \ {s}
    PROVE  \A e \in Deliveries : Tokens(e)' \subseteq Tokens(e) \ {<<w, s>>}
<1> SUFFICES ASSUME NEW e \in Deliveries, NEW x \in Tokens(e)'
             PROVE  x \in Tokens(e) /\ x # <<w, s>>
    OBVIOUS
<1>1. \/ x \in Tokens(e) /\ x[1] # w
      \/ /\ x = <<w, x[2]>> /\ x[2] \in RowTokens /\ call.delivery = e
         /\ x[2] \in RowWrites \cap call.todo
  <2>1. \/ x \in Tokens(e) /\ x[1] # w
        \/ /\ x = <<w, x[2]>> /\ x[2] \in RowTokens
           /\ call.delivery = e
           /\ \/ x[2] = SendToken /\ call.pc \in {"claimed", "read", "send"}
              \/ x[2] \in RowWrites \cap call.todo
      BY OthersKeepTokens DEF Typed
  <2> QED
      BY <2>1
<1>2. CASE x[1] = w
  <2>1. x = <<w, x[2]>> /\ x[2] \in RowTokens /\ x[2] \in RowWrites \cap worker[w].todo
        /\ x[2] # s /\ worker[w].delivery = e
      BY <1>1, <1>2
  <2>2. Token(w, e, x[2])
      BY <2>1 DEF Token
  <2> QED
      BY <2>1, <2>2 DEF Tokens
<1> QED
    BY <1>1, <1>2

\* A statement that failed gives up its token, and may make one to record that.
LEMMA FailsTokens ==
    ASSUME Typed, NEW w \in Workers, NEW s \in worker[w].todo, NEW call,
           worker' = [worker EXCEPT ![w] = call], call.pc \in {"idle", "record"},
           call.todo # {} => call.delivery = worker[w].delivery,
           call.todo \subseteq (worker[w].todo \ {s}) \cup RecordFailure(2)
    PROVE  \A e \in Deliveries :
             Tokens(e)' \subseteq (Tokens(e) \ {<<w, s>>})
                 \cup (IF e = worker[w].delivery THEN {<<w, <<"failure", 2>>>>} ELSE {})
<1> SUFFICES ASSUME NEW e \in Deliveries, NEW x \in Tokens(e)'
             PROVE  x \in (Tokens(e) \ {<<w, s>>})
                 \cup (IF e = worker[w].delivery THEN {<<w, <<"failure", 2>>>>} ELSE {})
    OBVIOUS
<1>0. <<"count", 2>> \notin RowWrites
    BY DEF RowWrites
<1>1. \/ x \in Tokens(e) /\ x[1] # w
      \/ /\ x = <<w, x[2]>> /\ x[2] \in RowTokens /\ call.delivery = e
         /\ x[2] \in RowWrites \cap call.todo
  <2>1. \/ x \in Tokens(e) /\ x[1] # w
        \/ /\ x = <<w, x[2]>> /\ x[2] \in RowTokens
           /\ call.delivery = e
           /\ \/ x[2] = SendToken /\ call.pc \in {"claimed", "read", "send"}
              \/ x[2] \in RowWrites \cap call.todo
      BY OthersKeepTokens DEF Typed
  <2> QED
      BY <2>1
<1>2. CASE x[1] = w /\ x[2] # <<"failure", 2>>
  <2>1. x = <<w, x[2]>> /\ x[2] \in RowTokens /\ x[2] \in RowWrites \cap worker[w].todo
        /\ x[2] # s /\ worker[w].delivery = e
      BY <1>0, <1>1, <1>2 DEF RecordFailure
  <2>2. Token(w, e, x[2])
      BY <2>1 DEF Token
  <2> QED
      BY <2>1, <2>2 DEF Tokens
<1>3. CASE x[1] = w /\ x[2] = <<"failure", 2>>
    BY <1>1, <1>3
<1> QED
    BY <1>1, <1>2, <1>3

-----------------------------------------------------------------------------
(* A row has one token for its running lease and one for each overlap *)

\* A step that makes no token, starts or ends no lease and delivers nothing.
LEMMA QuietStep ==
    ASSUME Typed, Typed', TokensAreFew, DeliveredIsFree,
           \A e \in Deliveries : Tokens(e)' \subseteq Tokens(e),
           \A e \in Deliveries : row'[e].lock = row[e].lock /\ row'[e].success = row[e].success,
           Overlaps <= Overlaps'
    PROVE  TokensAreFew' /\ DeliveredIsFree'
<1>1. DeliveredIsFree'
    BY DEF DeliveredIsFree
<1>2. Overlaps \in Nat /\ Overlaps' \in Nat
    BY DEF Overlaps, Typed
<1>3. ASSUME NEW e \in Deliveries PROVE Cardinality(Tokens(e)') <= Overlaps' + Fresh(e)'
  <2>1. Cardinality(Tokens(e)') \in Nat /\ Cardinality(Tokens(e)') <= Cardinality(Tokens(e))
      BY TokensAreFinite, Within
  <2>2. Cardinality(Tokens(e)) <= Overlaps + Fresh(e) /\ Cardinality(Tokens(e)) \in Nat
      BY TokensAreFinite DEF TokensAreFew
  <2>3. Fresh(e)' = Fresh(e) /\ Fresh(e) \in Nat
      BY DEF Fresh
  <2> QED
      BY <1>2, <2>1, <2>2, <2>3
<1> QED
    BY <1>1, <1>3 DEF TokensAreFew

\* The calls' actions on the rows: what a step other than a claim, a statement and
\* the end of a lease may do to tokens and rows.
LEMMA QuietActions ==
    ASSUME Typed, CallsAreShaped,
           \/ \E w \in Workers, d \in Deliveries :
                DeliverWebhookEvent(w, d) \/ ProcessPending(w, d)
           \/ \E d \in Deliveries : QueueFundedWorkOrder(d) \/ WorkMovesOn(d) \/ BackoffEnds(d)
           \/ \E w \in Workers : ReadRow(w) \/ Crash(w)
           \/ Unsubscribe \/ UNCHANGED vars
    PROVE  /\ \A e \in Deliveries : Tokens(e)' \subseteq Tokens(e)
           /\ \A e \in Deliveries :
                row'[e].lock = row[e].lock /\ row'[e].success = row[e].success
           /\ Overlaps' = Overlaps
<1>0. row \in [Deliveries -> Row] /\ worker \in [Workers -> Call]
      /\ faults \in [crashes : Nat, errors : Nat, late : Nat]
    BY DEF Typed
<1>1. ASSUME NEW w \in Workers, NEW d \in Deliveries,
             DeliverWebhookEvent(w, d) \/ ProcessPending(w, d)
      PROVE  /\ \A e \in Deliveries : Tokens(e)' \subseteq Tokens(e)
             /\ \A e \in Deliveries :
                  row'[e].lock = row[e].lock /\ row'[e].success = row[e].success
             /\ Overlaps' = Overlaps
  <2> DEFINE call == [NoCall EXCEPT !.pc = "listed", !.delivery = d]
  <2>1. call.todo = {} /\ call.pc = "listed"
      BY NoCallFacts DEF Call
  <2>2. worker' = [worker EXCEPT ![w] = call]
      BY <1>1 DEF DeliverWebhookEvent, ProcessPending, List
  <2>3. \A e \in Deliveries : Tokens(e)' \subseteq Tokens(e)
    <3> HIDE DEF call
    <3> QED BY <2>1, <2>2, NoTokens
  <2>4. \A e \in Deliveries : row'[e].lock = row[e].lock /\ row'[e].success = row[e].success
      BY <1>0, <1>1 DEF DeliverWebhookEvent, ProcessPending, Insert, Row
  <2> QED
      BY <1>1, <2>3, <2>4 DEF DeliverWebhookEvent, ProcessPending, Overlaps
<1>2. ASSUME UNCHANGED <<worker, faults>>,
             \A e \in Deliveries : row'[e].lock = row[e].lock /\ row'[e].success = row[e].success
      PROVE  /\ \A e \in Deliveries : Tokens(e)' \subseteq Tokens(e)
             /\ \A e \in Deliveries :
                  row'[e].lock = row[e].lock /\ row'[e].success = row[e].success
             /\ Overlaps' = Overlaps
    BY <1>2 DEF Tokens, Token, Sending, Overlaps
<1>3. ASSUME NEW d \in Deliveries, QueueFundedWorkOrder(d) \/ WorkMovesOn(d) \/ BackoffEnds(d)
      PROVE  /\ UNCHANGED <<worker, faults>>
             /\ \A e \in Deliveries :
                  row'[e].lock = row[e].lock /\ row'[e].success = row[e].success
    BY <1>0, <1>3 DEF QueueFundedWorkOrder, Insert, WorkMovesOn, BackoffEnds, Row
<1>4. ASSUME NEW w \in Workers, ReadRow(w)
      PROVE  /\ \A e \in Deliveries : Tokens(e)' \subseteq Tokens(e)
             /\ row' = row /\ Overlaps' = Overlaps
  <2> DEFINE call == [worker[w] EXCEPT !.pc = "read", !.active = hook.active,
                                       !.attempts = row[worker[w].delivery].attempts]
  <2>1. worker' = [worker EXCEPT ![w] = call] /\ Sending(w) /\ worker[w].pc # "record"
      BY <1>4 DEF ReadRow, Sending
  <2>2. call.todo = {} /\ call.delivery = worker[w].delivery
      BY <1>0, <2>1 DEF CallsAreShaped, Call
  <2>3. \A e \in Deliveries : Tokens(e)' \subseteq Tokens(e)
    <3> HIDE DEF call
    <3> QED BY <2>1, <2>2, SameTokens
  <2> QED
      BY <1>4, <2>3 DEF ReadRow, Overlaps
<1>5. ASSUME NEW w \in Workers, Crash(w)
      PROVE  /\ \A e \in Deliveries : Tokens(e)' \subseteq Tokens(e)
             /\ row' = row /\ Overlaps' = Overlaps
  <2>1. \A e \in Deliveries : Tokens(e)' \subseteq Tokens(e)
      BY <1>5, NoCallFacts, NoTokens DEF Crash
  <2> QED
      BY <1>0, <1>5, <2>1 DEF Crash, Overlaps
<1> QED
    BY <1>1, <1>2, <1>3, <1>4, <1>5 DEF Unsubscribe, vars

\* A call records its outcome, sends on, or has its answer: its token is traded.
LEMMA RecordStep ==
    ASSUME Typed, CallsAreShaped, TokensAreFew, DeliveredIsFree, NEW w \in Workers, Sending(w),
           NEW statements, NEW s, Record(w, statements), OneWrite(statements, s),
           UNCHANGED <<row, faults>>
    PROVE  TokensAreFew' /\ DeliveredIsFree'
<1>1. DeliveredIsFree'
    BY DEF DeliveredIsFree
<1>2. ASSUME NEW e \in Deliveries PROVE Cardinality(Tokens(e)') <= Overlaps' + Fresh(e)'
  <2>1. Fresh(e)' = Fresh(e) /\ Overlaps' = Overlaps /\ Fresh(e) \in Nat /\ Overlaps \in Nat
      BY DEF Fresh, Overlaps, Typed
  <2>2. Cardinality(Tokens(e)) <= Overlaps + Fresh(e) /\ IsFiniteSet(Tokens(e))
        /\ Cardinality(Tokens(e)) \in Nat
      BY TokensAreFinite DEF TokensAreFew
  <2>3. Cardinality(Tokens(e)') \in Nat /\ Cardinality(Tokens(e)') <= Cardinality(Tokens(e))
    <3>1. CASE e = worker[w].delivery
      <4>1. <<w, SendToken>> \in Tokens(e)
            /\ Tokens(e)' \subseteq (Tokens(e) \ {<<w, SendToken>>}) \cup {<<w, s>>}
          BY <3>1, RecordTokens
      <4> QED
          BY <2>2, <4>1, Swapped
    <3>2. CASE e # worker[w].delivery
      <4>1. Tokens(e)' \subseteq Tokens(e)
          BY <3>2, RecordTokens
      <4> QED
          BY <2>2, <4>1, Within
    <3> QED
        BY <3>1, <3>2
  <2> QED
      BY <2>1, <2>2, <2>3
<1> QED
    BY <1>1, <1>2 DEF TokensAreFew

\* Only a claim makes a token without an overlap, and only of a row whose lease is over.
LEMMA ClaimStep ==
    ASSUME Typed, CallsAreShaped, TokensAreFew, DeliveredIsFree, NEW w \in Workers, Claim(w),
           Typed'
    PROVE  TokensAreFew' /\ DeliveredIsFree'
<1> DEFINE d == worker[w].delivery
<1>0. row \in [Deliveries -> Row] /\ worker[w] \in Call /\ d \in Deliveries
      /\ worker \in [Workers -> Call]
    BY DEF Typed, Call
<1>1. Overlaps \in Nat /\ Overlaps' = Overlaps
    BY DEF Claim, Overlaps, Typed
<1>2. CASE ~Claimable(d)
  <2>1. worker' = [worker EXCEPT ![w] = NoCall] /\ row' = row
      BY <1>2 DEF Claim
  <2>2. \A e \in Deliveries : Tokens(e)' \subseteq Tokens(e)
      BY <2>1, NoCallFacts, NoTokens
  <2> QED
      BY <1>1, <2>1, <2>2, QuietStep
<1>3. CASE Claimable(d)
  <2>1. worker[w].pc = "listed" /\ worker' = [worker EXCEPT ![w].pc = "claimed"]
        /\ row' = [row EXCEPT ![d].lock = "fresh"]
      BY <1>3 DEF Claim
  <2>2. row[d].lock # "fresh" /\ ~row[d].success /\ row'[d].lock = "fresh" /\ ~row'[d].success
      BY <1>0, <1>3, <2>1 DEF Claimable, Row
  <2>3. \A e \in Deliveries \ {d} : row'[e] = row[e]
      BY <1>0, <2>1
  <2>4. DeliveredIsFree'
      BY <2>2, <2>3 DEF DeliveredIsFree
  <2>5. ASSUME NEW e \in Deliveries PROVE Cardinality(Tokens(e)') <= Overlaps' + Fresh(e)'
    <3>1. Cardinality(Tokens(e)) <= Overlaps + Fresh(e) /\ IsFiniteSet(Tokens(e))
          /\ Cardinality(Tokens(e)) \in Nat
        BY TokensAreFinite DEF TokensAreFew
    <3>2. CASE e = d
      <4>1. Tokens(e)' \subseteq Tokens(e) \cup {<<w, SendToken>>}
          BY <2>1, <3>2, ClaimTokens
      <4>2. Cardinality(Tokens(e)') \in Nat /\ Cardinality(Tokens(e)') <= Cardinality(Tokens(e)) + 1
          BY <3>1, <4>1, Grown
      <4>3. Fresh(e) = 0 /\ Fresh(e)' = 1
          BY <2>2, <3>2 DEF Fresh
      <4> QED
          BY <1>1, <3>1, <4>2, <4>3
    <3>3. CASE e # d
      <4>1. Tokens(e)' \subseteq Tokens(e)
          BY <2>1, <3>3, ClaimTokens
      <4>2. Cardinality(Tokens(e)') \in Nat /\ Cardinality(Tokens(e)') <= Cardinality(Tokens(e))
          BY <3>1, <4>1, Within
      <4>3. Fresh(e)' = Fresh(e) /\ Fresh(e) \in Nat
          BY <2>3, <3>3 DEF Fresh
      <4> QED
          BY <1>1, <3>1, <4>2, <4>3
    <3> QED
        BY <3>2, <3>3
  <2> QED
      BY <2>4, <2>5 DEF TokensAreFew
<1> QED
    BY <1>2, <1>3

\* What a statement leaves of the leases: those it does not end stay.
LEMMA ApplyLeases ==
    ASSUME Typed, DeliveredIsFree, NEW w \in Workers, NEW s \in worker[w].todo,
           s \in Statements, Apply(w, s) \/ row' = row
    PROVE  /\ DeliveredIsFree'
           /\ \A e \in Deliveries : e # worker[w].delivery => row'[e] = row[e]
           /\ s \notin RowWrites => row' = row
           /\ \A e \in Deliveries : Fresh(e) \in Nat /\ Fresh(e)' \in Nat
                                    /\ Fresh(e)' <= Fresh(e) /\ Fresh(e) <= Fresh(e)' + 1
<1>0. row \in [Deliveries -> Row] /\ worker[w] \in Call /\ worker[w].delivery \in Deliveries
      /\ worker[w].attempts \in Nat
    BY DEF Typed, Call
<1>1. CASE row' = row
    BY <1>1 DEF DeliveredIsFree, Fresh
<1>2. CASE Apply(w, s) /\ s \notin RowWrites
  <2>1. row' = row
      BY <1>2 DEF Apply
  <2> QED
      BY <2>1 DEF DeliveredIsFree, Fresh
<1>3. CASE Apply(w, s) /\ s \in RowWrites
  <2> DEFINE d == worker[w].delivery
             r == RowAfter(row[d], s, worker[w].attempts)
  <2>1. row' = [row EXCEPT ![d] = r]
      BY <1>3, ApplyFacts
  <2>2. /\ r.lock = "fresh" => row[d].lock = "fresh"
        /\ r.success => row[d].success \/ r.lock # "fresh"
      BY <1>0, <1>3, RowAfterFacts
  <2> HIDE DEF r
  <2>3. row'[d] = r /\ \A e \in Deliveries : e # d => row'[e] = row[e]
      BY <1>0, <2>1
  <2>4. DeliveredIsFree'
      BY <1>0, <2>2, <2>3 DEF DeliveredIsFree
  <2>5. \A e \in Deliveries : row'[e].lock = "fresh" => row[e].lock = "fresh"
      BY <1>0, <2>2, <2>3
  <2> QED
      BY <1>3, <2>3, <2>4, <2>5 DEF Fresh
<1> QED
    BY <1>1, <1>2, <1>3

\* A statement that ends a lease gives up the token it held; one that fails is an
\* overlap.
LEMMA StatementStep ==
    ASSUME Typed, CallsAreShaped, TokensAreFew, DeliveredIsFree, NEW w \in Workers,
           Execute(w) \/ StatementFails(w)
    PROVE  TokensAreFew' /\ DeliveredIsFree'
<1>0. worker \in [Workers -> Call] /\ Overlaps \in Nat
    BY DEF Typed, Overlaps
<1>1. CASE Execute(w)
  <2>1. PICK s \in worker[w].todo :
          /\ s \in Statements /\ Apply(w, s)
          /\ worker' = [worker EXCEPT ![w] = worker'[w]] /\ worker'[w].pc \in {"idle", "record"}
          /\ worker'[w].todo = (worker[w].todo \ {s})
                                 \cup (IF s \in Reads THEN {<<"increment", s[2]>>} ELSE {})
          /\ worker'[w].todo # {} => worker'[w].delivery = worker[w].delivery
      BY <1>1, ExecuteFacts
  <2>2. worker'[w].todo \cap RowWrites \subseteq worker[w].todo \ {s}
    <3>1. \A k : <<"increment", k>> \notin RowWrites
        BY DEF RowWrites
    <3> QED
        BY <2>1, <3>1
  <2>3. \A e \in Deliveries : Tokens(e)' \subseteq Tokens(e) \ {<<w, s>>}
    <3> DEFINE call == worker'[w]
    <3>1. worker' = [worker EXCEPT ![w] = call] /\ call.pc \in {"idle", "record"}
          /\ (call.todo # {} => call.delivery = worker[w].delivery)
          /\ call.todo \cap RowWrites \subseteq worker[w].todo \ {s}
        BY <2>1, <2>2
    <3> HIDE DEF call
    <3> QED BY <3>1, ExecuteTokens
  <2>4. /\ DeliveredIsFree'
        /\ \A e \in Deliveries : e # worker[w].delivery => row'[e] = row[e]
        /\ s \notin RowWrites => row' = row
        /\ \A e \in Deliveries : Fresh(e) \in Nat /\ Fresh(e)' \in Nat
                                 /\ Fresh(e)' <= Fresh(e) /\ Fresh(e) <= Fresh(e)' + 1
      BY <2>1, ApplyLeases
  <2>5. Overlaps' = Overlaps
      BY <1>1 DEF Execute, Overlaps
  <2>6. ASSUME NEW e \in Deliveries PROVE Cardinality(Tokens(e)') <= Overlaps' + Fresh(e)'
    <3>1. Cardinality(Tokens(e)) <= Overlaps + Fresh(e) /\ IsFiniteSet(Tokens(e))
          /\ Cardinality(Tokens(e)) \in Nat
        BY TokensAreFinite DEF TokensAreFew
    <3>2. CASE e = worker[w].delivery /\ s \in RowWrites
      <4>1. <<w, s>> \in Tokens(e)
          BY <3>2 DEF Tokens, Token, RowTokens
      <4>2. Cardinality(Tokens(e)') \in Nat /\ Cardinality(Tokens(e)') <= Cardinality(Tokens(e)) - 1
          BY <2>3, <3>1, <4>1, Dropped
      <4> QED
          BY <1>0, <2>4, <2>5, <3>1, <4>2
    <3>3. CASE e # worker[w].delivery \/ s \notin RowWrites
      <4>1. Cardinality(Tokens(e)') \in Nat /\ Cardinality(Tokens(e)') <= Cardinality(Tokens(e))
        <5>1. Tokens(e)' \subseteq Tokens(e)
            BY <2>3
        <5> QED
            BY <3>1, <5>1, Within
      <4>2. Fresh(e)' = Fresh(e)
          BY <2>4, <3>3 DEF Fresh
      <4> QED
          BY <1>0, <2>4, <2>5, <3>1, <4>1, <4>2
    <3> QED
        BY <3>2, <3>3
  <2> QED
      BY <2>4, <2>6 DEF TokensAreFew
<1>2. CASE StatementFails(w)
  <2>1. PICK s \in worker[w].todo :
          /\ s \in Statements /\ (Apply(w, s) \/ (row' = row /\ hook' = hook))
          /\ worker' = [worker EXCEPT ![w] = worker'[w]] /\ worker'[w].pc \in {"idle", "record"}
          /\ worker'[w].todo \subseteq (worker[w].todo \ {s}) \cup RecordFailure(2)
          /\ worker'[w].todo # {} => worker'[w].delivery = worker[w].delivery
      BY <1>2, FailsFacts
  <2>2. \A e \in Deliveries :
          Tokens(e)' \subseteq (Tokens(e) \ {<<w, s>>})
              \cup (IF e = worker[w].delivery THEN {<<w, <<"failure", 2>>>>} ELSE {})
    <3> DEFINE call == worker'[w]
    <3>1. worker' = [worker EXCEPT ![w] = call] /\ call.pc \in {"idle", "record"}
          /\ (call.todo # {} => call.delivery = worker[w].delivery)
          /\ call.todo \subseteq (worker[w].todo \ {s}) \cup RecordFailure(2)
        BY <2>1
    <3> HIDE DEF call
    <3> QED BY <3>1, FailsTokens
  <2>3. /\ DeliveredIsFree'
        /\ \A e \in Deliveries : e # worker[w].delivery => row'[e] = row[e]
        /\ s \notin RowWrites => row' = row
        /\ \A e \in Deliveries : Fresh(e) \in Nat /\ Fresh(e)' \in Nat
                                 /\ Fresh(e)' <= Fresh(e) /\ Fresh(e) <= Fresh(e)' + 1
    <3>1. s \in worker[w].todo /\ s \in Statements /\ (Apply(w, s) \/ row' = row)
        BY <2>1
    <3> QED
        BY <3>1, ApplyLeases
  <2>4. Overlaps' = Overlaps + 1
    <3>1. faults' = [faults EXCEPT !.errors = @ + 1]
          /\ faults \in [crashes : Nat, errors : Nat, late : Nat]
        BY <1>2 DEF StatementFails, Typed
    <3>2. faults'.errors = faults.errors + 1 /\ faults'.late = faults.late
          /\ faults.errors \in Nat /\ faults.late \in Nat
        BY <3>1
    <3> QED
        BY <3>2 DEF Overlaps
  <2>5. ASSUME NEW e \in Deliveries PROVE Cardinality(Tokens(e)') <= Overlaps' + Fresh(e)'
    <3>1. Cardinality(Tokens(e)) <= Overlaps + Fresh(e) /\ IsFiniteSet(Tokens(e))
          /\ Cardinality(Tokens(e)) \in Nat
        BY TokensAreFinite DEF TokensAreFew
    <3>2. CASE e = worker[w].delivery /\ s \in RowWrites
      <4>1. <<w, s>> \in Tokens(e)
          BY <3>2 DEF Tokens, Token, RowTokens
      <4>2. Tokens(e)' \subseteq (Tokens(e) \ {<<w, s>>}) \cup {<<w, <<"failure", 2>>>>}
          BY <2>2, <3>2
      <4>3. Cardinality(Tokens(e)') \in Nat /\ Cardinality(Tokens(e)') <= Cardinality(Tokens(e))
          BY <3>1, <4>1, <4>2, Swapped
      <4> QED
          BY <1>0, <2>3, <2>4, <3>1, <4>3
    <3>3. CASE e # worker[w].delivery \/ s \notin RowWrites
      <4>1. Tokens(e)' \subseteq Tokens(e) \cup {<<w, <<"failure", 2>>>>}
          BY <2>2
      <4>2. Cardinality(Tokens(e)') \in Nat /\ Cardinality(Tokens(e)') <= Cardinality(Tokens(e)) + 1
          BY <3>1, <4>1, Grown
      <4>3. Fresh(e)' = Fresh(e)
          BY <2>3, <3>3 DEF Fresh
      <4> QED
          BY <1>0, <2>3, <2>4, <3>1, <4>2, <4>3
    <3> QED
        BY <3>2, <3>3
  <2> QED
      BY <2>3, <2>5 DEF TokensAreFew
<1> QED
    BY <1>1, <1>2

\* The end of a lease that a call outlives is an overlap; of any other, the row has no
\* token.
LEMMA LeaseStep ==
    ASSUME Typed, TokensAreFew, DeliveredIsFree, NEW d \in Deliveries, LeaseRunsOut(d)
    PROVE  TokensAreFew' /\ DeliveredIsFree'
<1>0. row \in [Deliveries -> Row] /\ Overlaps \in Nat
      /\ faults \in [crashes : Nat, errors : Nat, late : Nat]
    BY DEF Typed, Overlaps
<1>1. row' = [row EXCEPT ![d].lock = "stale"] /\ worker' = worker
    BY DEF LeaseRunsOut
<1>2. row'[d].lock = "stale" /\ row[d].lock = "fresh" /\ \A e \in Deliveries \ {d} : row'[e] = row[e]
    BY <1>0, <1>1 DEF LeaseRunsOut, Row
<1>3. DeliveredIsFree'
    BY <1>2 DEF DeliveredIsFree
<1>4. \A e \in Deliveries : Tokens(e)' = Tokens(e)
    BY <1>1 DEF Tokens, Token, Sending
<1>5. CASE \E w \in Workers : Holds(w, d)
  <2>1. Overlaps' = Overlaps + 1
      BY <1>0, <1>5 DEF LeaseRunsOut, Overlaps
  <2>2. ASSUME NEW e \in Deliveries PROVE Cardinality(Tokens(e)') <= Overlaps' + Fresh(e)'
    <3>1. Cardinality(Tokens(e)) <= Overlaps + Fresh(e) /\ Cardinality(Tokens(e)) \in Nat
        BY TokensAreFinite DEF TokensAreFew
    <3>2. Fresh(e) \in 0..1 /\ Fresh(e)' \in 0..1
        BY DEF Fresh
    <3> QED
        BY <1>0, <1>4, <2>1, <3>1, <3>2
  <2> QED
      BY <1>3, <2>2 DEF TokensAreFew
<1>6. CASE ~\E w \in Workers : Holds(w, d)
  <2>1. Overlaps' = Overlaps
      BY <1>6 DEF LeaseRunsOut, Overlaps
  <2>2. Tokens(d) = {}
    <3>1. ASSUME NEW x \in Tokens(d) PROVE FALSE
      <4>1. x[1] \in Workers /\ Token(x[1], d, x[2])
          BY DEF Tokens
      <4> QED
          BY <1>6, <4>1 DEF Token, Holds
    <3> QED
        BY <3>1
  <2>3. ASSUME NEW e \in Deliveries PROVE Cardinality(Tokens(e)') <= Overlaps' + Fresh(e)'
    <3>1. Fresh(e) \in 0..1 /\ Fresh(e)' \in 0..1
        BY DEF Fresh
    <3>2. CASE e = d
        BY <1>0, <1>4, <2>1, <2>2, <3>1, <3>2, FS_EmptySet
    <3>3. CASE e # d
      <4>1. Fresh(e)' = Fresh(e) /\ Cardinality(Tokens(e)) <= Overlaps + Fresh(e)
          BY <1>2, <3>3 DEF Fresh, TokensAreFew
      <4> QED
          BY <1>4, <2>1, <4>1
    <3> QED
        BY <3>2, <3>3
  <2> QED
      BY <1>3, <2>3 DEF TokensAreFew
<1> QED
    BY <1>5, <1>6

-----------------------------------------------------------------------------
(* Attempts are counted *)

\* Without overlaps a row has one token at most.
LEMMA OneToken ==
    ASSUME TokensAreFew, Overlaps = 0, NEW d \in Deliveries, NEW x \in Tokens(d),
           NEW y \in Tokens(d)
    PROVE  x = y
<1>1. IsFiniteSet(Tokens(d)) /\ Cardinality(Tokens(d)) \in Nat /\ Cardinality(Tokens(d)) <= 1
    BY TokensAreFinite DEF TokensAreFew, Fresh
<1>2. Tokens(d) # {}
    OBVIOUS
<1>3. Cardinality(Tokens(d)) = 1
    BY <1>1, <1>2, FS_EmptySet
<1>4. \E z : Tokens(d) = {z}
    BY <1>1, <1>3, FS_Singleton
<1> QED
    BY <1>4

\* A call that sends or counts has a token, and each has its own.
LEMMA TokenOf ==
    ASSUME NEW w \in Workers, NEW d \in Deliveries, worker[w].delivery = d
    PROVE  /\ Sending(w) => <<w, SendToken>> \in Tokens(d)
           /\ \A s \in RowWrites : s \in worker[w].todo => <<w, s>> \in Tokens(d)
           /\ SendToken \notin RowWrites /\ CountWrites \subseteq RowWrites
<1>1. SendToken \notin RowWrites /\ CountWrites \subseteq RowWrites
    BY DEF SendToken, RowWrites, CountWrites
<1> QED
    BY <1>1 DEF Tokens, Token, RowTokens

\* A step of one call that neither sends nor counts.
LEMMA UncountedStep ==
    ASSUME Typed, Counted, NEW w \in Workers, NEW call, worker' = [worker EXCEPT ![w] = call],
           \A e \in Deliveries : row'[e].attempts = row[e].attempts,
           posts' = posts, faults'.crashes = faults.crashes,
           \A e \in Deliveries : Counting(w, e) => Counting(w, e)',
           CopyIsCurrent(w)'
    PROVE  Counted'
<1>0. worker \in [Workers -> Call]
    BY DEF Typed
<1>1. \A v \in Workers : v # w => worker'[v] = worker[v]
    BY <1>0
<1>2. \A v \in Workers, e \in Deliveries : Counting(v, e) => Counting(v, e)'
    BY <1>1 DEF Counting
<1>3. ASSUME NEW e \in Deliveries
      PROVE  row'[e].attempts <= MaxAttempts /\ PostsAreCounted(e)'
    BY <1>2 DEF Counted, PostsAreCounted
<1>4. ASSUME NEW v \in Workers, v # w PROVE CopyIsCurrent(v)'
  <2>1. worker'[v] = worker[v] /\ worker[v].delivery \in Deliveries /\ CopyIsCurrent(v)
      BY <1>0, <1>1, <1>4 DEF Call, Counted
  <2> QED
      BY <2>1 DEF CopyIsCurrent, Counting, Sending
<1> QED
    BY <1>3, <1>4 DEF Counted

\* A call that neither sends nor counts has its copy right, whatever it is.
LEMMA IdleCopy ==
    ASSUME NEW w \in Workers, worker'[w].pc \notin {"claimed", "read", "send"},
           worker'[w].todo \cap CountWrites = {}
    PROVE  CopyIsCurrent(w)'
BY DEF CopyIsCurrent, Counting, Sending

\* A call with nothing to count does not count.
LEMMA NothingToCount ==
    ASSUME CallsAreShaped, NEW w \in Workers, worker[w].pc # "record"
    PROVE  \A e \in Deliveries : ~Counting(w, e)
BY DEF CallsAreShaped, Counting

\* A step that leaves the calls, the counts and the requests alone.
LEMMA StillCounted ==
    ASSUME Typed, Counted, UNCHANGED <<worker, posts>>, faults'.crashes = faults.crashes,
           \A e \in Deliveries : row'[e].attempts = row[e].attempts
    PROVE  Counted'
<1>0. \A w \in Workers : worker[w].delivery \in Deliveries
    BY DEF Typed, Call
<1>1. \A w \in Workers : CopyIsCurrent(w)'
    BY <1>0 DEF Counted, CopyIsCurrent, Counting, Sending
<1>2. \A e \in Deliveries : row'[e].attempts <= MaxAttempts /\ PostsAreCounted(e)'
    BY DEF Counted, PostsAreCounted, Counting
<1> QED
    BY <1>1, <1>2 DEF Counted

\* Listing, claiming, reading and checking the notice neither send nor count.
LEMMA SendingCounted ==
    ASSUME Typed, CallsAreShaped, Counted, NEW w \in Workers,
           \/ \E d \in Deliveries : DeliverWebhookEvent(w, d) \/ ProcessPending(w, d)
           \/ Claim(w) \/ ReadRow(w) \/ CheckNotice(w)
    PROVE  Counted'
<1>0. row \in [Deliveries -> Row] /\ worker \in [Workers -> Call] /\ worker[w] \in Call
      /\ worker[w].delivery \in Deliveries /\ CopyIsCurrent(w)
    BY DEF Typed, Call, Counted
<1>1. worker[w].pc # "record" /\ posts' = posts /\ faults' = faults
    BY DEF DeliverWebhookEvent, ProcessPending, Claim, ReadRow, CheckNotice
<1>2. \A e \in Deliveries : ~Counting(w, e)
    BY <1>1, NothingToCount
<1>3. worker[w].todo = {}
    BY <1>1 DEF CallsAreShaped
<1>4. ASSUME NEW call, worker' = [worker EXCEPT ![w] = call], CopyIsCurrent(w)',
             \A e \in Deliveries : row'[e].attempts = row[e].attempts
      PROVE  Counted'
    BY <1>1, <1>2, <1>4, UncountedStep
<1>5. ASSUME NEW d \in Deliveries, DeliverWebhookEvent(w, d) \/ ProcessPending(w, d)
      PROVE  Counted'
  <2> DEFINE call == [NoCall EXCEPT !.pc = "listed", !.delivery = d]
  <2>1. call.todo = {} /\ call.pc = "listed"
      BY NoCallFacts DEF Call
  <2>2. worker' = [worker EXCEPT ![w] = call]
      BY <1>5 DEF DeliverWebhookEvent, ProcessPending, List
  <2>3. CopyIsCurrent(w)'
    <3>1. worker'[w] = call
        BY <1>0, <2>2
    <3> HIDE DEF call
    <3> QED BY <2>1, <3>1, IdleCopy
  <2>4. \A e \in Deliveries : row'[e].attempts = row[e].attempts
      BY <1>0, <1>5 DEF DeliverWebhookEvent, ProcessPending, Insert, Row
  <2> HIDE DEF call
  <2> QED
      BY <1>4, <2>2, <2>3, <2>4
<1>6. CASE Claim(w) /\ ~Claimable(worker[w].delivery)
  <2>1. worker' = [worker EXCEPT ![w] = NoCall] /\ row' = row
      BY <1>6 DEF Claim
  <2>2. CopyIsCurrent(w)'
      BY <1>0, <2>1, NoCallFacts, IdleCopy
  <2> QED
      BY <1>4, <2>1, <2>2
<1>7. CASE Claim(w) /\ Claimable(worker[w].delivery)
  <2> DEFINE d == worker[w].delivery
             call == [worker[w] EXCEPT !.pc = "claimed"]
  <2>1. worker' = [worker EXCEPT ![w] = call] /\ row' = [row EXCEPT ![d].lock = "fresh"]
      BY <1>7 DEF Claim
  <2>2. worker'[w] = call /\ call.pc = "claimed" /\ call.todo = {} /\ call.delivery = d
      BY <1>0, <1>3, <2>1 DEF Call
  <2>3. \A e \in Deliveries : row'[e].attempts = row[e].attempts
      BY <1>0, <2>1 DEF Row
  <2>4. row'[d].attempts < MaxAttempts
      BY <1>0, <1>7, <2>3 DEF Claimable
  <2> HIDE DEF call
  <2>5. CopyIsCurrent(w)'
      BY <2>2, <2>4 DEF CopyIsCurrent, Counting
  <2> QED
      BY <1>4, <2>1, <2>3, <2>5
<1>8. CASE ReadRow(w)
  <2> DEFINE d == worker[w].delivery
             call == [worker[w] EXCEPT !.pc = "read", !.active = hook.active,
                                       !.attempts = row[d].attempts]
  <2>1. worker' = [worker EXCEPT ![w] = call] /\ row' = row /\ Sending(w)
      BY <1>8 DEF ReadRow, Sending
  <2>2. worker'[w] = call /\ call.pc = "read" /\ call.todo = {} /\ call.delivery = d
        /\ call.attempts = row[d].attempts
      BY <1>0, <1>3, <2>1 DEF Call
  <2>3. row[d].attempts < MaxAttempts
      BY <1>0, <2>1 DEF CopyIsCurrent
  <2> HIDE DEF call
  <2>4. CopyIsCurrent(w)'
      BY <2>1, <2>2, <2>3 DEF CopyIsCurrent, Counting
  <2> QED
      BY <1>4, <2>1, <2>4
<1>9. CASE CheckNotice(w)
  <2>1. row' = row /\ worker[w].pc = "read"
      BY <1>9 DEF CheckNotice
  <2>2. ASSUME NEW s \in {<<"suppress", 0>>, <<"inactive", 0>>}, Record(w, {s}) PROVE Counted'
    <3>1. {s} \in SUBSET Statements /\ {s} \cap CountWrites = {}
        BY Outcomes DEF CountWrites
    <3>2. /\ worker' = [worker EXCEPT ![w] = worker'[w]]
          /\ worker'[w].pc = "record" /\ worker'[w].todo = {s}
        BY <2>2, <3>1, RecordFacts
    <3>3. CopyIsCurrent(w)'
        BY <3>1, <3>2, IdleCopy
    <3> DEFINE call == worker'[w]
    <3>4. worker' = [worker EXCEPT ![w] = call]
        BY <3>2
    <3> HIDE DEF call
    <3> QED
        BY <1>4, <2>1, <3>3, <3>4
  <2>3. CASE worker' = [worker EXCEPT ![w].pc = "send"]
    <3> DEFINE call == [worker[w] EXCEPT !.pc = "send"]
    <3>1. worker' = [worker EXCEPT ![w] = call]
        BY <2>3
    <3>2. worker'[w] = call /\ call.pc = "send" /\ call.todo = {}
          /\ call.delivery = worker[w].delivery /\ call.attempts = worker[w].attempts
        BY <1>0, <1>3, <3>1 DEF Call
    <3> HIDE DEF call
    <3>3. CopyIsCurrent(w)'
        BY <1>0, <2>1, <3>2 DEF CopyIsCurrent, Counting, Sending
    <3> QED
        BY <1>4, <2>1, <3>1, <3>3
  <2> QED
      BY <1>9, <2>2, <2>3 DEF CheckNotice
<1> QED
    BY <1>5, <1>6, <1>7, <1>8, <1>9

\* A request, and a failure without one, are about to be counted; no other call is
\* about to count on the row.
LEMMA OutcomeCounted ==
    ASSUME Typed, CallsAreShaped, TokensAreFew, Counted, Overlaps = 0, NEW w \in Workers,
           Post(w) \/ NotSent(w)
    PROVE  Counted'
<1> PICK d \in Deliveries : worker[w].delivery = d
    BY DEF Typed, Call
<1>0. worker \in [Workers -> Call] /\ worker[w] \in Call /\ worker[w].delivery = d
      /\ posts \in [Deliveries -> Nat] /\ faults.crashes \in Nat
      /\ \A e \in Deliveries : row[e].attempts \in Nat /\ posts[e] \in Nat
    BY DEF Typed, Call, Row
<1>1. Sending(w) /\ row' = row /\ faults' = faults /\ worker[w].pc = "send"
    BY DEF Post, NotSent, Sending
<1>2. PICK statements \in SUBSET Statements :
        Record(w, statements) /\ statements \cap CountWrites # {}
  <2>1. <<"success", 0>> \in {<<"success", 0>>, <<"reset", 0>>} \cap CountWrites
        /\ \A k \in 1..2 : <<"failure", k>> \in RecordFailure(k) \cap CountWrites
    <3>1. ASSUME NEW k \in 1..2 PROVE <<"failure", k>> \in CountWrites
      <4>1. k = 1 \/ k = 2
          OBVIOUS
      <4> QED
          BY <4>1 DEF CountWrites
    <3> QED
        BY <3>1 DEF CountWrites, RecordFailure
  <2> QED
      BY <2>1, Outcomes DEF Post, NotSent
<1>3. /\ worker' = [worker EXCEPT ![w] = worker'[w]] /\ worker'[w].pc = "record"
      /\ worker'[w].todo = statements /\ worker'[w].delivery = d
      /\ worker'[w].attempts = worker[w].attempts
    BY <1>2, RecordFacts
<1>4. \A v \in Workers : v # w => worker'[v] = worker[v]
    BY <1>0, <1>3
<1>5. ASSUME NEW v \in Workers PROVE ~Counting(v, d)
  <2>1. SUFFICES ASSUME Counting(v, d) PROVE FALSE
      OBVIOUS
  <2>2. PICK s \in CountWrites : s \in worker[v].todo
      BY <2>1 DEF Counting
  <2>3. <<v, s>> \in Tokens(d) /\ <<w, SendToken>> \in Tokens(d) /\ s # SendToken
      BY <1>0, <1>1, <2>1, <2>2, TokenOf DEF Counting
  <2>4. <<v, s>> = <<w, SendToken>>
      BY <1>0, <2>3, OneToken
  <2> QED
      BY <2>3, <2>4
<1>6. posts[d] <= row[d].attempts + faults.crashes
    BY <1>0, <1>5 DEF Counted, PostsAreCounted
<1>7. Counting(w, d)'
    BY <1>2, <1>3 DEF Counting
<1>8. posts'[d] \in Nat /\ posts'[d] <= posts[d] + 1 /\ \A e \in Deliveries : e # d => posts'[e] = posts[e]
  <2>1. posts' = [posts EXCEPT ![d] = @ + 1] \/ posts' = posts
      BY <1>0 DEF Post, NotSent
  <2> QED
      BY <1>0, <2>1
<1>9. PostsAreCounted(d)'
  <2>1. posts'[d] <= row'[d].attempts + faults'.crashes + 1
      BY <1>0, <1>1, <1>6, <1>8
  <2> QED
      BY <1>7, <2>1 DEF PostsAreCounted
<1>10. ASSUME NEW e \in Deliveries, e # d PROVE PostsAreCounted(e)'
  <2>1. PostsAreCounted(e)
      BY DEF Counted
  <2>2. \A v \in Workers : Counting(v, e) => v # w
      BY <1>10 DEF Counting
  <2>3. \A v \in Workers : Counting(v, e) => Counting(v, e)'
      BY <1>4, <2>2 DEF Counting
  <2> QED
      BY <1>1, <1>8, <1>10, <2>1, <2>3 DEF PostsAreCounted
<1>11. ASSUME NEW v \in Workers PROVE CopyIsCurrent(v)'
  <2>1. CopyIsCurrent(v) /\ CopyIsCurrent(w)
      BY DEF Counted
  <2>2. CASE v = w
      BY <1>1, <1>3, <2>1, <2>2 DEF CopyIsCurrent, Sending
  <2>3. CASE v # w
      BY <1>1, <1>4, <2>1, <2>3 DEF CopyIsCurrent, Counting, Sending
  <2> QED
      BY <2>2, <2>3
<1> QED
    BY <1>1, <1>9, <1>10, <1>11 DEF Counted

\* A statement on the row is the only one there is, and counts what was to be counted.
LEMMA ExecuteCounted ==
    ASSUME Typed, CallsAreShaped, TokensAreFew, Counted, Overlaps = 0, NEW w \in Workers,
           Execute(w)
    PROVE  Counted'
<1> PICK d \in Deliveries : worker[w].delivery = d
    BY DEF Typed, Call
<1>0. worker \in [Workers -> Call] /\ worker[w] \in Call /\ row \in [Deliveries -> Row]
      /\ faults.crashes \in Nat /\ MaxAttempts \in Nat /\ CopyIsCurrent(w)
      /\ \A e \in Deliveries : row[e].attempts \in Nat /\ posts[e] \in Nat
    BY DeliveryAssumption DEF Typed, Call, Row, Counted
<1>1. PICK s \in worker[w].todo :
        /\ s \in Statements /\ Apply(w, s)
        /\ worker' = [worker EXCEPT ![w] = worker'[w]] /\ worker'[w].pc \in {"idle", "record"}
        /\ worker'[w].todo = (worker[w].todo \ {s})
                               \cup (IF s \in Reads THEN {<<"increment", s[2]>>} ELSE {})
        /\ worker'[w].todo # {} => /\ worker'[w].delivery = worker[w].delivery
                                   /\ worker'[w].attempts = worker[w].attempts
    BY ExecuteFacts
<1>2. posts' = posts /\ faults' = faults
    BY DEF Execute
<1>3. worker'[w].todo \cap CountWrites = (worker[w].todo \ {s}) \cap CountWrites
  <2>1. \A k : <<"increment", k>> \notin CountWrites
      BY DEF CountWrites
  <2> QED
      BY <1>1, <2>1
<1>4. CASE s \notin RowWrites
  <2>1. row' = row
      BY <1>1, <1>4 DEF Apply
  <2>2. s \notin CountWrites
      BY <1>4, TokenOf
  <2>3. \A e \in Deliveries : Counting(w, e)' = Counting(w, e)
    <3>1. worker'[w].todo \cap CountWrites = worker[w].todo \cap CountWrites
        BY <1>3, <2>2
    <3> QED
        BY <1>1, <3>1 DEF Counting
  <2>4. CopyIsCurrent(w)'
    <3>1. CASE worker'[w].todo \cap CountWrites = {}
        BY <1>1, <3>1, IdleCopy
    <3>2. CASE worker'[w].todo \cap CountWrites # {}
      <4>1. worker'[w].delivery = d /\ worker'[w].attempts = worker[w].attempts
          BY <1>1, <3>2
      <4>2. Counting(w, d)
          BY <1>3, <2>2, <3>2 DEF Counting
      <4>3. worker[w].attempts = row[d].attempts /\ row[d].attempts < MaxAttempts
          BY <1>0, <4>2 DEF CopyIsCurrent
      <4> QED
          BY <1>1, <2>1, <4>1, <4>3 DEF CopyIsCurrent, Sending
    <3> QED
        BY <3>1, <3>2
  <2> DEFINE call == worker'[w]
  <2>5. worker' = [worker EXCEPT ![w] = call]
      BY <1>1
  <2> HIDE DEF call
  <2> QED
      BY <1>2, <2>1, <2>3, <2>4, <2>5, UncountedStep
<1>5. CASE s \in RowWrites
  <2> DEFINE r == RowAfter(row[d], s, worker[w].attempts)
  <2>1. row' = [row EXCEPT ![d] = r]
      BY <1>1, <1>5, ApplyFacts
  <2>2. /\ r \in Row
        /\ s[1] \in {"success", "failure"} => r.attempts = worker[w].attempts + 1
        /\ s[1] = "inactive" => r.attempts = MaxAttempts
        /\ s[1] = "suppress" => r.attempts = row[d].attempts
    <3>1. row[d] \in Row /\ worker[w].attempts \in Nat
        BY <1>0 DEF Call
    <3> QED
        BY <1>5, <3>1, RowAfterFacts
  <2> HIDE DEF r
  <2>3. row'[d] = r /\ \A e \in Deliveries : e # d => row'[e] = row[e]
      BY <1>0, <2>1
  <2>4. <<w, s>> \in Tokens(d)
      BY <1>5, TokenOf
  <2>5. \A v \in Workers : worker[v].delivery = d =>
          ~Sending(v) /\ \A t \in RowWrites : t \in worker[v].todo => v = w /\ t = s
    <3>1. SUFFICES ASSUME NEW v \in Workers, worker[v].delivery = d
                   PROVE  ~Sending(v)
                          /\ \A t \in RowWrites : t \in worker[v].todo => v = w /\ t = s
        OBVIOUS
    <3>2. Sending(v) => <<v, SendToken>> = <<w, s>>
        BY <2>4, <3>1, TokenOf, OneToken
    <3>3. \A t \in RowWrites : t \in worker[v].todo => <<v, t>> = <<w, s>>
        BY <2>4, <3>1, TokenOf, OneToken
    <3>4. s # SendToken
        BY <1>5, TokenOf
    <3> QED
        BY <3>2, <3>3, <3>4
  <2>6. \A v \in Workers : v # w => worker'[v] = worker[v]
      BY <1>0, <1>1
  <2>7. \A v \in Workers : Counting(v, d) => v = w /\ s \in CountWrites
      BY <2>5, TokenOf DEF Counting
  <2>8. ASSUME NEW v \in Workers PROVE CopyIsCurrent(v)'
    <3>1. CASE v = w
      <4>1. worker'[w].todo \cap CountWrites = {}
        <5>1. \A t \in CountWrites : t \in worker[w].todo => t = s
            BY <2>5, TokenOf
        <5> QED
            BY <1>3, <5>1
      <4> QED
          BY <1>1, <3>1, <4>1, IdleCopy
    <3>2. CASE v # w /\ worker[v].delivery = d
      <4>1. ~Sending(v) /\ worker'[v] = worker[v]
          BY <2>5, <2>6, <3>2
      <4>2. worker[v].todo \cap CountWrites = {}
          BY <2>5, <3>2, TokenOf
      <4> QED
          BY <4>1, <4>2, IdleCopy DEF Sending
    <3>3. CASE v # w /\ worker[v].delivery # d
      <4>1. worker'[v] = worker[v] /\ worker[v].delivery \in Deliveries
            /\ row'[worker[v].delivery] = row[worker[v].delivery] /\ CopyIsCurrent(v)
          BY <1>0, <2>3, <2>6, <3>3 DEF Call, Counted
      <4> QED
          BY <4>1 DEF CopyIsCurrent, Counting, Sending
    <3> QED
        BY <3>1, <3>2, <3>3
  <2>9. row'[d].attempts <= MaxAttempts /\ posts'[d] <= row'[d].attempts + faults'.crashes
    <3>1. row[d].attempts <= MaxAttempts /\ PostsAreCounted(d)
        BY DEF Counted
    <3>2. CASE s \in CountWrites
      <4>1. Counting(w, d) /\ s[1] \in {"success", "failure"}
          BY <3>2 DEF Counting, CountWrites
      <4>2. worker[w].attempts = row[d].attempts /\ row[d].attempts < MaxAttempts
          BY <1>0, <4>1 DEF CopyIsCurrent
      <4>3. posts[d] <= row[d].attempts + faults.crashes + 1
          BY <1>0, <3>1 DEF PostsAreCounted
      <4>4. row'[d].attempts = row[d].attempts + 1
          BY <2>2, <2>3, <4>1, <4>2
      <4> QED
          BY <1>0, <1>2, <4>2, <4>3, <4>4
    <3>3. CASE s \notin CountWrites
      <4>1. posts[d] <= row[d].attempts + faults.crashes
          BY <2>7, <3>1, <3>3 DEF PostsAreCounted
      <4>2. s[1] \in {"inactive", "suppress"}
          BY <1>5, <3>3 DEF RowWrites, CountWrites
      <4>3. row'[d].attempts \in {MaxAttempts, row[d].attempts}
          BY <2>2, <2>3, <4>2
      <4> QED
          BY <1>0, <1>2, <3>1, <4>1, <4>3
    <3> QED
        BY <3>2, <3>3
  <2>10. ASSUME NEW e \in Deliveries, e # d
         PROVE  row'[e].attempts <= MaxAttempts /\ PostsAreCounted(e)'
    <3>1. \A v \in Workers : Counting(v, e) => v # w
        BY <2>10 DEF Counting
    <3>2. \A v \in Workers : Counting(v, e) => Counting(v, e)'
        BY <2>6, <3>1 DEF Counting
    <3>3. row[e].attempts <= MaxAttempts /\ PostsAreCounted(e)
        BY DEF Counted
    <3> QED
        BY <1>2, <2>3, <2>10, <3>2, <3>3 DEF PostsAreCounted
  <2> QED
      BY <2>8, <2>9, <2>10 DEF Counted, PostsAreCounted
<1> QED
    BY <1>4, <1>5

\* A crash loses the count of at most the attempt it ends.
LEMMA CrashCounted ==
    ASSUME Typed, Counted, NEW w \in Workers, Crash(w)
    PROVE  Counted'
<1>0. worker \in [Workers -> Call] /\ faults.crashes \in Nat
      /\ \A e \in Deliveries : row[e].attempts \in Nat /\ posts[e] \in Nat
    BY DEF Typed, Row
<1>1. worker' = [worker EXCEPT ![w] = NoCall] /\ row' = row /\ posts' = posts
      /\ faults'.crashes = faults.crashes + 1
    BY DEF Crash, Typed
<1>2. \A v \in Workers : v # w => worker'[v] = worker[v]
    BY <1>0, <1>1
<1>3. ASSUME NEW v \in Workers PROVE CopyIsCurrent(v)'
  <2>1. CASE v = w
      BY <1>0, <1>1, <2>1, NoCallFacts, IdleCopy
  <2>2. CASE v # w
      BY <1>1, <1>2, <2>2 DEF CopyIsCurrent, Counting, Sending, Counted
  <2> QED
      BY <2>1, <2>2
<1>4. ASSUME NEW e \in Deliveries
      PROVE  row'[e].attempts <= MaxAttempts /\ PostsAreCounted(e)'
  <2>1. row[e].attempts <= MaxAttempts /\ PostsAreCounted(e)
      BY DEF Counted
  <2>2. posts[e] <= row[e].attempts + faults.crashes + 1
      BY <1>0, <2>1 DEF PostsAreCounted
  <2> QED
      BY <1>0, <1>1, <2>1, <2>2 DEF PostsAreCounted
<1> QED
    BY <1>3, <1>4 DEF Counted

\* Every step keeps the counts, as long as there is no overlap.
LEMMA AttemptsStep ==
    Typed /\ CallsAreShaped /\ TokensAreFew /\ AttemptsAreCounted /\ [Next]_vars
      => AttemptsAreCounted'
<1> SUFFICES ASSUME Typed, CallsAreShaped, TokensAreFew, AttemptsAreCounted, [Next]_vars,
                    Overlaps' = 0
             PROVE  Counted'
    BY DEF AttemptsAreCounted
<1>0. row \in [Deliveries -> Row] /\ faults.errors \in Nat /\ faults.late \in Nat
      /\ faults \in [crashes : Nat, errors : Nat, late : Nat]
    BY DEF Typed
<1>1. ASSUME NEW w \in Workers PROVE ~StatementFails(w)
  <2>1. SUFFICES ASSUME StatementFails(w) PROVE FALSE
      OBVIOUS
  <2>2. faults' = [faults EXCEPT !.errors = @ + 1]
      BY <2>1 DEF StatementFails
  <2>3. faults'.errors = faults.errors + 1 /\ faults'.late = faults.late
      BY <1>0, <2>2
  <2> QED
      BY <1>0, <2>3 DEF Overlaps
<1>2. ASSUME NEW d \in Deliveries, LeaseRunsOut(d) PROVE faults' = faults
  <2>1. SUFFICES ASSUME faults' = [faults EXCEPT !.late = @ + 1] PROVE FALSE
      BY <1>2 DEF LeaseRunsOut
  <2>2. faults'.errors = faults.errors /\ faults'.late = faults.late + 1
      BY <1>0, <2>1
  <2> QED
      BY <1>0, <2>2 DEF Overlaps
<1>3. Overlaps = 0
  <2>1. CASE \E w \in Workers : Crash(w)
    <3>1. faults' = [faults EXCEPT !.crashes = @ + 1]
        BY <2>1 DEF Crash
    <3>2. faults'.errors = faults.errors /\ faults'.late = faults.late
        BY <1>0, <3>1
    <3> QED
        BY <3>2 DEF Overlaps
  <2>2. CASE ~\E w \in Workers : Crash(w)
    <3>1. faults' = faults
        BY <1>1, <1>2, <2>2
           DEF Next, Attempt, Claim, ReadRow, CheckNotice, Post, NotSent, Execute, Done, vars,
               QueueFundedWorkOrder, WorkMovesOn, BackoffEnds, DeliverWebhookEvent,
               ProcessPending, Unsubscribe
    <3> QED
        BY <3>1 DEF Overlaps
  <2> QED
      BY <2>1, <2>2
<1>4. Counted
    BY <1>3 DEF AttemptsAreCounted
<1>5. ASSUME NEW d \in Deliveries,
             QueueFundedWorkOrder(d) \/ WorkMovesOn(d) \/ LeaseRunsOut(d) \/ BackoffEnds(d)
      PROVE  Counted'
  <2>1. UNCHANGED <<worker, posts>> /\ faults' = faults
      BY <1>2, <1>5 DEF QueueFundedWorkOrder, WorkMovesOn, LeaseRunsOut, BackoffEnds
  <2>2. \A e \in Deliveries : row'[e].attempts = row[e].attempts
      BY <1>0, <1>5 DEF QueueFundedWorkOrder, Insert, WorkMovesOn, LeaseRunsOut, BackoffEnds, Row
  <2> QED
      BY <1>4, <2>1, <2>2, StillCounted
<1>6. CASE Unsubscribe \/ UNCHANGED vars
    BY <1>4, <1>6, StillCounted DEF Unsubscribe, vars
<1>7. ASSUME NEW w \in Workers, Attempt(w) \/ Crash(w) PROVE Counted'
    BY <1>3, <1>4, <1>7, SendingCounted, OutcomeCounted, ExecuteCounted, CrashCounted DEF Attempt
<1>8. ASSUME NEW w \in Workers, NEW d \in Deliveries,
             DeliverWebhookEvent(w, d) \/ ProcessPending(w, d)
      PROVE  Counted'
    BY <1>4, <1>8, SendingCounted
<1> QED
    BY <1>1, <1>5, <1>6, <1>7, <1>8 DEF Next, Done

-----------------------------------------------------------------------------
(* The failure counter invents nothing *)

\* A change of one call leaves the increments of the others.
LEMMA OthersKeepPending ==
    ASSUME Typed, NEW w \in Workers, NEW call, worker' = [worker EXCEPT ![w] = call],
           NEW x \in Pending'
    PROVE  \/ x \in Pending /\ x[1] # w
           \/ x = <<w, x[2]>> /\ x[2] \in Increments \cap call.todo
<1>0. worker \in [Workers -> Call]
    BY DEF Typed
<1>1. x \in Workers \X Increments /\ x = <<x[1], x[2]>> /\ x[1] \in Workers
      /\ x[2] \in worker'[x[1]].todo
    BY DEF Pending
<1>2. CASE x[1] = w
    BY <1>0, <1>1, <1>2
<1>3. CASE x[1] # w
    BY <1>0, <1>1, <1>3 DEF Pending
<1> QED
    BY <1>2, <1>3

\* What there is to know of the increments of a call and of its row statements.
LEMMA IncrementFacts ==
    /\ \A k \in 1..2 : <<"increment", k>> \in Increments \cap HookWrites
    /\ \A s \in HookWrites : s[1] = "reset" \/ (s[1] = "increment" /\ s = <<"increment", s[2]>>
                                                /\ s \in Increments /\ s[2] \in 1..2)
    /\ RecordFailure(2) \cap Increments = {<<"count", 2>>}
    /\ \A k \in 1..2 : RecordFailure(k) \cap Increments \subseteq {<<"count", k>>}
    /\ \A k, l : <<"increment", k>> \notin RecordFailure(l)
    /\ {<<"suppress", 0>>, <<"inactive", 0>>, <<"success", 0>>, <<"reset", 0>>}
         \cap Increments = {}
    /\ Reads \subseteq Increments /\ Reads \cap HookWrites = {}
    /\ \A s \in Reads : s = <<"count", s[2]>> /\ s[2] \in 1..2
<1>1. \A k \in 1..2 : k = 1 \/ k = 2
    OBVIOUS
<1>2. \A k \in 1..2 : <<"increment", k>> \in Increments \cap HookWrites
    BY <1>1 DEF Increments, HookWrites
<1>3. \A s \in HookWrites : s[1] = "reset" \/ (s[1] = "increment" /\ s = <<"increment", s[2]>>
                                               /\ s \in Increments /\ s[2] \in 1..2)
    BY DEF Increments, HookWrites
<1>4. <<"count", 2>> \in Increments /\ \A k : <<"failure", k>> \notin Increments
    BY DEF Increments, Reads
<1>5. RecordFailure(2) \cap Increments = {<<"count", 2>>}
      /\ \A k \in 1..2 : RecordFailure(k) \cap Increments \subseteq {<<"count", k>>}
    BY <1>4 DEF RecordFailure
<1>6. \A k, l : <<"increment", k>> \notin RecordFailure(l)
    BY DEF RecordFailure
<1>7. {<<"suppress", 0>>, <<"inactive", 0>>, <<"success", 0>>, <<"reset", 0>>}
        \cap Increments = {}
    BY DEF Increments, Reads
<1>8. Reads \subseteq Increments /\ Reads \cap HookWrites = {}
      /\ \A s \in Reads : s = <<"count", s[2]>> /\ s[2] \in 1..2
    BY DEF Increments, Reads, HookWrites
<1> QED
    BY <1>2, <1>3, <1>5, <1>6, <1>7, <1>8

\* The counter stays honest when the pending increments grow no more than the failures
\* they stand for, and each was read at a value that was honest.
LEMMA CounterFrame ==
    ASSUME Typed, Typed', FailuresAreReal, NEW w \in Workers, NEW call,
           worker' = [worker EXCEPT ![w] = call],
           Cardinality(Pending') \in Nat,
           Cardinality(Pending') + failed + faults.errors
             <= Cardinality(Pending) + failed' + faults'.errors,
           hook'.failure_count + Cardinality(Pending') <= failed' + faults'.errors,
           \A k \in 1..2 : <<"increment", k>> \in call.todo =>
             \/ <<"increment", k>> \in worker[w].todo /\ call.saw[k] = worker[w].saw[k]
             \/ call.saw[k] = hook
    PROVE  FailuresAreReal'
<1>0. worker \in [Workers -> Call] /\ failed \in Nat /\ faults.errors \in Nat
      /\ failed' \in Nat /\ faults'.errors \in Nat /\ hook.failure_count \in Nat
      /\ Cardinality(Pending) \in Nat
    BY TokensAreFinite DEF Typed, Counter
<1>1. ASSUME NEW v \in Workers, NEW k \in 1..2, <<"increment", k>> \in worker'[v].todo
      PROVE  worker'[v].saw[k].failure_count + Cardinality(Pending') <= failed' + faults'.errors
  <2>1. CASE v = w /\ call.saw[k] = hook
    <3>1. worker'[v].saw[k] = hook
        BY <1>0, <2>1
    <3>2. hook.failure_count + Cardinality(Pending) <= failed + faults.errors
        BY DEF FailuresAreReal
    <3> QED
        BY <1>0, <3>1, <3>2
  <2>2. CASE v # w \/ call.saw[k] # hook
    <3>1. worker'[v].saw[k] = worker[v].saw[k] /\ <<"increment", k>> \in worker[v].todo
        BY <1>0, <1>1, <2>2
    <3>2. worker[v].saw[k].failure_count + Cardinality(Pending) <= failed + faults.errors
        BY <3>1 DEF FailuresAreReal
    <3>3. worker[v].saw[k].failure_count \in Nat
      <4>1. worker[v] \in Call
          BY <1>0
      <4>2. worker[v].saw[k] \in Counter
          BY <4>1 DEF Call
      <4> QED
          BY <4>2 DEF Counter
    <3> QED
        BY <1>0, <3>1, <3>2, <3>3
  <2> QED
      BY <2>1, <2>2
<1> QED
    BY <1>1 DEF FailuresAreReal

\* A step of one call that has no increment to make and gets none.
LEMMA NoIncrement ==
    ASSUME Typed, Typed', FailuresAreReal, NEW w \in Workers, NEW call,
           worker' = [worker EXCEPT ![w] = call], call.todo \cap Increments = {},
           hook'.failure_count = hook.failure_count, failed <= failed',
           faults'.errors = faults.errors
    PROVE  FailuresAreReal'
<1>1. Pending' \subseteq Pending
    BY OthersKeepPending
<1>2. Cardinality(Pending') \in Nat /\ Cardinality(Pending') <= Cardinality(Pending)
      /\ Cardinality(Pending) \in Nat
    BY <1>1, TokensAreFinite, Within
<1>3. failed \in Nat /\ failed' \in Nat /\ faults.errors \in Nat /\ hook.failure_count \in Nat
    BY DEF Typed, Counter
<1>4. hook.failure_count + Cardinality(Pending) <= failed + faults.errors
    BY DEF FailuresAreReal
<1>5. \A k \in 1..2 : <<"increment", k>> \notin call.todo
    BY IncrementFacts
<1>6. /\ Cardinality(Pending') + failed + faults.errors
           <= Cardinality(Pending) + failed' + faults'.errors
      /\ hook'.failure_count + Cardinality(Pending') <= failed' + faults'.errors
    BY <1>2, <1>3, <1>4
<1> QED
    BY <1>2, <1>5, <1>6, CounterFrame

\* A failed attempt pays for the increment it starts.
LEMMA OutcomeHonest ==
    ASSUME Typed, Typed', CallsAreShaped, FailuresAreReal, NEW w \in Workers,
           Post(w) \/ NotSent(w)
    PROVE  FailuresAreReal'
<1>0. /\ hook' = hook /\ faults' = faults /\ failed \in Nat /\ faults.errors \in Nat
      /\ hook.failure_count \in Nat /\ worker \in [Workers -> Call] /\ worker[w].todo = {}
      /\ Cardinality(Pending) \in Nat /\ IsFiniteSet(Pending)
      /\ hook.failure_count + Cardinality(Pending) <= failed + faults.errors
    BY TokensAreFinite DEF Post, NotSent, Typed, Counter, CallsAreShaped, FailuresAreReal
<1>1. ASSUME NEW statements \in SUBSET Statements, Record(w, statements),
             statements \cap Increments = {}, failed' = failed
      PROVE  FailuresAreReal'
  <2> DEFINE call == worker'[w]
  <2>1. worker' = [worker EXCEPT ![w] = call] /\ call.todo = statements
      BY <1>1, RecordFacts
  <2> HIDE DEF call
  <2>2. hook'.failure_count = hook.failure_count /\ failed <= failed'
        /\ faults'.errors = faults.errors /\ call.todo \cap Increments = {}
      BY <1>0, <1>1, <2>1
  <2> QED
      BY <2>1, <2>2, NoIncrement
<1>2. ASSUME NEW k \in 1..2, Record(w, RecordFailure(k)), failed' = failed + 1
      PROVE  FailuresAreReal'
  <2> DEFINE call == worker'[w]
  <2>1. worker' = [worker EXCEPT ![w] = call] /\ call.todo = RecordFailure(k)
      BY <1>2, RecordFacts, Outcomes
  <2> HIDE DEF call
  <2>2. Pending' \subseteq Pending \cup {<<w, <<"count", k>>>>}
    <3>1. SUFFICES ASSUME NEW x \in Pending'
                   PROVE  x \in Pending \cup {<<w, <<"count", k>>>>}
        OBVIOUS
    <3>2. \/ x \in Pending /\ x[1] # w
          \/ x = <<w, x[2]>> /\ x[2] \in Increments \cap call.todo
        BY <2>1, OthersKeepPending
    <3> QED
        BY <2>1, <3>2, IncrementFacts
  <2>3. Cardinality(Pending') \in Nat /\ Cardinality(Pending') <= Cardinality(Pending) + 1
      BY <1>0, <2>2, Grown
  <2>4. \A l \in 1..2 : <<"increment", l>> \notin call.todo
      BY <2>1, IncrementFacts
  <2>5. /\ Cardinality(Pending') + failed + faults.errors
             <= Cardinality(Pending) + failed' + faults'.errors
        /\ hook'.failure_count + Cardinality(Pending') <= failed' + faults'.errors
      BY <1>0, <1>2, <2>3
  <2> QED
      BY <2>1, <2>3, <2>4, <2>5, CounterFrame
<1>3. CASE Record(w, {<<"success", 0>>, <<"reset", 0>>}) /\ failed' = failed
    BY <1>1, <1>3, Outcomes, IncrementFacts
<1>4. CASE \E k \in 1..2 : Record(w, RecordFailure(k)) /\ failed' = failed + 1
    BY <1>2, <1>4
<1> QED
    BY <1>3, <1>4 DEF Post, NotSent

\* An increment made gives up its place; one that is read takes the counter's value.
LEMMA ExecuteHonest ==
    ASSUME Typed, Typed', CallsAreShaped, FailuresAreReal, NEW w \in Workers, Execute(w)
    PROVE  FailuresAreReal'
<1>0. /\ failed' = failed /\ faults' = faults /\ failed \in Nat /\ faults.errors \in Nat
      /\ hook.failure_count \in Nat /\ hook \in Counter /\ worker \in [Workers -> Call]
      /\ worker[w].saw \in [1..2 -> Counter]
      /\ Cardinality(Pending) \in Nat /\ IsFiniteSet(Pending)
      /\ hook.failure_count + Cardinality(Pending) <= failed + faults.errors
    BY TokensAreFinite DEF Execute, Typed, Call, Counter, FailuresAreReal
<1>1. PICK s \in worker[w].todo :
        /\ s \in Statements /\ Apply(w, s) /\ worker' = [worker EXCEPT ![w] = worker'[w]]
        /\ worker'[w].todo = (worker[w].todo \ {s})
                               \cup (IF s \in Reads THEN {<<"increment", s[2]>>} ELSE {})
        /\ \A k \in 1..2 : <<"increment", k>> \in worker'[w].todo =>
             worker'[w].saw[k] = IF s = <<"count", k>> THEN hook ELSE worker[w].saw[k]
    BY ExecuteFacts
<1> DEFINE call == worker'[w]
<1>2. worker' = [worker EXCEPT ![w] = call]
      /\ call.todo = (worker[w].todo \ {s})
                       \cup (IF s \in Reads THEN {<<"increment", s[2]>>} ELSE {})
    BY <1>1
<1>3. \A k \in 1..2 : <<"increment", k>> \in call.todo =>
        \/ <<"increment", k>> \in worker[w].todo /\ call.saw[k] = worker[w].saw[k]
        \/ call.saw[k] = hook
  <2>1. SUFFICES ASSUME NEW k \in 1..2, <<"increment", k>> \in call.todo, call.saw[k] # hook
                 PROVE  <<"increment", k>> \in worker[w].todo /\ call.saw[k] = worker[w].saw[k]
      OBVIOUS
  <2>2. s # <<"count", k>> /\ call.saw[k] = worker[w].saw[k]
      BY <1>1, <2>1
  <2>3. s \in Reads => s[2] # k
      BY <2>2, IncrementFacts
  <2> QED
      BY <1>2, <2>1, <2>2, <2>3
<1> HIDE DEF call
<1>4. CASE s \in HookWrites /\ s[1] = "increment"
  <2>1. s \in Increments /\ s[2] \in 1..2 /\ s = <<"increment", s[2]>> /\ s \notin Reads
      BY <1>4, IncrementFacts
  <2>2. hook'.failure_count = worker[w].saw[s[2]].failure_count + 1
      BY <1>0, <1>1, <1>4, ApplyFacts, CounterAfterFacts
  <2>3. worker[w].saw[s[2]].failure_count + Cardinality(Pending) <= failed + faults.errors
        /\ worker[w].saw[s[2]].failure_count \in Nat
      BY <1>0, <2>1 DEF FailuresAreReal, Counter
  <2>4. <<w, s>> \in Pending
      BY <2>1 DEF Pending
  <2>5. Pending' \subseteq Pending \ {<<w, s>>}
    <3>1. SUFFICES ASSUME NEW x \in Pending' PROVE x \in Pending /\ x # <<w, s>>
        OBVIOUS
    <3>2. \/ x \in Pending /\ x[1] # w
          \/ x = <<w, x[2]>> /\ x[2] \in Increments \cap call.todo
        BY <1>2, OthersKeepPending
    <3>3. call.todo = worker[w].todo \ {s}
        BY <1>2, <2>1
    <3> QED
        BY <3>2, <3>3 DEF Pending
  <2>6. Cardinality(Pending') \in Nat /\ Cardinality(Pending') <= Cardinality(Pending) - 1
      BY <1>0, <2>4, <2>5, Dropped
  <2>7. /\ Cardinality(Pending') + failed + faults.errors
             <= Cardinality(Pending) + failed' + faults'.errors
        /\ hook'.failure_count + Cardinality(Pending') <= failed' + faults'.errors
      BY <1>0, <2>2, <2>3, <2>6
  <2> QED
      BY <1>2, <1>3, <2>6, <2>7, CounterFrame
<1>5. CASE ~(s \in HookWrites /\ s[1] = "increment")
  <2>1. hook'.failure_count <= hook.failure_count /\ hook'.failure_count \in Nat
    <3>1. CASE s \in HookWrites
        BY <1>0, <1>1, <1>5, <3>1, ApplyFacts, CounterAfterFacts, IncrementFacts
    <3>2. CASE s \notin HookWrites
        BY <1>0, <1>1, <3>2 DEF Apply
    <3> QED
        BY <3>1, <3>2
  <2>2. Cardinality(Pending') \in Nat /\ Cardinality(Pending') <= Cardinality(Pending)
    <3>1. ASSUME NEW x \in Pending'
          PROVE  \/ x \in Pending /\ x # <<w, s>>
                 \/ s \in Reads /\ x = <<w, <<"increment", s[2]>>>>
                 \/ x \in Pending /\ s \notin Reads
      <4>1. \/ x \in Pending /\ x[1] # w
            \/ x = <<w, x[2]>> /\ x[2] \in Increments \cap call.todo
          BY <1>2, OthersKeepPending
      <4> QED
          BY <1>2, <4>1 DEF Pending
    <3>2. CASE s \in Reads
      <4>1. <<w, s>> \in Pending
          BY <3>2, IncrementFacts DEF Pending
      <4>2. Pending' \subseteq (Pending \ {<<w, s>>}) \cup {<<w, <<"increment", s[2]>>>>}
          BY <3>1, <3>2
      <4> QED
          BY <1>0, <4>1, <4>2, Swapped
    <3>3. CASE s \notin Reads
      <4>1. Pending' \subseteq Pending
          BY <3>1, <3>3
      <4> QED
          BY <1>0, <4>1, Within
    <3> QED
        BY <3>2, <3>3
  <2>3. /\ Cardinality(Pending') + failed + faults.errors
             <= Cardinality(Pending) + failed' + faults'.errors
        /\ hook'.failure_count + Cardinality(Pending') <= failed' + faults'.errors
      BY <1>0, <2>1, <2>2
  <2> QED
      BY <1>2, <1>3, <2>2, <2>3, CounterFrame
<1> QED
    BY <1>4, <1>5

\* An error pays for the failure it may record, and for the statement it may have
\* executed.
LEMMA FailsHonest ==
    ASSUME Typed, Typed', CallsAreShaped, FailuresAreReal, NEW w \in Workers, StatementFails(w)
    PROVE  FailuresAreReal'
<1>0. /\ failed' = failed /\ faults'.errors = faults.errors + 1
      /\ failed \in Nat /\ faults.errors \in Nat
      /\ hook.failure_count \in Nat /\ hook \in Counter /\ worker \in [Workers -> Call]
      /\ worker[w].saw \in [1..2 -> Counter]
      /\ Cardinality(Pending) \in Nat /\ IsFiniteSet(Pending)
      /\ hook.failure_count + Cardinality(Pending) <= failed + faults.errors
  <2>1. faults' = [faults EXCEPT !.errors = @ + 1]
        /\ faults \in [crashes : Nat, errors : Nat, late : Nat]
      BY DEF StatementFails, Typed
  <2>2. faults'.errors = faults.errors + 1 /\ faults.errors \in Nat
      BY <2>1
  <2> QED
      BY <2>2, TokensAreFinite DEF StatementFails, Typed, Call, Counter, FailuresAreReal
<1>1. PICK s \in worker[w].todo :
        /\ s \in Statements /\ (Apply(w, s) \/ (row' = row /\ hook' = hook))
        /\ worker' = [worker EXCEPT ![w] = worker'[w]]
        /\ worker'[w].todo \subseteq (worker[w].todo \ {s}) \cup RecordFailure(2)
        /\ \A k \in 1..2 : <<"increment", k>> \in worker'[w].todo =>
             worker'[w].saw[k] = worker[w].saw[k]
    BY FailsFacts
<1> DEFINE call == worker'[w]
<1>2. worker' = [worker EXCEPT ![w] = call]
      /\ call.todo \subseteq (worker[w].todo \ {s}) \cup RecordFailure(2)
      /\ \A k \in 1..2 : <<"increment", k>> \in call.todo => call.saw[k] = worker[w].saw[k]
    BY <1>1
<1> HIDE DEF call
<1>3. \A k \in 1..2 : <<"increment", k>> \in call.todo =>
        <<"increment", k>> \in worker[w].todo /\ call.saw[k] = worker[w].saw[k]
    BY <1>2, IncrementFacts
<1>4. Pending' \subseteq (Pending \ {<<w, s>>}) \cup {<<w, <<"count", 2>>>>}
  <2>1. SUFFICES ASSUME NEW x \in Pending'
                 PROVE  x \in (Pending \ {<<w, s>>}) \cup {<<w, <<"count", 2>>>>}
      OBVIOUS
  <2>2. \/ x \in Pending /\ x[1] # w
        \/ x = <<w, x[2]>> /\ x[2] \in Increments \cap call.todo
      BY <1>2, OthersKeepPending
  <2>3. CASE x[1] = w /\ x[2] # <<"count", 2>>
    <3>1. x = <<w, x[2]>> /\ x[2] \in Increments /\ x[2] \in worker[w].todo \ {s}
        BY <1>2, <2>2, <2>3, IncrementFacts
    <3> QED
        BY <3>1 DEF Pending
  <2> QED
      BY <2>2, <2>3
<1>5. Cardinality(Pending') \in Nat /\ Cardinality(Pending') <= Cardinality(Pending) + 1
  <2>1. Pending' \subseteq Pending \cup {<<w, <<"count", 2>>>>}
      BY <1>4
  <2> QED
      BY <1>0, <2>1, Grown
<1>6. CASE Apply(w, s) /\ s \in HookWrites /\ s[1] = "increment"
  <2>1. s \in Increments /\ s[2] \in 1..2 /\ s = <<"increment", s[2]>>
      BY <1>6, IncrementFacts
  <2>2. hook'.failure_count = worker[w].saw[s[2]].failure_count + 1
      BY <1>0, <1>1, <1>6, ApplyFacts, CounterAfterFacts
  <2>3. worker[w].saw[s[2]].failure_count + Cardinality(Pending) <= failed + faults.errors
        /\ worker[w].saw[s[2]].failure_count \in Nat
      BY <1>0, <2>1 DEF FailuresAreReal, Counter
  <2>4. Cardinality(Pending') <= Cardinality(Pending)
    <3>1. <<w, s>> \in Pending
        BY <2>1 DEF Pending
    <3> QED
        BY <1>0, <1>4, <3>1, Swapped
  <2>5. /\ Cardinality(Pending') + failed + faults.errors
             <= Cardinality(Pending) + failed' + faults'.errors
        /\ hook'.failure_count + Cardinality(Pending') <= failed' + faults'.errors
      BY <1>0, <1>5, <2>2, <2>3, <2>4
  <2> QED
      BY <1>2, <1>3, <1>5, <2>5, CounterFrame
<1>7. CASE ~(Apply(w, s) /\ s \in HookWrites /\ s[1] = "increment")
  <2>1. hook'.failure_count <= hook.failure_count /\ hook'.failure_count \in Nat
    <3>1. CASE Apply(w, s) /\ s \in HookWrites
        BY <1>0, <1>1, <1>7, <3>1, ApplyFacts, CounterAfterFacts, IncrementFacts
    <3>2. CASE Apply(w, s) /\ s \notin HookWrites
        BY <1>0, <3>2 DEF Apply
    <3>3. CASE hook' = hook
        BY <1>0, <3>3
    <3> QED
        BY <1>1, <3>1, <3>2, <3>3
  <2>2. /\ Cardinality(Pending') + failed + faults.errors
             <= Cardinality(Pending) + failed' + faults'.errors
        /\ hook'.failure_count + Cardinality(Pending') <= failed' + faults'.errors
      BY <1>0, <1>5, <2>1
  <2> QED
      BY <1>2, <1>3, <1>5, <2>2, CounterFrame
<1> QED
    BY <1>6, <1>7

\* Every step keeps the counter honest.
LEMMA FailureStep ==
    Typed /\ Typed' /\ CallsAreShaped /\ FailuresAreReal /\ [Next]_vars => FailuresAreReal'
<1> SUFFICES ASSUME Typed, Typed', CallsAreShaped, FailuresAreReal, [Next]_vars
             PROVE  FailuresAreReal'
    OBVIOUS
<1>0. /\ worker \in [Workers -> Call] /\ failed \in Nat
      /\ faults \in [crashes : Nat, errors : Nat, late : Nat]
    BY DEF Typed
<1>1. ASSUME NEW w \in Workers, NEW call, worker' = [worker EXCEPT ![w] = call],
             call.todo \cap Increments = {}, UNCHANGED <<hook, failed>>,
             faults'.errors = faults.errors
      PROVE  FailuresAreReal'
  <2>1. hook'.failure_count = hook.failure_count /\ failed <= failed'
      BY <1>0, <1>1
  <2> QED
      BY <1>1, <2>1, NoIncrement
<1>2. ASSUME NEW w \in Workers, NEW d \in Deliveries,
             DeliverWebhookEvent(w, d) \/ ProcessPending(w, d)
      PROVE  FailuresAreReal'
  <2> DEFINE call == [NoCall EXCEPT !.pc = "listed", !.delivery = d]
  <2>1. call.todo \cap Increments = {}
      BY NoCallFacts DEF Call
  <2>2. worker' = [worker EXCEPT ![w] = call] /\ UNCHANGED <<hook, failed, faults>>
      BY <1>2 DEF DeliverWebhookEvent, ProcessPending, List
  <2> HIDE DEF call
  <2> QED
      BY <1>1, <2>1, <2>2
<1>3. ASSUME UNCHANGED <<worker, failed>>, faults'.errors = faults.errors,
             hook'.failure_count = hook.failure_count
      PROVE  FailuresAreReal'
    BY <1>3 DEF FailuresAreReal, Pending
<1>4. ASSUME NEW d \in Deliveries,
             QueueFundedWorkOrder(d) \/ WorkMovesOn(d) \/ LeaseRunsOut(d) \/ BackoffEnds(d)
      PROVE  FailuresAreReal'
  <2>1. UNCHANGED <<worker, hook, failed>>
      BY <1>4 DEF QueueFundedWorkOrder, WorkMovesOn, LeaseRunsOut, BackoffEnds
  <2>2. faults' = faults \/ faults' = [faults EXCEPT !.late = @ + 1]
      BY <1>4 DEF QueueFundedWorkOrder, WorkMovesOn, LeaseRunsOut, BackoffEnds
  <2> QED
      BY <1>0, <1>3, <2>1, <2>2
<1>5. CASE Unsubscribe \/ UNCHANGED vars
  <2>1. hook'.failure_count = hook.failure_count /\ UNCHANGED <<worker, failed, faults>>
      BY <1>5 DEF Unsubscribe, vars, Typed, Counter
  <2> QED
      BY <1>3, <2>1
<1>6. ASSUME NEW w \in Workers, Claim(w) \/ ReadRow(w) \/ CheckNotice(w) \/ Crash(w)
      PROVE  FailuresAreReal'
  <2>1. UNCHANGED <<hook, failed>> /\ faults'.errors = faults.errors
    <3>1. faults' = faults \/ faults' = [faults EXCEPT !.crashes = @ + 1]
        BY <1>6 DEF Claim, ReadRow, CheckNotice, Crash
    <3> QED
        BY <1>0, <1>6, <3>1 DEF Claim, ReadRow, CheckNotice, Crash
  <2>2. worker[w] \in Call /\ (worker[w].pc # "record" => worker[w].todo = {})
      BY <1>0 DEF CallsAreShaped
  <2>3. \E call : /\ worker' = [worker EXCEPT ![w] = call]
                  /\ call.todo \cap Increments = {}
    <3>1. CASE worker' = [worker EXCEPT ![w] = NoCall]
        BY <3>1, NoCallFacts
    <3>2. ASSUME NEW p, worker[w].pc # "record", worker' = [worker EXCEPT ![w].pc = p]
          PROVE  \E call : /\ worker' = [worker EXCEPT ![w] = call]
                           /\ call.todo \cap Increments = {}
      <4> DEFINE call == [worker[w] EXCEPT !.pc = p]
      <4>1. worker' = [worker EXCEPT ![w] = call] /\ call.todo \cap Increments = {}
          BY <2>2, <3>2 DEF Call
      <4> HIDE DEF call
      <4> QED
          BY <4>1
    <3>3. CASE ReadRow(w)
      <4> DEFINE call == [worker[w] EXCEPT !.pc = "read", !.active = hook.active,
                                           !.attempts = row[worker[w].delivery].attempts]
      <4>1. worker' = [worker EXCEPT ![w] = call] /\ call.todo \cap Increments = {}
          BY <2>2, <3>3 DEF Call, ReadRow
      <4> HIDE DEF call
      <4> QED
          BY <4>1
    <3>4. ASSUME NEW s \in {<<"suppress", 0>>, <<"inactive", 0>>}, Record(w, {s})
          PROVE  \E call : /\ worker' = [worker EXCEPT ![w] = call]
                           /\ call.todo \cap Increments = {}
        BY <3>4, RecordFacts, Outcomes, IncrementFacts
    <3> QED
        BY <1>6, <3>1, <3>2, <3>3, <3>4 DEF Claim, CheckNotice, Crash
  <2> QED
      BY <1>1, <2>1, <2>3
<1> QED
    BY <1>2, <1>4, <1>5, <1>6, OutcomeHonest, ExecuteHonest, FailsHonest DEF Next, Attempt, Done

-----------------------------------------------------------------------------
(* The theorems *)

\* Every step keeps the tokens few.
LEMMA TokenStep ==
    /\ Typed /\ Typed' /\ CallsAreShaped /\ TokensAreFew /\ DeliveredIsFree /\ [Next]_vars
    => TokensAreFew' /\ DeliveredIsFree'
<1> SUFFICES ASSUME Typed, Typed', CallsAreShaped, TokensAreFew, DeliveredIsFree, [Next]_vars
             PROVE  TokensAreFew' /\ DeliveredIsFree'
    OBVIOUS
<1>1. CASE \/ \E w \in Workers, d \in Deliveries :
                DeliverWebhookEvent(w, d) \/ ProcessPending(w, d)
           \/ \E d \in Deliveries : QueueFundedWorkOrder(d) \/ WorkMovesOn(d) \/ BackoffEnds(d)
           \/ \E w \in Workers : ReadRow(w) \/ Crash(w)
           \/ Unsubscribe \/ UNCHANGED vars
  <2>1. /\ \A e \in Deliveries : Tokens(e)' \subseteq Tokens(e)
        /\ \A e \in Deliveries :
             row'[e].lock = row[e].lock /\ row'[e].success = row[e].success
        /\ Overlaps' = Overlaps
      BY <1>1, QuietActions
  <2>2. Overlaps \in Nat
      BY DEF Overlaps, Typed
  <2> QED
      BY <2>1, <2>2, QuietStep
<1>2. ASSUME NEW w \in Workers, Claim(w) PROVE TokensAreFew' /\ DeliveredIsFree'
    BY <1>2, ClaimStep
<1>3. ASSUME NEW w \in Workers, CheckNotice(w) PROVE TokensAreFew' /\ DeliveredIsFree'
  <2>1. Sending(w) /\ UNCHANGED <<row, faults>> /\ worker[w].pc = "read"
      BY <1>3 DEF CheckNotice, Sending
  <2>2. CASE Record(w, {<<"suppress", 0>>}) \/ Record(w, {<<"inactive", 0>>})
      BY <2>1, <2>2, OneWriteEach, RecordStep
  <2>3. CASE worker' = [worker EXCEPT ![w].pc = "send"]
    <3> DEFINE call == [worker[w] EXCEPT !.pc = "send"]
    <3>1. worker' = [worker EXCEPT ![w] = call]
        BY <2>3
    <3>2. call.todo = {} /\ call.delivery = worker[w].delivery
        BY <2>1 DEF Typed, Call, CallsAreShaped
    <3>3. \A e \in Deliveries : Tokens(e)' \subseteq Tokens(e)
      <4> HIDE DEF call
      <4> QED BY <2>1, <3>1, <3>2, SameTokens
    <3>4. Overlaps' = Overlaps /\ Overlaps \in Nat /\ row' = row
        BY <2>1 DEF Overlaps, Typed
    <3> QED
        BY <3>3, <3>4, QuietStep
  <2> QED
      BY <1>3, <2>2, <2>3 DEF CheckNotice
<1>4. ASSUME NEW w \in Workers, Post(w) \/ NotSent(w) PROVE TokensAreFew' /\ DeliveredIsFree'
  <2>1. Sending(w) /\ UNCHANGED <<row, faults>>
      BY <1>4 DEF Post, NotSent, Sending
  <2>2. \E statements, s : Record(w, statements) /\ OneWrite(statements, s)
      BY <1>4, OneWriteEach DEF Post, NotSent
  <2> QED
      BY <2>1, <2>2, RecordStep
<1>5. ASSUME NEW w \in Workers, Execute(w) \/ StatementFails(w)
      PROVE  TokensAreFew' /\ DeliveredIsFree'
    BY <1>5, StatementStep
<1>6. ASSUME NEW d \in Deliveries, LeaseRunsOut(d) PROVE TokensAreFew' /\ DeliveredIsFree'
    BY <1>6, LeaseStep
<1> QED
    BY <1>1, <1>2, <1>3, <1>4, <1>5, <1>6 DEF Next, Attempt, Done

\* At the start no call runs, no request was made and nothing has failed.
LEMMA InitIInv == Init => IInv
<1> SUFFICES ASSUME Init PROVE IInv
    OBVIOUS
<1>1. worker = [w \in Workers |-> NoCall] /\ faults = [crashes |-> 0, errors |-> 0, late |-> 0]
      /\ failed = 0 /\ posts = [d \in Deliveries |-> 0]
      /\ hook = [failure_count |-> 0, active |-> TRUE]
    BY DEF Init
<1>2. \A w \in Workers : worker[w] = NoCall /\ worker[w].todo = {} /\ ~Sending(w)
    BY <1>1, NoCallFacts DEF Sending
<1>3. row \in [Deliveries -> Row] /\ \A d \in Deliveries :
        row[d].attempts = 0 /\ ~row[d].success /\ row[d].lock = "none"
    BY DEF Init, Row
<1>4. Typed
    BY <1>1, <1>3, NoCallFacts DEF Init, Typed, Counter
<1>5. CallsAreShaped /\ DeliveredIsFree
    BY <1>2, <1>3 DEF CallsAreShaped, DeliveredIsFree
<1>6. TokensAreFew
  <2>1. ASSUME NEW d \in Deliveries PROVE Tokens(d) = {}
      BY <1>2 DEF Tokens, Token
  <2>2. Overlaps = 0 /\ \A d \in Deliveries : Fresh(d) = 0
      BY <1>1, <1>3 DEF Overlaps, Fresh
  <2> QED
      BY <2>1, <2>2, FS_EmptySet DEF TokensAreFew
<1>7. AttemptsAreCounted
  <2>1. \A w \in Workers : CopyIsCurrent(w)
    <3>1. \A w \in Workers : worker[w].pc = "idle"
        BY <1>2, NoCallFacts
    <3> QED
        BY <1>2, <3>1 DEF CopyIsCurrent, Counting
  <2>2. \A d \in Deliveries : row[d].attempts <= MaxAttempts /\ PostsAreCounted(d)
      BY <1>1, <1>3, DeliveryAssumption DEF PostsAreCounted
  <2> QED
      BY <2>1, <2>2 DEF AttemptsAreCounted, Counted
<1>8. FailuresAreReal
  <2>1. Pending = {}
      BY <1>2 DEF Pending
  <2> QED
      BY <1>1, <1>2, <2>1, FS_EmptySet DEF FailuresAreReal
<1> QED
    BY <1>4, <1>5, <1>6, <1>7, <1>8 DEF IInv

\* The invariant is inductive.
LEMMA Inductive == IInv /\ [Next]_vars => IInv'
<1> SUFFICES ASSUME IInv, [Next]_vars PROVE IInv'
    OBVIOUS
<1>1. Typed /\ CallsAreShaped /\ TokensAreFew /\ DeliveredIsFree /\ AttemptsAreCounted
      /\ FailuresAreReal
    BY DEF IInv
<1>2. Typed' /\ CallsAreShaped'
    BY <1>1, TypeStep
<1>3. TokensAreFew' /\ DeliveredIsFree'
    BY <1>1, <1>2, TokenStep
<1>4. AttemptsAreCounted'
    BY <1>1, AttemptsStep
<1>5. FailuresAreReal'
    BY <1>1, <1>2, FailureStep
<1> QED
    BY <1>2, <1>3, <1>4, <1>5 DEF IInv

\* The inductive invariant holds throughout.
LEMMA Invariance == Spec => []IInv
<1> QED
    BY InitIInv, Inductive, PTL DEF Spec

\* The variables keep their types, and without overlaps attempts never passes
\* MAX_DELIVERY_ATTEMPTS (attemptWebhookDelivery reads it after its claim).
THEOREM Types == Spec => []TypeOK
<1>1. IInv => TypeOK
    BY DEF IInv, TypeOK, AttemptsAreCounted, Counted
<1> QED
    BY <1>1, Invariance, PTL

\* A row is sent by one call at a time, and by none once delivered, but for one more
\* for each statement that failed and each lease that was outlived.
THEOREM SendersAreFew == Spec => []OneSender
<1>1. IInv => OneSender
  <2> SUFFICES ASSUME IInv, NEW d \in Deliveries
               PROVE  Cardinality(Senders(d)) + (IF row[d].success THEN 1 ELSE 0) <= 1 + Overlaps
      BY DEF OneSender
  <2>1. Cardinality(Tokens(d)) <= Overlaps + Fresh(d) /\ IsFiniteSet(Tokens(d))
        /\ Cardinality(Tokens(d)) \in Nat /\ Overlaps \in Nat
      BY TokensAreFinite DEF IInv, TokensAreFew, Overlaps, Typed
  <2>2. Cardinality(Senders(d)) \in Nat /\ Cardinality(Senders(d)) <= Cardinality(Tokens(d))
    <3> DEFINE f == [w \in Senders(d) |-> <<w, SendToken>>]
    <3>1. \A w \in Senders(d) : <<w, SendToken>> \in Tokens(d)
        BY TokenOf DEF Senders
    <3>2. f \in Injection(Senders(d), Tokens(d))
      <4>1. f \in [Senders(d) -> Tokens(d)]
          BY <3>1
      <4>2. \A v, w \in Senders(d) : f[v] = f[w] => v = w
          OBVIOUS
      <4> QED
          BY <4>1, <4>2 DEF Injection, IsInjective
    <3>3. IsFiniteSet(Senders(d)) /\ Cardinality(Senders(d)) <= Cardinality(Tokens(d))
        BY <2>1, <3>2, FS_Injection
    <3> QED
        BY <3>3, FS_CardinalityType
  <2>3. row[d].success => Fresh(d) = 0
      BY DEF IInv, DeliveredIsFree, Fresh
  <2>4. Fresh(d) \in 0..1
      BY DEF Fresh
  <2> QED
      BY <2>1, <2>2, <2>3, <2>4
<1> QED
    BY <1>1, Invariance, PTL

\* Without overlaps the endpoint is sent a delivery at most MAX_DELIVERY_ATTEMPTS times,
\* and once more for each crash.
THEOREM RequestsAreBounded == Spec => []PostsAreBounded
<1>1. IInv => PostsAreBounded
  <2> SUFFICES ASSUME IInv, Overlaps = 0, NEW d \in Deliveries
               PROVE  posts[d] <= MaxAttempts + faults.crashes
      BY DEF PostsAreBounded
  <2>1. posts[d] \in Nat /\ row[d].attempts \in Nat /\ faults.crashes \in Nat
        /\ MaxAttempts \in Nat
      BY DeliveryAssumption DEF IInv, Typed, Row
  <2>2. Counted
      BY DEF IInv, AttemptsAreCounted
  <2>3. row[d].attempts <= MaxAttempts
      BY <2>2 DEF Counted
  <2>4. CASE posts[d] <= row[d].attempts + faults.crashes
      BY <2>1, <2>3, <2>4
  <2>5. ASSUME NEW w \in Workers, Counting(w, d), posts[d] <= row[d].attempts + faults.crashes + 1
        PROVE  posts[d] <= MaxAttempts + faults.crashes
    <3>1. row[d].attempts < MaxAttempts
        BY <2>2, <2>5 DEF Counted, CopyIsCurrent, Counting
    <3> QED
        BY <2>1, <2>5, <3>1
  <2> QED
      BY <2>2, <2>4, <2>5 DEF Counted, PostsAreCounted
<1> QED
    BY <1>1, Invariance, PTL

\* The failure counter never exceeds the attempts that failed and the errors met while
\* recording outcomes, whatever reads and writes interleave.
THEOREM FailuresAreNotInvented == Spec => []FailureCountIsReal
<1>1. IInv => FailureCountIsReal
  <2> SUFFICES ASSUME IInv PROVE FailureCountIsReal
      OBVIOUS
  <2>1. hook.failure_count \in Nat /\ failed \in Nat /\ faults.errors \in Nat
      BY DEF IInv, Typed, Counter
  <2>2. hook.failure_count + Cardinality(Pending) <= failed + faults.errors
      BY DEF IInv, FailuresAreReal
  <2> QED
      BY <2>1, <2>2, TokensAreFinite DEF FailureCountIsReal
<1> QED
    BY <1>1, Invariance, PTL

\* An increment still to be made was pending before the step, with the same read, or
\* reads the subscription as it was before the step.
LEMMA IncrementsCarry ==
    ASSUME Typed, CallsAreShaped, [Next]_vars, NEW w \in Workers, NEW k \in 1..2,
           <<"increment", k>> \in worker'[w].todo
    PROVE  \/ <<"increment", k>> \in worker[w].todo /\ worker'[w].saw[k] = worker[w].saw[k]
           \/ worker'[w].saw[k] = hook
<1> DEFINE Goal == \/ <<"increment", k>> \in worker[w].todo
                      /\ worker'[w].saw[k] = worker[w].saw[k]
                   \/ worker'[w].saw[k] = hook
<1>0. worker \in [Workers -> Call] /\ \A v \in Workers : worker[v] \in Call
    BY DEF Typed
<1>1. ASSUME worker' = worker PROVE Goal
    BY <1>1
<1>2. ASSUME NEW v \in Workers, NEW call, worker' = [worker EXCEPT ![v] = call],
             <<"increment", k>> \notin call.todo
      PROVE  Goal
  <2>1. v # w
      BY <1>0, <1>2
  <2> QED
      BY <1>0, <1>2, <2>1
<1>3. ASSUME NEW v \in Workers, NEW d \in Deliveries, List(v, d) PROVE Goal
  <2> DEFINE call == [NoCall EXCEPT !.pc = "listed", !.delivery = d]
  <2>1. worker' = [worker EXCEPT ![v] = call] /\ <<"increment", k>> \notin call.todo
      BY <1>3, NoCallFacts DEF List, Call
  <2> HIDE DEF call, Goal
  <2> QED
      BY <1>2, <2>1
<1>4. ASSUME NEW v \in Workers, NEW statements \in SUBSET Statements, Record(v, statements),
             <<"increment", k>> \notin statements
      PROVE  Goal
  <2>1. worker' = [worker EXCEPT ![v] = worker'[v]] /\ worker'[v].todo = statements
      BY <1>4, RecordFacts
  <2> HIDE DEF Goal
  <2> QED
      BY <1>2, <1>4, <2>1
<1>5. ASSUME NEW v \in Workers, Execute(v) PROVE Goal
  <2>1. PICK s \in worker[v].todo :
          /\ worker' = [worker EXCEPT ![v] = worker'[v]]
          /\ worker'[v].todo = (worker[v].todo \ {s})
                                 \cup (IF s \in Reads THEN {<<"increment", s[2]>>} ELSE {})
          /\ \A j \in 1..2 : <<"increment", j>> \in worker'[v].todo =>
               worker'[v].saw[j] = IF s = <<"count", j>> THEN hook ELSE worker[v].saw[j]
      BY <1>5, ExecuteFacts
  <2>2. CASE v # w
      BY <1>0, <2>1, <2>2
  <2>3. CASE v = w
    <3>1. CASE s = <<"count", k>>
        BY <2>1, <2>3, <3>1
    <3>2. CASE s # <<"count", k>>
      <4>1. s \in Reads => s[2] # k
          BY <3>2, IncrementFacts
      <4>2. <<"increment", k>> \in worker[w].todo
          BY <2>1, <2>3, <4>1
      <4> QED
          BY <2>1, <2>3, <3>2, <4>2
    <3> QED
        BY <3>1, <3>2
  <2> QED
      BY <2>2, <2>3
<1>6. ASSUME NEW v \in Workers, StatementFails(v) PROVE Goal
  <2>1. PICK s \in worker[v].todo :
          /\ worker' = [worker EXCEPT ![v] = worker'[v]]
          /\ worker'[v].todo \subseteq (worker[v].todo \ {s}) \cup RecordFailure(2)
          /\ \A j \in 1..2 : <<"increment", j>> \in worker'[v].todo =>
               worker'[v].saw[j] = worker[v].saw[j]
      BY <1>6, FailsFacts
  <2>2. <<"increment", k>> \notin RecordFailure(2)
      BY IncrementFacts
  <2> QED
      BY <1>0, <2>1, <2>2
<1>7. ASSUME NEW v \in Workers, Claim(v) \/ ReadRow(v) \/ CheckNotice(v) \/ Crash(v)
      PROVE  Goal
  <2>1. worker[v].pc # "record" => worker[v].todo = {}
      BY DEF CallsAreShaped
  <2>2. CASE worker' = [worker EXCEPT ![v] = NoCall]
    <3>1. <<"increment", k>> \notin NoCall.todo
        BY NoCallFacts
    <3> HIDE DEF Goal
    <3> QED
        BY <1>2, <2>2, <3>1
  <2>3. ASSUME NEW p, worker[v].pc # "record", worker' = [worker EXCEPT ![v].pc = p]
        PROVE  Goal
    <3> DEFINE call == [worker[v] EXCEPT !.pc = p]
    <3>1. worker' = [worker EXCEPT ![v] = call] /\ <<"increment", k>> \notin call.todo
        BY <1>0, <2>1, <2>3 DEF Call
    <3> HIDE DEF call, Goal
    <3> QED
        BY <1>2, <3>1
  <2>4. CASE ReadRow(v)
    <3> DEFINE call == [worker[v] EXCEPT !.pc = "read", !.active = hook.active,
                                         !.attempts = row[worker[v].delivery].attempts]
    <3>1. worker' = [worker EXCEPT ![v] = call] /\ <<"increment", k>> \notin call.todo
        BY <1>0, <2>1, <2>4 DEF Call, ReadRow
    <3> HIDE DEF call, Goal
    <3> QED
        BY <1>2, <3>1
  <2>5. ASSUME NEW s \in {<<"suppress", 0>>, <<"inactive", 0>>}, Record(v, {s}) PROVE Goal
    <3>1. <<"increment", k>> \notin {s} /\ {s} \in SUBSET Statements
        BY Outcomes
    <3> HIDE DEF Goal
    <3> QED
        BY <1>4, <2>5, <3>1
  <2> HIDE DEF Goal
  <2> QED
      BY <1>7, <2>2, <2>3, <2>4, <2>5 DEF Claim, CheckNotice, Crash
<1>8. ASSUME NEW v \in Workers, Post(v) \/ NotSent(v) PROVE Goal
  <2>1. <<"increment", k>> \notin {<<"success", 0>>, <<"reset", 0>>}
        /\ \A l : <<"increment", k>> \notin RecordFailure(l)
      BY IncrementFacts
  <2> HIDE DEF Goal
  <2> QED
      BY <1>4, <1>8, <2>1, Outcomes DEF Post, NotSent
<1>9. ASSUME NEW d \in Deliveries,
             QueueFundedWorkOrder(d) \/ WorkMovesOn(d) \/ LeaseRunsOut(d) \/ BackoffEnds(d)
      PROVE  Goal
  <2>1. worker' = worker
      BY <1>9 DEF QueueFundedWorkOrder, WorkMovesOn, LeaseRunsOut, BackoffEnds
  <2> HIDE DEF Goal
  <2> QED
      BY <1>1, <2>1
<1>10. ASSUME Unsubscribe \/ UNCHANGED vars PROVE Goal
  <2>1. worker' = worker
      BY <1>10 DEF Unsubscribe, vars
  <2> HIDE DEF Goal
  <2> QED
      BY <1>1, <2>1
<1>11. ASSUME NEW v \in Workers, NEW d \in Deliveries,
              DeliverWebhookEvent(v, d) \/ ProcessPending(v, d)
       PROVE  Goal
  <2> HIDE DEF Goal
  <2> QED
      BY <1>3, <1>11 DEF DeliverWebhookEvent, ProcessPending
<1> HIDE DEF Goal
<1>12. Goal
    BY <1>5, <1>6, <1>7, <1>8, <1>9, <1>10, <1>11 DEF Next, Attempt, Done
<1> QED
    BY <1>12 DEF Goal

\* The step that makes a stopped subscription active again executes an increment, pending
\* until then, that had read it active.
LEMMA RevivalStep ==
    ASSUME IInv, [Next]_vars, ~hook.active, hook'.active
    PROVE  \E w \in Workers, k \in 1..2 :
             /\ <<"increment", k>> \in worker[w].todo /\ worker[w].saw[k].active
             /\ <<"increment", k>> \notin worker'[w].todo
<1>1. Typed
    BY DEF IInv
<1>2. PICK w \in Workers : Execute(w) \/ StatementFails(w)
  <2>1. hook' # hook
      OBVIOUS
  <2>2. CASE Unsubscribe
      BY <1>1, <2>2 DEF Unsubscribe, Typed, Counter
  <2> QED
      BY <2>1, <2>2
         DEF Next, Attempt, Claim, ReadRow, CheckNotice, Post, NotSent, Crash, Done, vars,
             QueueFundedWorkOrder, WorkMovesOn, LeaseRunsOut, BackoffEnds,
             DeliverWebhookEvent, ProcessPending
<1>3. PICK s \in worker[w].todo :
        /\ s \in Statements /\ (Apply(w, s) \/ hook' = hook)
        /\ \/ worker'[w].todo = (worker[w].todo \ {s})
                                  \cup (IF s \in Reads THEN {<<"increment", s[2]>>} ELSE {})
           \/ worker'[w].todo \subseteq (worker[w].todo \ {s}) \cup RecordFailure(2)
  <2>1. CASE Execute(w)
      BY <1>1, <2>1, ExecuteFacts
  <2>2. CASE StatementFails(w)
      BY <1>1, <2>2, FailsFacts
  <2> QED
      BY <1>2, <2>1, <2>2
<1>4. hook \in Counter /\ worker[w].saw \in [1..2 -> Counter]
    BY <1>1 DEF Typed, Call
<1>5. s \in HookWrites /\ hook' = CounterAfter(hook, s, worker[w].saw)
    BY <1>3 DEF Apply
<1>6. s[1] = "increment" /\ s[2] \in 1..2 /\ worker[w].saw[s[2]].active
    BY <1>4, <1>5, CounterAfterFacts, IncrementFacts
<1>7. s = <<"increment", s[2]>> /\ s \notin Reads /\ s \notin RecordFailure(2)
    BY <1>5, <1>6, IncrementFacts
<1>8. s \notin worker'[w].todo
    BY <1>3, <1>7
<1> QED
    BY <1>3, <1>6, <1>7, <1>8

\* While the subscription is stopped, an increment that would make it active again had
\* its read before the stop.
OldReads ==
    ~hook.active =>
      \A w \in Workers, k \in 1..2 :
        <<"increment", k>> \in worker[w].todo /\ worker[w].saw[k].active => <<w, k>> \in before

\* The history only remembers: each of its steps is a step of the outbox.
LEMMA HistoryStep ==
    [HistoryNext]_historyVars => [Next]_vars /\ (Remember \/ UNCHANGED historyVars)
BY DEF HistoryNext, historyVars, Next, Attempt

\* Every step keeps the reads that can revive the subscription among the old ones.
LEMMA OldReadsStep == IInv /\ OldReads /\ [HistoryNext]_historyVars => OldReads'
<1> SUFFICES ASSUME IInv, OldReads, [HistoryNext]_historyVars, ~hook'.active,
                    NEW w \in Workers, NEW k \in 1..2,
                    <<"increment", k>> \in worker'[w].todo, worker'[w].saw[k].active
             PROVE  <<w, k>> \in before'
    BY DEF OldReads
<1>1. [Next]_vars /\ (Remember \/ UNCHANGED historyVars)
    BY HistoryStep
<1>2. <<w, k>> \in ReadsMade'
    BY DEF ReadsMade
<1>3. CASE hook.active
  <2>1. Stops /\ ~UNCHANGED historyVars
      BY <1>3 DEF Stops, historyVars, vars
  <2> QED
      BY <1>1, <1>2, <2>1 DEF Remember
<1>4. CASE ~hook.active
  <2>1. \/ <<"increment", k>> \in worker[w].todo /\ worker'[w].saw[k] = worker[w].saw[k]
        \/ worker'[w].saw[k] = hook
      BY <1>1, IncrementsCarry DEF IInv
  <2>2. <<"increment", k>> \in worker[w].todo /\ worker[w].saw[k].active
      BY <1>4, <2>1
  <2>3. <<w, k>> \in before
      BY <1>4, <2>2 DEF OldReads
  <2>4. ~Stops
      BY <1>4 DEF Stops
  <2> QED
      BY <1>1, <1>2, <2>3, <2>4 DEF Remember, historyVars
<1> QED
    BY <1>3, <1>4

\* A stopped subscription comes back only by an increment whose read precedes the stop,
\* and it is the increment the step writes (incrementFailureCount).
THEOREM RevivalsAreOldReads == HistorySpec => RevivedOnlyByOldRead
<1>1. HistoryInit => IInv /\ OldReads
    BY InitIInv DEF HistoryInit, Init, OldReads
<1>2. IInv /\ OldReads /\ [HistoryNext]_historyVars => IInv' /\ OldReads'
    BY HistoryStep, Inductive, OldReadsStep
<1>3. IInv /\ OldReads /\ [HistoryNext]_historyVars =>
        (~hook.active /\ hook'.active => \E read \in before : read \notin ReadsMade')
  <2> SUFFICES ASSUME IInv, OldReads, [HistoryNext]_historyVars, ~hook.active, hook'.active
               PROVE  \E read \in before : read \notin ReadsMade'
      OBVIOUS
  <2>1. PICK w \in Workers, k \in 1..2 :
          /\ <<"increment", k>> \in worker[w].todo /\ worker[w].saw[k].active
          /\ <<"increment", k>> \notin worker'[w].todo
      BY HistoryStep, RevivalStep
  <2>2. <<w, k>> \in before
      BY <2>1 DEF OldReads
  <2>3. <<w, k>> \notin ReadsMade'
      BY <2>1 DEF ReadsMade
  <2> QED
      BY <2>2, <2>3
<1> QED
    BY <1>1, <1>2, <1>3, PTL DEF HistorySpec, RevivedOnlyByOldRead

=============================================================================
