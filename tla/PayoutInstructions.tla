------------------------- MODULE PayoutInstructions -------------------------
(***************************************************************************)
(* What the settlement outbox promises the trades that use it.             *)
(*                                                                         *)
(* An instruction ("pay the seller of trade 7", "refund its buyer") is     *)
(* given once.  Its on-chain outcome is decided at most once: the transfer *)
(* either moved the tokens or reverted, and neither outcome is ever        *)
(* replaced by another.  What the outbox reports is never better or worse  *)
(* than what happened on the chain; it may lag behind.                     *)
(***************************************************************************)

CONSTANTS Transfers      \* settlement_transfers.business_key

VARIABLES
    given,      \* the instructions that exist
    outcome,    \* what the chain did with each: undecided, paid or reverted
    report      \* what the outbox answers about each: open, confirmed, failed

instrVars == <<given, outcome, report>>

Init ==
    /\ given = {}
    /\ outcome = [t \in Transfers |-> "undecided"]
    /\ report = [t \in Transfers |-> "open"]

Instruct(t) ==
    /\ t \notin given
    /\ given' = given \cup {t}
    /\ UNCHANGED <<outcome, report>>

\* The chain decides an instruction once, and only an instruction it was given.
Decide(t, o) ==
    /\ t \in given
    /\ outcome[t] = "undecided"
    /\ outcome' = [outcome EXCEPT ![t] = o]
    /\ UNCHANGED <<given, report>>

\* A report of an outcome names the outcome that happened.
Report(t) ==
    /\ outcome[t] # "undecided"
    /\ report' = [report EXCEPT ![t] = IF outcome[t] = "paid" THEN "confirmed" ELSE "failed"]
    /\ UNCHANGED <<given, outcome>>

\* A worker that lost sight of the transaction answers "not settled yet", even
\* after another worker reported the outcome.
ReportOpen(t) ==
    /\ report' = [report EXCEPT ![t] = "open"]
    /\ UNCHANGED <<given, outcome>>

Next ==
    \E t \in Transfers :
        \/ Instruct(t)
        \/ \E o \in {"paid", "reverted"} : Decide(t, o)
        \/ Report(t)
        \/ ReportOpen(t)

Spec == Init /\ [][Next]_instrVars

=============================================================================
