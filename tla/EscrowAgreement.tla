-------------------------- MODULE EscrowAgreement --------------------------
(***************************************************************************)
(* What the marketplace promises the two sides of a trade paid from        *)
(* outside (an MPP or EVM payment), whatever requests race.                *)
(*                                                                         *)
(* The payment is held.  The division of the held amount is decided once,  *)
(* by the buyer's or the timer's acceptance (all of it to the seller) or,  *)
(* if somebody contested first, by an arbiter.  Then it is carried out,    *)
(* exactly as decided.  A payment that arrives for a reservation that was  *)
(* dropped is owed back and then returned, and never held.                 *)
(***************************************************************************)
EXTENDS Integers

CONSTANTS
    Trades,
    Price,      \* what a seller is to receive
    Null        \* no decision yet

VARIABLES
    stage,      \* how far each trade is
    share       \* the seller's part of Price, once decided

agreementVars == <<stage, share>>

Stages == {"unpaid", "dropped", "held", "contested", "decided", "closed", "owed", "returned"}

Init ==
    /\ stage = [t \in Trades |-> "unpaid"]
    /\ share = [t \in Trades |-> Null]

Move(t, from, to) ==
    /\ stage[t] \in from
    /\ stage' = [stage EXCEPT ![t] = to]

Drop(t) == Move(t, {"unpaid"}, "dropped") /\ UNCHANGED share
Hold(t) == Move(t, {"unpaid"}, "held") /\ UNCHANGED share
Contest(t) == Move(t, {"held"}, "contested") /\ UNCHANGED share

Accept(t) ==
    /\ Move(t, {"held"}, "decided")
    /\ share' = [share EXCEPT ![t] = Price]

Arbitrate(t) ==
    /\ Move(t, {"contested"}, "decided")
    /\ \E s \in 0 .. Price : share' = [share EXCEPT ![t] = s]

Close(t) == Move(t, {"decided"}, "closed") /\ UNCHANGED share

\* The payment comes too late, or is refused when it comes.
Owe(t) == Move(t, {"unpaid", "dropped"}, "owed") /\ UNCHANGED share
Return(t) == Move(t, {"owed"}, "returned") /\ UNCHANGED share

Next ==
    \E t \in Trades :
        \/ Drop(t) \/ Hold(t) \/ Contest(t)
        \/ Accept(t) \/ Arbitrate(t) \/ Close(t)
        \/ Owe(t) \/ Return(t)

Spec == Init /\ [][Next]_agreementVars

=============================================================================
