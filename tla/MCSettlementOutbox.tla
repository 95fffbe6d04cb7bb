------------------------- MODULE MCSettlementOutbox -------------------------
(* The instances of SettlementOutbox that TLC checks. *)
EXTENDS SettlementOutbox, TLC

\* Nothing in SettlementOutbox tells two transfers, two workers or two fees apart.
Interchangeable ==
    Permutations(Transfers) \cup Permutations(Workers) \cup Permutations(Fees)

=============================================================================
