--------------------------- MODULE MCTradeEscrow ---------------------------
(* Small instances of TradeEscrow for TLC. *)
EXTENDS TradeEscrow, TLC

CONSTANTS first, second, one, other

\* Both trades would buy the same listing.
SameListing == [t \in Trades |-> one]

\* Each trade buys its own.
OwnListing == [t \in Trades |-> IF t = first THEN one ELSE other]

\* Neither the requests nor the proofs are told apart.
Interchangeable == Permutations(Requests) \cup Permutations(Proofs)

=============================================================================
