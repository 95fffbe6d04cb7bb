------------------------- MODULE MCTradeEscrowLive -------------------------
(* A small instance of TradeEscrowLive for TLC. *)
EXTENDS TradeEscrowLive

SoleListing == [t \in Trades |-> CHOOSE l \in Listings : TRUE]

=============================================================================
