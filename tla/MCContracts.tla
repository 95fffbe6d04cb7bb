---------------------------- MODULE MCContracts ----------------------------
(* Small instances of Contracts for TLC. *)
EXTENDS Contracts, TLC

CONSTANT agreement

\* Two milestones, one of them an odd number of cents.
TwoParts == [c \in Agreements |-> <<3, 2>>]
OneFee == [c \in Agreements |-> 1]

\* Bound: of the requests and the calls to confirm, two at most are under way.
TwoUnderWay ==
    Cardinality({k \in Calls : call[k] # NoCall}) + Cardinality({r \in Requests : request[r] # NoRequest}) <= 2

\* Requests, calls, and deposits of one amount are not told apart.
Interchangeable == Permutations(Requests) \cup Permutations(Calls) \cup Permutations(Deposits)

=============================================================================
