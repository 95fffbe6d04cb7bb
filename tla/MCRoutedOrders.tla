--------------------------- MODULE MCRoutedOrders ---------------------------
(* Small instances of RoutedOrders for TLC. *)
EXTENDS RoutedOrders, TLC

CONSTANTS first, second

\* The plan prefers the provider that works under a lease.
InOrder == <<first, second>>
OneEach == [s \in Services |-> 1]
Costs == [s \in Services |-> IF s = first THEN 1 ELSE 2]

\* Orders of one rail and requests are not told apart.
Interchangeable == Permutations(Executors) \cup Permutations(Orders \ Internal)

=============================================================================
