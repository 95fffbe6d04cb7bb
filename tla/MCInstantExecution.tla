------------------------- MODULE MCInstantExecution -------------------------
\* Constant values of the runs of InstantExecution.
EXTENDS InstantExecution, TLC

CONSTANTS alice, bob, shop, session1, session2, session3

\* Alice can open her third session only with what an earlier one returned.
SessionBuyers == session1 :> alice @@ session2 :> bob @@ session3 :> alice
SessionBudgets == session1 :> 2 @@ session2 :> 1 @@ session3 :> 1
Deposits == alice :> 2 @@ bob :> 1 @@ shop :> 0
=============================================================================
