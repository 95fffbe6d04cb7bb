----------------------------- MODULE MCBuyerPayments -----------------------------
EXTENDS BuyerPayments, TLC

CONSTANTS t1, t2, h1, h2, k1, k2

MCTrades == {t1, t2}
MCHosts == {h1, h2}
MCTabs == {k1, k2}
Symmetric == Permutations(MCTrades) \cup Permutations(MCHosts) \cup Permutations(MCTabs)
================================================================================
