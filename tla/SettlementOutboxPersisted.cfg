SPECIFICATION Spec
CONSTANTS
    Transfers = {payout}
    Workers = {w1, w2, w3}
    Fees = {f1, f2}
    Null = Null
    SlowSigners = TRUE
INVARIANT
    RetryFindsTheOutcome
CHECK_DEADLOCK FALSE
