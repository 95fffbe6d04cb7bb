SPECIFICATION Spec
CONSTANTS
    Transfers = {payout, refund}
    Workers = {w1, w2}
    Fees = {f1, f2}
    Null = Null
    SlowSigners = TRUE
INVARIANTS
    TypeOK
    PaidAtMostOnce
    OutcomeIsTruthful
    NoNonceIsLost
PROPERTY
    ImplementsInstructions
\* The outbox comes to rest once every row is settled.
CHECK_DEADLOCK FALSE
