SPECIFICATION LiveSpec
CONSTANTS
    Transfers = {payout, refund}
    Workers = {w1, w2}
    Fees = {f1, f2}
    Null = Null
    SlowSigners = FALSE
PROPERTY
    EventuallySettled
CHECK_DEADLOCK FALSE
