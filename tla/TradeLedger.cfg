SPECIFICATION Spec
CONSTANTS
    first = first
    second = second
    one = one
    other = other
    Trades = {first, second}
    Listings = {one, other}
    ListingOf <- OwnListing
    External = {}
    Explicit = {second}
    Requests = {r1, r2, r3}
    Proofs = {}
    Price = 2
    Fee = 1
    Funds = 7
    Null = Null
SYMMETRY Interchangeable
INVARIANT
    EscrowBacksLedgerTrades
\* Every trade ends and nothing is left to do.
CHECK_DEADLOCK FALSE
