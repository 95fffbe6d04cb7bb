SPECIFICATION LiveSpec
CONSTANTS
    Trades = {first}
    Listings = {one}
    ListingOf <- SoleListing
    External = {first}
    Explicit = {}
    Requests = {r1, r2}
    Proofs = {p1, p2}
    Price = 2
    Fee = 1
    Funds = 0
    Null = Null
PROPERTY
    SettlementsFinish
\* The trade ends and nothing is left to do.
CHECK_DEADLOCK FALSE
