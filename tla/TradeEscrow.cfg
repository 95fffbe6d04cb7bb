SPECIFICATION Spec
CONSTANTS
    first = first
    second = second
    one = one
    other = other
    Trades = {first, second}
    Listings = {one}
    ListingOf <- SameListing
    External = {first, second}
    Explicit = {second}
    Requests = {r1, r2}
    Proofs = {p1, p2}
    Price = 2
    Fee = 1
    Funds = 0
    Null = Null
SYMMETRY Interchangeable
INVARIANTS
    TypeOK
    EndsAsPaid
    MoneyWaitsForDecision
    OneTradePerListing
    PaymentsAreRetained
PROPERTY
    KeepsAgreement
