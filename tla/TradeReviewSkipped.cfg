SPECIFICATION Spec
CONSTANTS
    first = first
    second = second
    one = one
    other = other
    Trades = {first}
    Listings = {one}
    ListingOf <- SameListing
    External = {first}
    Explicit = {}
    Requests = {r1, r2}
    Proofs = {p1}
    Price = 2
    Fee = 1
    Funds = 0
    Null = Null
INVARIANT
    CompletionClosesReview
