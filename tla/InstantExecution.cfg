SPECIFICATION FairSpec
CONSTANTS
    alice = alice
    bob = bob
    shop = shop
    session1 = session1
    session2 = session2
    session3 = session3
    Users = {alice, bob, shop}
    Seller = shop
    Sessions = {session1, session2, session3}
    Calls = {c1, c2}
    Workers = {w1, w2}
    BuyerOf <- SessionBuyers
    Budget <- SessionBudgets
    Credit <- Deposits
    Price = 1
    MaxConcurrency = 1
    CallLimit = 2
    SweepLimit = 1
    Null = Null
INVARIANTS
    TypeOK
    SessionsAddUp
    ClosedIsSettled
    CreditIsConserved
    CapacityIsKept
PROPERTIES
    LateIsFree
    CallsAreFinal
    SessionsEnd
\* All sessions closed: nothing is left to do.
CHECK_DEADLOCK FALSE
