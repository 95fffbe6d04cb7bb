SPECIFICATION Spec
CONSTANTS
    Buyer = Buyer
    Seller = Seller
    Platform = Platform
    Agent = Agent
    Deposits = {d1, d2}
    DepositAmount = 7
    Hashes = {h1}
    Mined = {h1}
    Sales = {s1}
    SalePrice = 1
    SaleFee = 0
    Transfers = {x1}
    TransferAmount = 1
    Calls = {k1, k2}
    Null = Null
    agreement = agreement
    Agreements = {agreement}
    Amounts <- TwoParts
    Fee <- OneFee
    PercentUnit = 1
    Percents = {50}
    Requests = {r1, r2}
    MaxDisputes = 1
CONSTRAINT TwoUnderWay
SYMMETRY Interchangeable
CHECK_DEADLOCK FALSE
INVARIANTS
    TypeOK
    CreditBooks
    ContractTellsItsMilestones
