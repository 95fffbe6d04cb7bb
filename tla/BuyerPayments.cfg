SPECIFICATION Spec
CONSTANTS
    t1 = t1
    t2 = t2
    h1 = h1
    h2 = h2
    k1 = k1
    k2 = k2
    NoTx = NoTx
    NoOp = NoOp
    NoTrade = NoTrade
    MaxNonce = 2
    MaxIntents = 2
    Trades <- MCTrades
    Hosts <- MCHosts
    Tabs <- MCTabs
INVARIANTS
    TypeOK
    OneTransferEach
    SentIsRecoverable
SYMMETRY Symmetric
CHECK_DEADLOCK FALSE
