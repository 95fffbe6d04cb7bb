SPECIFICATION RoutedSpec
CONSTANTS
    first = first
    second = second
    Orders = {o1, o2}
    Internal = {}
    Services = {first, second}
    Leased = {first}
    MaxConcurrency <- OneEach
    Null = Null
    Executors = {e1, e2}
    Candidates <- InOrder
    MaxAttempts = 2
    Price <- Costs
    MaxAggregate = 3
    MaxRetryBudget = 2
    MaxSteps = 2
SYMMETRY Interchangeable
CHECK_DEADLOCK FALSE
INVARIANTS
    RoutedTypeOK
    CapacityAddsUp
    OrderFollowsTrade
    RouteFollowsOrder
    MandateBooks
    OnePaymentOut
