\* As in production: nobody publishes executed orders.
SPECIFICATION Spec
CONSTANTS
    Strategies = {"s1"}
    Markets <- TwoMarkets
    Full = 8
    Polls <- ThreePolls
    BuyBelow = 2
    MaxSignals = 2
    MaxOrderSize = 10
    MaxPosition = 1
    MaxGlobal = 10
    RateLimit = 60
    ReportsOrders = FALSE
    MaxTicks = 3
    MaxLag = 1
INVARIANT OwnedMaySell
CHECK_DEADLOCK FALSE
