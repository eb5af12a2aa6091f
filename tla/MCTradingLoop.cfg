\* A threshold and a reverting strategy; the first market expires.
SPECIFICATION Spec
CONSTANTS
    Strategies = {"s1"}
    Markets <- TwoMarkets
    Full = 8
    Polls <- ThreePolls
    BuyBelow = 8
    MaxSignals = 2
    MaxOrderSize = 10
    MaxPosition = 1
    MaxGlobal = 10
    RateLimit = 60
    ReportsOrders = TRUE
    MaxTicks = 3
    MaxLag = 1
INVARIANTS
    OneBuyEach
    OneSaleEach
    Ledger
    BooksAgree
PROPERTIES
    SettledAsQuoted
CHECK_DEADLOCK FALSE
