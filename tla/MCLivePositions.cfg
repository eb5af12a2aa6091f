\* One key, three orders of the platform, one failed call; the venue lists open orders.
SPECIFICATION FairSpec
CONSTANTS
    Keys = {"UP"}
    MaxOrders = 3
    Prices = {2}
    HalfPrice = 2
    Syncs = TRUE
    Listed = {"OPEN"}
    OwnerSides = {}
    MaxTicks = 1
    MaxErrors = 1
INVARIANTS NoOrderIsLost
PROPERTIES OrdersAreHandled
CHECK_DEADLOCK FALSE
