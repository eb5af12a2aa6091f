\* The bus stores events in memory: handlers are atomic; two restarts.
SPECIFICATION RecoveryFairSpec
CONSTANTS
    ClientIds = {c1}
    OrderIds = {o1, o2, o3}
    NoOrder = NoOrder
    Size = 2
    Suspends = FALSE
    EchoesClientId = FALSE
    MaxApprovals = 3
    MaxRedeliveries = 1
    MaxRestarts = 2
INVARIANTS RebuildForgetsNothing SubmittedOncePerLife
PROPERTIES ApprovedIsSubmittedOrStopped
CHECK_DEADLOCK FALSE
