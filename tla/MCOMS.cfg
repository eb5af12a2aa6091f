\* One intent approved twice, every interleaving of the five tasks, one message repeated:
\* the invariants and the abstract specification.
SPECIFICATION Spec
CONSTANTS
    ClientIds = {c1}
    OrderIds = {o1, o2}
    NoOrder = NoOrder
    Size = 3
    Suspends = TRUE
    EchoesClientId = TRUE
    MaxApprovals = 2
    MaxRedeliveries = 1
INVARIANTS TypeOK FilledWithinSize FilledIffComplete VenueIdsIndexed OneOrderPerClientId
PROPERTIES ImplementsLifecycle
CHECK_DEADLOCK FALSE
