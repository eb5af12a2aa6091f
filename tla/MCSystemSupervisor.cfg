\* Live trading booted, crashed, stopped and started again, with an operator.
SPECIFICATION FairSpec
CONSTANTS
    Orders = {"v1"}
    Size = 2
    MaxPhantoms = 1
    MaxOrphans = 1
    MaxMismatches = 1
    NeedsError = FALSE
    Word = "OPEN"
    MaxLost = 1
    MaxFetchErrors = 1
    MayFail = {"core", "rebuild", "risk", "breaker"}
    ResetsFirst = TRUE
    MaxDivergences = 0
    MaxStarts = 2
    MaxCrashes = 1
    MaxActs = 1
INVARIANTS
    StreamIsHeard
    TripHolds
PROPERTIES
    PermitMeansAgreement
    TripIsGrounded
    DisagreementStopsTrading
CHECK_DEADLOCK FALSE
