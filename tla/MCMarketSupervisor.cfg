CONSTANTS
    Last = 2
    Interval = 2
    Ahead = 2
    Behind = 2
    Priority = 1
    Near = 1
    Dated = TRUE
    MaxErrors = 1
    MaxIlls = 1
SPECIFICATION FairSpec
CHECK_DEADLOCK FALSE
INVARIANT NothingSkipped
PROPERTIES BackOnlyIfMisled FollowsTheMarket
