\* One live lane with three clients, one of them inactive, the cancel task and the
\* execution control, every interleaving of them with the adapter and the venue.
SPECIFICATION Spec
CONSTANTS
    Lanes = {live}
    Live = {live}
    Controlled = {live}
    StrategyChecked = {live}
    ClientIds = {c1, c2, c3}
    Active = {c1, c2}
    Suspends = TRUE
    ZeroPrices = TRUE
    MaxPerSecond = 1
    MaxCancels = 2
INVARIANTS
    TypeOK
    PlacedOnce
    TruthfulAnswers
    AnswerProtocol
    DisabledLetsOneThrough
CHECK_DEADLOCK FALSE
