\* The paper and the live lane on one bus, fills at price 0: every command is answered.
SPECIFICATION FairSpec
CONSTANTS
    Lanes = {paper, live}
    Live = {live}
    Controlled = {live}
    StrategyChecked = {live}
    ClientIds = {c1}
    Active = {c1}
    Suspends = FALSE
    ZeroPrices = TRUE
    MaxPerSecond = 1
    MaxCancels = 0
INVARIANTS
    AnswerProtocol
PROPERTIES
    CommandsAnswered
CHECK_DEADLOCK FALSE
