\* Control commands, with a crash and a database error; strategies are created to run.
SPECIFICATION FairSpec
CONSTANTS
    Strategies = {"a"}
    Patterns = {"p"}
    InitialStates = {"RUNNING"}
    SharedSession = FALSE
    MaxSupervisors = 1
    Requests <- SomeRequests
    Clients = {1, 2}
    MaxCommands = 2
    MaxClock = 5
    MaxErrors = 1
    Operations = {"add"}
    PatchStates = {}
    MaxCrashes = 1
INVARIANTS
    OneCommandEach
    OnceAVersion
    EffectsInOrder
PROPERTIES
    CommandsSettled
CHECK_DEADLOCK FALSE
