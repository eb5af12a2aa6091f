\* Strategies come, go and migrate, in the wiring of the tests.
SPECIFICATION Spec
CONSTANTS
    Strategies = {"a", "b"}
    Patterns = {"p", "q"}
    InitialStates = {"RUNNING", "PAUSED"}
    SharedSession = TRUE
    MaxSupervisors = 4
    Requests <- NoRequests
    Clients = {}
    MaxCommands = 0
    MaxClock = 5
    MaxErrors = 0
    Operations = {"add", "remove", "update"}
    PatchStates = {}
    MaxCrashes = 1
INVARIANTS
    TypeOK
    SharedAlive
CHECK_DEADLOCK FALSE
