SPECIFICATION Spec
CONSTANTS
    Matcher = {m1, m2}
    Relay = {r}
    Sweeper = {s}
    Batch = 2
    MaxPasses = 2
    MaxOutages = 2
INVARIANTS
    TypeOK
    ClientsOutliveTasks
    NothingCutOnRequest
    OneMessageAfterStop
PROPERTIES
    ShutdownCompletes
    FailureIsNotSilent
CHECK_DEADLOCK FALSE
