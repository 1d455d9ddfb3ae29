SPECIFICATION Spec
CONSTANTS
    Slot = {p, q}
    Source <- MCSource
    Event <- MCEvent
    KeyMax = 3
    Tolerance = 0
    MaxClock = 1
    Revocable <- MCRevocable
    Tester = {"bolt"}
    MaxTests = 1
    MaxFailures = 1
INVARIANTS
    TypeOK
    OneRowPerEvent
    AcknowledgedMeansStored
    RowsAreAuthentic
    OkMeansStored
PROPERTIES
    EventuallyStored
CHECK_DEADLOCK FALSE
