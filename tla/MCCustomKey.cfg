SPECIFICATION Spec
CONSTANTS
    Slot = {p, q}
    Source <- JoinedSource
    Event <- JoinedEvent
    KeyMax = 3
    Tolerance = 0
    MaxClock = 1
    Revocable = {}
    Tester = {"bolt"}
    MaxTests = 0
    MaxFailures = 0
INVARIANTS
    DuplicateMeansRetry
CHECK_DEADLOCK FALSE
