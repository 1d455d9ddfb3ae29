SPECIFICATION LiveSpec
CONSTANTS
    N = 1
    Relay = {r1, r2}
    Worker = {w1, w2}
    Container = {r1, w1}
    OutboxBatch = 2
    StreamBatch = 1
    MaxLen = 2
    MaxFailures = 2
    MaxOutages = 1
PROPERTIES
    EventuallyHandled
CHECK_DEADLOCK FALSE
