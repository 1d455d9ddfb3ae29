SPECIFICATION Spec
CONSTANTS
    N = 2
    Relay = {r1, r2}
    Worker = {w1, w2}
    Container = {r1, w1}
    OutboxBatch = 2
    StreamBatch = 1
    MaxLen = 3
    MaxFailures = 1
    MaxOutages = 1
INVARIANTS
    TypeOK
    NothingSlipsThrough
    PublishedOnceUnlessFailed
CHECK_DEADLOCK FALSE
