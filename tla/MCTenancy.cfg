SPECIFICATION Spec
CONSTANTS
    Window = 2
    MaxClock = 2
    MaxDropped = 1
    Slot = {p, q}
    DemoName = {visitor}
    RealName = {acme}
    Key = {k}
    Ip = {i}
    AnonLimit = 1
    KeyedLimit = 1
    BatchLimit = 2
    MaxAccounts = 4
    MaxRequests = 2
INVARIANTS
    TypeOK
    WritesReachTheirAccount
    CredentialsOnRealAccounts
    FailsOnlyWhenSwept
    NoWindowOverLimit
PROPERTIES
    RealAccountsStay
    RowsLeaveWithTheirAccount
SYMMETRY SlotSymmetry
CHECK_DEADLOCK FALSE
