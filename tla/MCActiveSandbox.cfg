SPECIFICATION Spec
CONSTANTS
    Tenant <- mc_Tenant
    DemoTenant <- mc_Demo
    TxnId <- mc_TxnId
    Currency <- mc_Currency
    Row <- Contended
    Worker = {w1, w2}
    Sweeper = {s1}
    NoRow = NoRow
    NoJob = NoJob
    ExactWindow = 1
    DriftWindow = 3
    PctNum = 1
    PctScale = 10
    AbsTol = 2
    BatchLimit = 2
    MaxBatch = 1
    MaxDup <- NoRetry
    MaxFailures = 0
PROPERTIES
    OnlyIdleAccountsAreSwept
CHECK_DEADLOCK FALSE
