SPECIFICATION LiveSpec
CONSTANTS
    Tenant <- mc_Tenant
    DemoTenant <- mc_Demo
    TxnId <- mc_TxnId
    Currency <- mc_Currency
    Row <- Contended
    Worker = {w1}
    Sweeper = {s1}
    NoRow = NoRow
    NoJob = NoJob
    ExactWindow = 1
    DriftWindow = 3
    PctNum = 1
    PctScale = 10
    AbsTol = 2
    BatchLimit = 1
    MaxBatch = 2
    MaxDup <- RetryEntry
    MaxFailures = 1
PROPERTIES
    EveryRowSettles
CHECK_DEADLOCK FALSE
