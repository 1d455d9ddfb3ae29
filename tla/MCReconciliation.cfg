SPECIFICATION Spec
CONSTANTS
    Tenant <- mc_Tenant
    DemoTenant <- mc_Demo
    TxnId <- mc_TxnId
    Currency <- mc_Currency
    Row <- Contended
    Worker = {w1, w2}
    Sweeper = {s1}
    NoRow = NoRow
    NoJob = NoJob
    ExactWindow = 1
    DriftWindow = 3
    PctNum = 1
    PctScale = 10
    AbsTol = 2
    BatchLimit = 2
    MaxBatch = 1
    MaxDup <- RetryPayment
    MaxFailures = 1
INVARIANTS
    TypeOK
    EffectivelyOnce
    PendingIffUndecided
    PairsAreSound
    BreaksOpenExceptions
    NothingOutlivesItsAccount
    MissesOnlyLateArrivals
PROPERTIES
    ImplementsSettlement
SYMMETRY WorkerSymmetry
CHECK_DEADLOCK FALSE
