SPECIFICATION Spec
CONSTANTS
    Tenant <- mc_Tenant
    TxnId <- mc_TxnId
    Currency <- mc_Currency
    Row <- mc_Row
    NoRow = NoRow
    ExactWindow = 1
    DriftWindow = 3
    PctNum = 1
    PctScale = 10
    AbsTol = 2
    MaxPending = 5
INVARIANTS
    TypeOK
    SameConclusion
    SameVerdictFromBothSides
CHECK_DEADLOCK FALSE
