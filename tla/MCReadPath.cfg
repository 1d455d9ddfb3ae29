SPECIFICATION Spec
CONSTANTS
    Row <- MCRow
    Reader = {r}
    Operator = {o1, o2}
    TenantOf <- MCTenantOf
    DemoTenant = {"demo"}
    PageSize = 1
    None = None
INVARIANTS
    TypeOK
    PagesAreExact
    OwnTenantOnly
    AnswersAreTrue
    StatsCountOnce
CHECK_DEADLOCK FALSE
