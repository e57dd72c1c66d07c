SPECIFICATION Spec
CONSTANTS
    d1 = d1
    d2 = d2
    la = la
    lb = lb
    NULL = NULL
    Device = {d1, d2}
    Layout = {la, lb}
    DefaultLayout = la
    PageSize = 1
    Totals = FALSE
    Files <- AllOrNone
    Budgets <- PagesBudgets
SYMMETRY DeviceSymmetry
INVARIANTS TypeOK ReadyIsCurrent DrivenIsWanted RefreshSeesAcked
PROPERTY RefinesCache
CHECK_DEADLOCK FALSE
