SPECIFICATION FairSpec
CONSTANTS
    d1 = d1
    d2 = d2
    la = la
    lb = lb
    NULL = NULL
    Device = {d1, d2}
    Layout = {la, lb}
    DefaultLayout = la
    PageSize = 1
    Totals = FALSE
    Files <- AllDevices
    Budgets <- LiveBudgets
PROPERTY Converges
CHECK_DEADLOCK FALSE
