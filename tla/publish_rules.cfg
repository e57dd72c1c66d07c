SPECIFICATION FairSpec
CONSTANTS
    d1 = d1
    d2 = d2
    f = f
    p = p
    q = q
    r1 = r1
    r2 = r2
    o1 = o1
    o2 = o2
    NONE = NONE
    REFUSED = REFUSED
    Device = {d1, f}
    Foreign = {f}
    Prop = {p, q}
    Motion = {p}
    Record = {r1}
    Overrides = {o1, o2}
    Shape <- HideShape
    Budgets <- RulesBudgets
INVARIANTS IInv HeardIsKnown
PROPERTY StopEnds
CHECK_DEADLOCK FALSE
