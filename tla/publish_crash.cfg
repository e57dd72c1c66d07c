SPECIFICATION Spec
CONSTANTS
    d1 = d1
    d2 = d2
    f = f
    p = p
    q = q
    r1 = r1
    r2 = r2
    o1 = o1
    o2 = o2
    NONE = NONE
    REFUSED = REFUSED
    Device = {d1, d2, f}
    Foreign = {f}
    Prop = {p, q}
    Motion = {}
    Record = {r1, r2}
    Overrides = {o1, o2}
    Shape <- PickyShape
    Budgets <- CrashBudgets
INVARIANTS NoOrphan Mirrors PurgeClears
CHECK_DEADLOCK FALSE
