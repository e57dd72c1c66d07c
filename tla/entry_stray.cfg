SPECIFICATION Spec
CONSTANTS
    p1 = p1
    p2 = p2
    p3 = p3
    NONE = NONE
    Proc = {p1, p2, p3}
    Budgets <- StrayBudgets
INVARIANTS NoStray
CHECK_DEADLOCK FALSE
