SPECIFICATION Spec
CONSTANTS
    d1 = d1
    d2 = d2
    c1 = c1
    c2 = c2
    NONE = NONE
    Device = {d1, d2}
    Linked = {d1}
    Records = {d1, d2}
    Caller = {c1, c2}
    Budgets <- CommandBudgets
SYMMETRY CallerSymmetry
INVARIANTS IInv Answers Seeds
CHECK_DEADLOCK FALSE
