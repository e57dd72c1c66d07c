SPECIFICATION LiveSpec
CONSTANTS
    p1 = p1
    p2 = p2
    p3 = p3
    NONE = NONE
    Proc = {p1, p2, p3}
    Budgets <- EntryBudgets
CONSTRAINT CrossedWithin
INVARIANTS TypeOK OneService Settled
PROPERTY Answered
CHECK_DEADLOCK FALSE
