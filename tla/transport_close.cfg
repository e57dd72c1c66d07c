SPECIFICATION FairSpec
CONSTANTS
    t1 = t1
    t2 = t2
    c1 = c1
    c2 = c2
    c3 = c3
    h1 = h1
    h2 = h2
    NONE = NONE
    Topic = {t1, t2}
    Caller = {c1, c2, c3}
    Opener = c1
    Handler = {h1, h2}
    Budgets <- TransportBudgets
INVARIANTS TypeOK InStep ClosedForGood
PROPERTY CloseReturns
CHECK_DEADLOCK FALSE
