SPECIFICATION FairSpec
CONSTANTS
    c1 = c1
    c2 = c2
    n1 = n1
    n2 = n2
    NONE = NONE
    Client = {c1, c2}
    Nonce = {n1, n2}
    Budgets <- EndsBudgets
INVARIANT PurgedIsGone
PROPERTY Ends
CHECK_DEADLOCK FALSE
