SPECIFICATION LiveSpec
CONSTANTS
    c1 = c1
    c2 = c2
    NONE = NONE
    Client = {c1, c2}
    Budgets <- SafeBudgets
INVARIANTS TypeOK Exclusive HandedOver
PROPERTIES StartsAlone Answered
CHECK_DEADLOCK FALSE
