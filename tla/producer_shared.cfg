SPECIFICATION Spec
CONSTANTS
    c1 = c1
    c2 = c2
    n1 = n1
    n2 = n2
    n3 = n3
    NONE = NONE
    Client = {c1, c2}
    Nonce = {n1, n2, n3}
    Budgets <- SharedBudgets
SYMMETRY ClientSymmetry
INVARIANTS TypeOK PresenceTells
PROPERTIES CheckFinds NoGap
CHECK_DEADLOCK FALSE
