SPECIFICATION FollowedSpec
CONSTANTS
    a = a
    b = b
    v1 = v1
    v2 = v2
    d1 = d1
    d2 = d2
    Mine = Mine
    NONE = NONE
    Name = {a, b}
    Version = {v1, v2}
    Device = {d1, d2}
    Bundled <- BundledFiles
    Budgets <- AllBudgets
    Plans <- AllPlans
INVARIANTS FollowedTypeOK Kept Followed
PROPERTIES UsersOwn CheckTells SaveSpares
CHECK_DEADLOCK FALSE
