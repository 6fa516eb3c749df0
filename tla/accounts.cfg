SPECIFICATION AccountsSpec
CONSTANTS
    a1 = a1
    a2 = a2
    w1 = w1
    w2 = w2
    c1 = c1
    Users = {a1, a2}
    Admins = {a1, a2}
    Web = {w1, w2}
    Cli = {c1}
    None = None
    Limit = 2
    Window = 2
    MaxTime = 2
    Budgets <- MCBudgets
INVARIANTS AccountsTypeOK SessionsAreCurrent AdminRemains GuessBound
SYMMETRY MCSymmetry
CHECK_DEADLOCK FALSE
