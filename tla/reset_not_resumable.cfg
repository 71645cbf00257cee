SPECIFICATION Spec
CONSTANTS
    o1 = o1
    o2 = o2
    t1 = t1
    t2 = t2
    Procs = {p1}
    Builds = {b1}
    Paths = {o1, o2}
    Targets = {t1}
    Contents = {c1, c2}
    Txns = {x1, x2}
    Plans <- SwapPlans
    None = None
    Foreign = Foreign
    Shared = Shared
    Budgets <- CutResetBudgets
    BuildsStopped = FALSE
    Reorder = FALSE
INVARIANTS
    ResetResumable
