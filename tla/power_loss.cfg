SPECIFICATION Spec
CONSTANTS
    o1 = o1
    o2 = o2
    t1 = t1
    t2 = t2
    Procs = {p1}
    Builds = {b1}
    Paths = {o1, o2}
    Targets = {t1}
    Contents = {c1, c2}
    Txns = {x1, x2}
    Plans <- GrowPlans
    None = None
    Foreign = Foreign
    Shared = Shared
    Budgets <- PowerLossBudgets
    BuildsStopped = TRUE
    Reorder = TRUE
INVARIANTS
    TypeOK
    ClaimBacked
    CommittedIsDurable
    IntentBeforePurge
    PendingSound
PROPERTIES
    UserBytesKept
    UnplannedIsRetired
