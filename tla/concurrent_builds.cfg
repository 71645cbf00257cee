SPECIFICATION FairSpec
CONSTANTS
    o1 = o1
    o2 = o2
    t1 = t1
    t2 = t2
    Procs = {p1, p2}
    Builds = {b1, b2}
    Paths = {o1, o2}
    Targets = {t1, t2}
    Contents = {c1}
    Txns = {x1, x2}
    Plans <- TargetPlans
    None = None
    Foreign = Foreign
    Shared = Shared
    Budgets <- ConcurrentBudgets
    BuildsStopped = FALSE
    Reorder = FALSE
INVARIANTS
    GenerationExclusive
    PublicationAuthorized
    StagingRecorded
PROPERTIES
    CommandsEnd
