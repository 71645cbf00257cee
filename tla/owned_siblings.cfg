SPECIFICATION FairSpec
CONSTANTS
    Procs = {p1, p2}
    Tokens = {k1, k2}
    Inodes = {i1, i2, i3}
    None = None
    Budgets <- OwnersBudgets
CHECK_DEADLOCK FALSE
INVARIANTS
    TypeOK
    DestinationExclusive
    OneOwner
    RecoveryPossible
PROPERTIES
    ForeignKept
    CommandsEnd
