SPECIFICATION ToolingSpec
CONSTANTS
    None = None
    Configures = {c1, c2}
    Transactions = {t1, t2, t3}
    Old = Old
    Theirs = Theirs
    EnvScenarios <- BeforeConfiguring
    InstallTxns = {x1, x2, x3, x4}
    Installed = Installed
    Stranger = Stranger
    InstallScenarios <- Installs
    QueueSize = 2
    MaxChunks = 4
    ServerChunks = 5
    OutputLimit = 1
    PipeSize = 1
    MostWritten = 1
    Publishers = {p1, p2}
    Artifacts <- TwoArtifacts
    Releases = {1, 2}
    Drifts = 1
    NarrowBits = 3
    WideBits = 4
    ConstantTrees <- Expressions
    MaxDepth = 3
    Schemas <- Schemata
    CodecScenarios <- Messages
    MaxGiven = 3
    RecursionLimit = 2
    MaxElements = 3
    MaxEntries = 2
    MaxTotal = 24
    MaxUnknown = 12
    Objects = {"x", "y", "z"}
    ObjectScenarios <- ObjectFirsts
    Fuels = {0, 2, 5}
    MaxNesting = 1
    NamedMessages <- NamedSchemata
    TokenOrder <- Alphabetical
    Keywords <- KeywordsHere
    MaxCandidates = 4
    MostProcs = 2
    RootTrees = {"b1", "b2"}
    Roots <- TheRoots
    Identity <- ByIdentity
    Layouts <- TreeLayouts
    RootScenarios <- RootBudgets
    Parts = {"expression"}
INVARIANTS
    SkippedIsHarmless
CHECK_DEADLOCK FALSE
