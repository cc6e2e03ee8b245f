SPECIFICATION FairNetSpec
CONSTANTS
    d1 = d1
    d2 = d2
    a = a
    b = b
    c = c
    Names = {a, b, c}
    Builtin <- BuiltinSources
    SpecLists <- Overrides
    MinChunk = 2
    Budgets = {0, 10}
    HostCap = 4
    Dirs = {d1, d2}
    NoDir = NoDir
    DirLists <- RunDirLists
INVARIANTS
    NetTypeOK
    RangesInside
    PlanIsMaximal
    PoliteToHosts
    NoTaskLost
PROPERTIES
    DownloadsEnd
CHECK_DEADLOCK FALSE
