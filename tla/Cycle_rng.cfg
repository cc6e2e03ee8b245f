SPECIFICATION Spec
CONSTANTS
    d1 = d1
    d2 = d2
    a = a
    b = b
    Names = {a, b}
    Builtin <- BuiltinSources
    SpecLists <- NoOverride
    MinChunk = 1
    Budgets <- Jittered
    HostCap = 1
    Dirs = {d1, d2}
    NoDir = NoDir
    DirLists <- RunDirLists
    JitterMinutes = 2
    HostLoads <- Loads
    BusyPercent = 40
    LoadFactor = 8
    NumCPU = 2
    ConfCores = 0
    TotalMB = 2
    WriteMB = 3
    WriteChunk = 2
    MemTotal = 10
    MemMin = 1
    AllocPercent = 40
    MinFreePercent = 25
    OtherLevels = {5, 8}
INVARIANT
    RngExclusive
CHECK_DEADLOCK FALSE
