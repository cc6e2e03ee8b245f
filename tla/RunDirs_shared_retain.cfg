SPECIFICATION Spec
CONSTANTS
    Procs = {daemon, once}
    Roots = {r1}
    Dirs = {d1, d2}
    None = None
    Cap <- CapSmall
    PurgePercent = 50
    MinFree = 1
    RetainFiles = TRUE
    NetMax = 2
    WriteMax = 1
    ForeignLevels = {0, 2}
    Faults = {}
INVARIANTS
    LiveDirsSurvive
