SPECIFICATION Spec
CONSTANTS
    Procs = {daemon, once}
    Roots = {r1}
    Dirs = {d1, d2, d3}
    None = None
    Cap <- CapSmall
    PurgePercent = 50
    MinFree = 1
    RetainFiles = FALSE
    NetMax = 1
    WriteMax = 1
    ForeignLevels = {0, 4}
    Faults = {"read", "mkdir", "crash"}
INVARIANTS
    TypeOK
    LiveDirsSurvive
PROPERTIES
    LeaseKept
    CyclesCleanUp
