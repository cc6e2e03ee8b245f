SPECIFICATION FairSpec
CONSTANTS
    Procs = {daemon}
    Roots = {r1}
    Dirs = {d1, d2}
    None = None
    Cap <- CapSmall
    PurgePercent = 50
    MinFree = 0
    RetainFiles = FALSE
    NetMax = 1
    WriteMax = 1
    ForeignLevels = {0, 4}
    Faults = {"read", "mkdir", "remove"}
PROPERTIES
    OrphansReclaimed
