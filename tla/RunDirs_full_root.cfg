SPECIFICATION FairSpec
CONSTANTS
    Procs = {daemon}
    Roots = {r1}
    Dirs = {d1, d2}
    None = None
    Cap <- CapSmall
    PurgePercent = 50
    MinFree = 6
    RetainFiles = FALSE
    NetMax = 2
    WriteMax = 1
    ForeignLevels = {0}
    Faults = {}
PROPERTIES
    OrphansReclaimed
