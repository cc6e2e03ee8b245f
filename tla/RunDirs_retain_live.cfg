SPECIFICATION FairSpec
CONSTANTS
    Procs = {daemon}
    Roots = {r1}
    Dirs = {d1, d2, d3}
    None = None
    Cap <- CapSmall
    PurgePercent = 50
    MinFree = 3
    RetainFiles = TRUE
    NetMax = 2
    WriteMax = 1
    ForeignLevels = {2, 5}
    Faults = {"read", "mkdir", "remove"}
PROPERTIES
    LeaseKept
    RootsComeBack
