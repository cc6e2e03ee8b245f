SPECIFICATION Spec
CONSTANTS
    Procs = {daemon, once}
    Roots = {r1}
    Dirs = {d1, d2, d3}
    None = None
    Cap <- CapSmall
    PurgePercent = 25
    MinFree = 1
    RetainFiles = TRUE
    NetMax = 1
    WriteMax = 1
    ForeignLevels = {0, 2}
    Faults = {"mkdir", "crash"}
SYMMETRY Symm
INVARIANTS
    FootprintBound
