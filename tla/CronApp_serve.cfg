SPECIFICATION FairSpec
CONSTANTS
    CycleIds = {c1, c2, c3, c4}
    DbIds = {db}
    NoId = NoId
    Jobs = {j1, j2}
    MaxEntries = 2
INVARIANTS
    TypeOK
    FixedModeSerial
    ScheduleSurvives
    CtxReady
    QuietAfterClose
PROPERTIES
    StrayNeedsOverlap
    PromiseKept
CHECK_DEADLOCK FALSE
