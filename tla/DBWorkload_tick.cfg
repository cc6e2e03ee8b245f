SPECIFICATION FairSpec
CONSTANTS
    MaxRows = 10
    InsertMax = 2
    DeleteMax = 2
    BulkMin = 4
    BulkMax = 6
    OpsMax = 3
    ReconcileEvery = 3
    InitTable <- AnyTable
    TableMax = 14
    DriftMax = 3
    Faults = {"fail", "cancel", "outage", "lostInsert", "lostDelete", "extDelete"}
INVARIANTS
    TypeOK
PROPERTIES
    NoGrowthAboveLow
    Drains
    DriftCorrected
