SPECIFICATION FairSpec
CONSTANTS
    Exports = {e1}
    Requests = {r1, r2}
    Workers = {w1, w2}
    NoExport = NoExport
    Objects = 2
    MaxReceive = 3
    MaxFaults = 2
    MaxDuplicates = 1
    MaxLives = 2
    RequestsMayDie = TRUE
    RunMayFail = TRUE
    MayExpire = TRUE
INVARIANTS
    ReadyMatchesManifest
    NoExportLost
    ReceiptIsTrue
PROPERTIES
    ImplementsExportJob
    ExportSettles
CHECK_DEADLOCK FALSE
