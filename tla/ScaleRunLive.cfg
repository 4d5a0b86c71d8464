SPECIFICATION FairSpec
CONSTANTS
    Datasets <- MCDatasets
    Ratios <- MCRatios
    TotalRecords = 3
    PartitionSize = 2
    Refused <- MCRefused
    Partitions <- MCPartitions
    Workers = {w1}
    NoPartition = NoPartition
    Rows <- MCRows
    Bad <- MCBad
    MaxReceive = 2
    BatchSize = 2
    MaxFaults = 1
    MaxDuplicates = 0
    Retained = 0
    MaxForeign = 1
    ExecutionTimeout = FALSE
    CreatorFaults = FALSE
INVARIANT
    SentAtMostOnce
PROPERTIES
    RunSettles
    LockIsReleased
CHECK_DEADLOCK FALSE
