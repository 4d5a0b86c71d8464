SPECIFICATION Spec
CONSTANTS
    Datasets <- MCDatasets
    Ratios <- MCRatios
    TotalRecords = 3
    PartitionSize = 2
    Refused <- MCRefused
    Partitions <- MCPartitions
    Workers = {w1, w2}
    NoPartition = NoPartition
    Rows <- MCRows
    Bad <- MCBad
    MaxReceive = 2
    BatchSize = 2
    MaxFaults = 1
    MaxDuplicates = 1
    Retained = 1
    MaxForeign = 0
    ExecutionTimeout = TRUE
    CreatorFaults = TRUE
SYMMETRY WorkerSymmetry
INVARIANTS
    CountersMatchLedger
    TotalsAreExact
    FailureHasOwnCause
    ProofIsBacked
PROPERTIES
    ImplementsRunLedger
CHECK_DEADLOCK FALSE
