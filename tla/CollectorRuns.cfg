SPECIFICATION FairSpec
CONSTANTS
    Records = 6
    PageSize = 2
    Outside <- MCOutside
    Malformed <- MCMalformed
    Undated <- MCUndated
    Foreign <- MCForeign
    Nameless <- MCNameless
    Jobs <- MCJobs
    BatchSize = 2
    MaxPages = 3
    Limits = {3, 9}
    MaxRestarts = 1
    MaxNews = 2
    MaxFaults = 2
INVARIANTS
    SnapshotIsExact
PROPERTIES
    SnapshotGrows
    SnapshotSettles
CHECK_DEADLOCK FALSE
