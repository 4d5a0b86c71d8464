SPECIFICATION Spec
CONSTANTS
    Actors = {v, r1}
    Reviewers = {r1}
    all = all
    some = some
    Subjects = {all, some}
    Limit <- MCLimit
    Sessions = {s1, s2}
    NoActor = NoActor
    NoSubject = NoSubject
    NoSession = NoSession
    FourEyes = TRUE
    MaxRows = 0
    HardMax = 1
    MaxDataset = 2
    MaxApprovals = 2
    MaxCalls = 4
    MaxFaults = 1
INVARIANTS
    SpendsMatchExports
    DeliveriesAreGoverned
PROPERTIES
    ImplementsCapability
CONSTRAINT Sought
SYMMETRY ApprovalSymmetry
CHECK_DEADLOCK FALSE
