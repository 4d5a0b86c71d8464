SPECIFICATION Spec
CONSTANTS
    Plans = {h, b}
    Big = {b}
    Proving = {h}
    Keys = {k1, k2}
    Requests = {r1, r2, r3}
    NoPlan = NoPlan
    NoKey = NoKey
    NoRun = NoRun
    MaxFaults = 2
    LostStart = TRUE
INVARIANTS
    OneRunPerPlan
    BigRunNeedsProof
SYMMETRY GateSymmetry
CHECK_DEADLOCK FALSE
