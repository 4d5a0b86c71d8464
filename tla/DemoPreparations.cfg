SPECIFICATION Spec
CONSTANTS
    Operators = {o1, o2}
    Nobody = Nobody
    Team = {t1, t2}
    Presenter = Presenter
    MaxCommands = 3
    MaxTroubles = 1
    Baseline = "portfolio"
    Drops = {"good"}
    MaxVersion = 2
SYMMETRY OperatorSymmetry
CONSTRAINT Apart
INVARIANTS
    FactorIsKept
    ReadyIsTrue
    PreparationHeals
PROPERTIES
    OthersAreKept
CHECK_DEADLOCK FALSE
