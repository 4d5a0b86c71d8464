SPECIFICATION FairStreamSpec
CONSTANTS
    Sessions = {s1, s2}
    NoSession = NoSession
    Ticks = {t1, t2}
    NoTick = NoTick
    Stops = {x1}
    Continuous = {s1}
    Total = 1
    Chunk = 2
    MaxPulses = 3
    MaxRetries = 1
    MaxFaults = 1
INVARIANTS
    LandedInOrder
    AnnouncedOnce
PROPERTIES
    RunningIsKept
    StreamGoesOn
CHECK_DEADLOCK FALSE
