CONSTANTS
    k1 = k1
    k2 = k2
    k3 = k3
    Keys <- ThreeKeys
    Durations = {0, 2}
    MaxDelay = 2
    MaxCache = 2
    MaxStrays = 3
    MaxTime = 5
SPECIFICATION Spec
INVARIANTS
    TypeOK
    TimersMatchBans
PROPERTIES
    OwnTimerIsDue
    NewestIsKept
SYMMETRY Symmetry
