SPECIFICATION Spec
CONSTANTS
    Processes = {p1, p2}
    Slots = {s1, s2}
    MaxConns = 1
    Last = 2
INVARIANTS
    TypeOK
    ServingMeansMigrated
PROPERTIES
    FailedStartLostARace
    StopCutsOnlyTheSlow
    Stops
    EveryAcquireEnds
