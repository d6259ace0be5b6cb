CONSTANTS
    Requests = {r1, r2}
    Keys = {k1, k2}
    Bodies = {b1, b2}
    FaultKinds = {"crash", "complete_error", "release_error"}
    MaxRuns = 2
    MaxFaults = 1
SPECIFICATION FairSpec
INVARIANTS
    TypeOK
    OneRunPerKey
    ReplayIsOriginal
    CompletedOnceIfRecorded
PROPERTIES
    KeySettlesUnlessAbandoned
CHECK_DEADLOCK FALSE
