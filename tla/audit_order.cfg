CONSTANTS
    Writers = {w1, w2}
    Ids = {1, 2, 3, 4}
    MaxTime = 2
    MaxEvents = 4
SPECIFICATION Spec
INVARIANTS
    TypeOK
    OrderedTrailVerifies
    OrderedRemovalIsDetected
CHECK_DEADLOCK FALSE
