CONSTANTS
    Requests = {r1}
    Scanners = {w1}
    Contents = {good, bad}
    Infected = {bad}
    NoBytes = nothing
    FaultKinds = {}
    MaxVersions = 1
    MaxTries = 1
    MaxStalls = 1
    MaxFaults = 0
SPECIFICATION Spec
INVARIANTS
    CompleteMeansStored
CHECK_DEADLOCK FALSE
