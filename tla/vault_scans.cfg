CONSTANTS
    Requests = {r1, r2}
    Scanners = {w1, w2}
    Contents = {good, bad}
    Infected = {bad}
    NoBytes = nothing
    FaultKinds = {"request_dies", "worker_dies", "write_error"}
    MaxVersions = 1
    MaxTries = 2
    MaxStalls = 1
    MaxFaults = 2
SPECIFICATION FairSpec
INVARIANTS
    TypeOK
    EligibleIsCleanUnlessPutLate
    NoUploadForgotten
PROPERTIES
    UploadIsScannedIfRequested
CHECK_DEADLOCK FALSE
