CONSTANTS
    Requests = {r1}
    Workers = {w1}
    Outcomes = {"handoff_required", "queued"}
    InitialRoutes = {"on"}
    PortalStates = {}
    MaxAttempts = 2
    JobTries = 1
    MaxSubmissions = 2
    MaxVersion = 1
    MaxFaults = 0
    Deliveries = {d1}
    Kinds = {"received", "under_review", "more_info_required"}
    Ordered = FALSE
    FaultKinds = {}
    MaxEvents = 5
    MaxMishaps = 0
SPECIFICATION FairSystemSpec
INVARIANTS
    HandoffHasGrounds
PROPERTIES
    HandoffKeepsPromise
CHECK_DEADLOCK FALSE
