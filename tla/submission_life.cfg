CONSTANTS
    Requests = {r1}
    Workers = {w1}
    Outcomes <- HttpApiOutcomes
    InitialRoutes = {"on"}
    PortalStates <- DecisionStates
    MaxAttempts = 2
    JobTries = 2
    MaxSubmissions = 2
    MaxVersion = 2
    MaxFaults = 0
SPECIFICATION FairSpec
PROPERTIES
    PendingResolves
CHECK_DEADLOCK FALSE
