CONSTANTS
    Requests = {r1}
    Workers = {w1}
    Outcomes <- HttpApiOutcomes
    InitialRoutes = {"on"}
    PortalStates <- HandMoves
    MaxAttempts = 2
    JobTries = 2
    MaxSubmissions = 1
    MaxVersion = 1
    MaxFaults = 0
SPECIFICATION Spec
INVARIANTS
    SubmittedHasReference
CHECK_DEADLOCK FALSE
