CONSTANTS
    Requests = {r1}
    Workers = {w1, w2}
    Outcomes <- AnyOutcomes
    InitialRoutes = {"on"}
    PortalStates = {"under_review", "more_info"}
    MaxAttempts = 3
    JobTries = 2
    MaxSubmissions = 2
    MaxVersion = 2
    MaxFaults = 2
SPECIFICATION Spec
SYMMETRY ProcessSymmetry
INVARIANTS
    TypeOK
    EvidenceForReference
    PartnerHoldsSnapshot
    OneApplicationPerSubmission
    NothingSentUnrecorded
    AttemptBudget
    NoParallelTries
PROPERTIES
    OutcomeIsFinal
    KeepsPromise
CHECK_DEADLOCK FALSE
