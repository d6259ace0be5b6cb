CONSTANTS
    Deliveries = {d1, d2}
    Kinds = {"received", "under_review", "more_info_required", "offer_made", "rejected",
             "withdrawn", "enrolled"}
    Ordered = FALSE
    FaultKinds = {"crash", "insert_error", "audit_error"}
    MaxEvents = 2
    MaxMishaps = 2
SPECIFICATION FairSpec
INVARIANTS
    TypeOK
    EventsOnRecord
    UnappliedSaysWhyUnlessCrashed
PROPERTIES
    EveryEventAnswered
CHECK_DEADLOCK FALSE
