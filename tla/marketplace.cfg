SPECIFICATION MarketSpec
CONSTANTS
    Callers = {c1, c2}
    Jobs = {o1, o2}
    None = none
    Never = never
INVARIANTS
    MarketTypesHold ListingsAreBacked ShownIsFair
PROPERTY
    VerificationGoesForward
SYMMETRY MarketSymmetry
CHECK_DEADLOCK FALSE
