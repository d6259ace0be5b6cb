SPECIFICATION SweepsFairSpec
CONSTANTS
    Callers = {c1, c2}
    Applications = {a1}
    Operators = {o1}
    None = none
    NoOperator = nobody
    Consents = {k1}
    SiteUniversities = {u1, u2}
    Registered = {u1}
    SiteProgrammes = {p1, p2, p3}
INVARIANTS
    SweepsTypesHold NothingOutlivesItsGround
PROPERTIES
    EndsComeAndStay
CHECK_DEADLOCK FALSE
