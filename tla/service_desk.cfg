SPECIFICATION DeskSpec
CONSTANTS
    Callers = {c1, c2}
    Others = {o1, o2}
    Universities = {u1}
    None = none
    Modex = modex
    Nobody = nobody
INVARIANTS
    DeskTypesHold RecordsStand BooksBalance
PROPERTY
    StepsStand
SYMMETRY DeskSymmetry
CHECK_DEADLOCK FALSE
