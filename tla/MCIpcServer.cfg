SPECIFICATION Spec
CONSTANTS
    s1 = s1
    s2 = s2
    c1 = c1
    c2 = c2
    c3 = c3
    c4 = c4
    Servers = {s1, s2}
    Clients = {c1, c2, c3}
    NoOne = NoOne
    Op <- MCOp
    Backlog = 1
SYMMETRY ServerSymmetry
CHECK_DEADLOCK FALSE
INVARIANTS TypeOK AnswerIsOwn AloneOwnsPath
PROPERTIES ServiceSpec
