SPECIFICATION Spec
CONSTANTS
    s1 = s1
    s2 = s2
    c1 = c1
    c2 = c2
    c3 = c3
    c4 = c4
    Servers = {s1}
    Clients = {c2, c3, c4}
    NoOne = NoOne
    Op <- MCOpLive
    Backlog = 2
CHECK_DEADLOCK FALSE
PROPERTIES EveryRequestEnds
