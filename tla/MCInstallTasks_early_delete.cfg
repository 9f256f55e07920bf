CONSTANTS
    p1 = p1
    p2 = p2
    t1 = t1
    t2 = t2
    Plugins = {p1, p2}
    TaskIDs <- MCTaskIDs
    MaxEvents = 2
SPECIFICATION Spec
INVARIANT TaskKeptUntilSettled
CHECK_DEADLOCK FALSE
