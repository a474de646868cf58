CONSTANTS
    c1 = c1
    c2 = c2
    c3 = c3
    Client = {c1, c2, c3}
    Worker = {w1, w2}
    SYSRESERVFD = 5
    Fd = {5, 6, 7}
    MAX_CONNECTIONS = 2
    FD_RECYCLE_THRESHOLD = 5
    Lives <- SmallLives
    Listen = Listen
    NULL = NULL
    Name = {"a", "b", "g", "x", "y"}
    Bare = {"a", "b"}
    Stored <- StoredTables
    MaxTables = 5
    MaxNodes = 4
    Garbage = Garbage
SPECIFICATION Spec
INVARIANTS WellFormed LeftoversAreMarked FaultsNeedAnExit 
 
CHECK_DEADLOCK FALSE
