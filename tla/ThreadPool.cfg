CONSTANTS
    Tasks = {k1, k2, k3}
    Workers = {w1, w2}
    NULL = NULL
SPECIFICATION FairSpec
INVARIANTS TypeOK FutureAliveWhileUsed JoinedIsOver
PROPERTIES ImplementsTaskPool CallersComeBack
CHECK_DEADLOCK FALSE
