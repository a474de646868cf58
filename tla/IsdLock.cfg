CONSTANTS
    Threads = {t1, t2, t3}
    Chars = 3
    MaxOps = 2
SPECIFICATION FairSpec
INVARIANTS TypeOK EarlierOperationsGone AtRestUnlocked
PROPERTIES EveryoneGetsThrough
CHECK_DEADLOCK FALSE
