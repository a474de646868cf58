CONSTANTS
    Threads = {t1, t2}
    Pages = {p1, p2, p3}
    b1 = b1
    b2 = b2
    SubPools <- Pools
    BlocksOf <- OneBlockEach
    Damaged = {p3}
    MaxNodes = 3
    GoOn = TRUE
    NULL = NULL
SPECIFICATION FairSpec
INVARIANTS OpenedPageIsLoaded
CHECK_DEADLOCK FALSE
