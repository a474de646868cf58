\* A stack page holds one id besides entry 0: four ids make two pages.
\* A page lost by a reopened pool may be waited for without end, so the system
\* may really stop.
CONSTANTS
    PAGEIDNULL = 99
    MaxPages = 6
    Capacity = 1
    MaxBatch = 2
SPECIFICATION FairSpec
INVARIANTS TypeOK NoIdLostOrDoubled
PROPERTIES ImplementsAllocator CallsReturn
CHECK_DEADLOCK FALSE
