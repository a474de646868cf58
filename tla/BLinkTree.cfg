CONSTANTS
    Thread = {t1, t2}
    Key = {1, 2, 3, 4, 5, 6, 7, 8, 9, 10, 11, 12, 13, 14, 15}
    LeafEntries = 3
    PAIRENTRYS = 5
    MaxPages = 14
    Searched = {2, 3, 4, 6, 8, 10}
    Trees <- SmallTrees
    PAGEIDNULL = 99
SPECIFICATION Spec
INVARIANTS TypeOK  
PROPERTIES  ImplementsIndex OperationsReturn
CHECK_DEADLOCK FALSE
