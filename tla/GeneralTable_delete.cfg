CONSTANTS
    AttrsNum = 2
    DataEntries <- OneAndTwo
    AttrEntries = 4
    MaxPages = 24
    MaxRecord = 6
    Value = {v, w}
    PAGEIDNULL = 99
SPECIFICATION Spec
SYMMETRY ValueSymmetry
INVARIANTS SystemPagesStay
CHECK_DEADLOCK FALSE
