\* Attribute pages of four entries: three data pages each are used before the
\* second attribute page.
CONSTANTS
    AttrsNum = 2
    DataEntries <- OneAndTwo
    AttrEntries = 4
    MaxPages = 24
    MaxRecord = 6
    Value = {v, w}
    PAGEIDNULL = 99
SPECIFICATION Spec
SYMMETRY ValueSymmetry
INVARIANTS TableMatchesPages
PROPERTIES ImplementsColumns
CHECK_DEADLOCK FALSE
