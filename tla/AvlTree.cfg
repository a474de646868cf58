CONSTANTS
    Nodes <- SmallNodes
    Page <- SmallPage
    System = {0, 1, 2}
    Starts <- SmallStarts
    NULL = 99
SPECIFICATION Spec
INVARIANTS SearchesAreRight StaysBalanced
PROPERTIES CallsEnd
CHECK_DEADLOCK FALSE
