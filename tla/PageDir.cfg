CONSTANTS
    Threads = {a, b}
    t = t
    tab = tab
    Names = {t, tab}
    Created = {tab}
    PrefixOf <- Prefixes
    Other = Other
    Capacity = 3
    MaxPages = 4
    PAGEIDNULL = PAGEIDNULL
    NULL = NULL
SPECIFICATION Spec
SYMMETRY ThreadSymmetry
INVARIANTS WellFormed SteadyTablesAreFound
PROPERTIES ImplementsCatalog
CHECK_DEADLOCK FALSE
