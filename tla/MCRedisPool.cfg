SPECIFICATION Spec
CONSTANTS
    Keys = {k1}
    Threads = {"t1", "t2"}
    Contexts = {c1, c2, c3}
    NULL = NULL
    Databases = {0, 1}
    DbOf <- MCDbOf
    max_conn_num = 1
    MaxFaults = 2
    MaxItems = 2
    MaxInt = 1
INVARIANTS
    ContextHasOneOwner
    CommandsStayInTheirDatabase
PROPERTIES
    RefusedCallChangesNothing
SYMMETRY Symmetry
CHECK_DEADLOCK FALSE
