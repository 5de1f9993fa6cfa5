SPECIFICATION MCSpec
CONSTANTS
    w1 = w1
    w2 = w2
    Machine = {m1, m2}
    Workload = {w1, w2}
    Commands = {"mesh", "exchange", "leave", "disconnect"}
    Max4 = 2
    Net4 = 2
    Max6 = 2
    Net6 = 2
    Requests = 1
    Id = {i1, i2}
    Shape <- MCShape
    Flags <- MCFlags
    Lists <- MCLists
CHECK_DEADLOCK FALSE
SYMMETRY Symmetry
INVARIANTS MeshServedUntilLeft 
PROPERTIES RulesChangeByOwner CleanupExact
