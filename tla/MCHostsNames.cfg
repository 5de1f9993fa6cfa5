SPECIFICATION MCSpec
CONSTANTS
    c1 = c1
    Lite = none
    Conn = {c1}
    Full = {c1}
    Short = a
    Long = b
    Domain = {a, b}
    NamesOf <- MCNamesOf
    IP = {i}
    Within <- Contained
    Resolved = {b}
    UserLines <- MCUserLines
    MaxServers = 3
    MaxChange = 1
CHECK_DEADLOCK FALSE
INVARIANTS
    UserLinesKept
