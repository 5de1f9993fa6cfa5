SPECIFICATION QuietSpec
CONSTANTS
    Machine = {m1, m2}
    Requests = 1
    MaxRef = 2
    Max4 = 2
    Net4 = 2
    Max6 = 2
    Net6 = 2
INVARIANT TunnelAddressMarked
