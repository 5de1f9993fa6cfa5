SPECIFICATION MCSpec
CONSTANTS
    Machine = {m1, m2}
    Requests = 1
    MaxRef = 2
    Max4 = 2
    Net4 = 2
    Max6 = 2
    Net6 = 2
    Caller = {f1, f2}
    Cluster = {k1, k2}
    MaxConnect = 2
SYMMETRY MachineSymmetry
INVARIANTS  TunnelsHeld
 
