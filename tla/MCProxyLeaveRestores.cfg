SPECIFICATION Spec
CONSTANTS
    Machine = {m1, m2}
    Workload = {w1}
    Commands = {"mesh", "leave"}
    Max4 = 2
    Net4 = 2
    Max6 = 2
    Net6 = 2
PROPERTIES LeaveRestores
