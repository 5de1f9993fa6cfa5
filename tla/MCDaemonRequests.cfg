SPECIFICATION QuietSpec
CONSTANTS
    Machine = {m1}
    Requests = 2
    MaxRef = 1
    Max4 = 1
    Net4 = 1
    Max6 = 1
    Net6 = 1
PROPERTY RequestsEnd
