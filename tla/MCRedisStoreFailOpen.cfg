SPECIFICATION Spec
CONSTANTS
    Clients = {c1}
    Docs = {d1}
    Users = {u1}
    Absent = Absent
    Forever = Forever
    Ends = {1, 3}
    Second = 2
    MaxClock = 2
    MaxOps = 2
    MaxUnscripted = 2
    MaxLosses = 1
PROPERTIES
    FailClosed
