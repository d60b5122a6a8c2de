SPECIFICATION Spec
CONSTANTS
    Clients = {c1, c2}
    Docs = {d1, d2}
    Users = {u1}
    Absent = Absent
    Forever = Forever
    Ends = {3}
    Second = 2
    MaxClock = 3
    MaxOps = 3
    MaxUnscripted = 2
    MaxLosses = 1
SYMMETRY Symmetry
INVARIANTS
    TypeOK
    IndexesAgree
    AccessFollowsHistory
    RevokedStaysRevoked
PROPERTIES
    AllowedWasOpen
