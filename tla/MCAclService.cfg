SPECIFICATION ServiceSpec
SYMMETRY Symmetry
CONSTANTS
    Tenants = {t1}
    Docs = {d1}
    Users = {u1}
    Reqs = {r1, r2}
    NoGrant = NoGrant
    Forever = Forever
    Absent = Absent
    None = None
    GivenTimes = {1}
    MaxTime = 2
INVARIANTS
    AnsweredWithinRequest
    RevokedUntilGranted
PROPERTIES
    OnlyCloses
