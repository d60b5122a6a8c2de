SPECIFICATION Spec
CONSTANTS
    Tenants = {t1}
    Docs = {d1, d2}
    Users = {u1, u2}
    NoGrant = NoGrant
    Forever = Forever
    Absent = Absent
    MaxTime = 2
INVARIANTS
    AnswersAreExact
PROPERTIES
    ImplementsAclStore
