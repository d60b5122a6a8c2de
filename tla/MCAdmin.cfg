SPECIFICATION Spec
CONSTANTS
    Slots = {s1, s2}
    Users = {u1}
    Docs = {d1, d2}
    Tenants = {t1, t2}
    None = None
    Archived = {d1, d2}
    Matches = {d1, d2}
    Colons = {t2}
    Limits <- LimitsOfBothSigns
    OldLog <- MixedLog
    ExactSearch = FALSE
    MaxOps = 3
    MaxUnindexed = 2
    MaxFaults = 1
SYMMETRY Symmetry
INVARIANTS
    TypeOK
    StoresFollowHistory
    AuditTellsTheTruth
    ListedWasThere
    ListingComplete
    NewestEntriesShown
