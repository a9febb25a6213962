SPECIFICATION FairSpec
CONSTANTS
    Shares = {s1, s2}
    Texts = {}
    Refs = {s2}
    Readers = {r1}
    Admins = {a1}
    NoTime = NoTime
    NoShare = NoShare
    Lifetimes = {1}
    Day = 1
    MaxSave = 2
    DirectLinks = TRUE
    StorageFails = TRUE
    AdminOps = {"extend", "delete"}
    MaxTime = 1
    MaxCount = 0
    MaxUses = 1
    MaxMishaps = 1
INVARIANTS
    FilesMatchRows
    MissedInv
PROPERTIES
    ExpiredRemoved
