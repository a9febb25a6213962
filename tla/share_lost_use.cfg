SPECIFICATION Spec
CONSTANTS
    Shares = {s1}
    Texts = {s1}
    Refs = {}
    Readers = {r1}
    Admins = {a1}
    NoTime = NoTime
    NoShare = NoShare
    Lifetimes = {1}
    Day = 1
    MaxSave = 2
    DirectLinks = FALSE
    StorageFails = FALSE
    AdminOps = {"rename", "extend", "permanent", "reset", "edit", "delete"}
    MaxTime = 2
    MaxCount = 1
    MaxUses = 2
    MaxMishaps = 0
INVARIANTS
    DownloadsWithinLimit
