SPECIFICATION FairSpec
CONSTANTS
    s1 = s1
    x1 = x1
    Updates = {u1, u2}
    Passwords = {u1}
    Logins = {l1}
    Saves = {s1, s2}
    Drops = {x1}
    Target <- MCTarget
    Notes = {n1}
    Tags = {t1}
    Deletes = {d1}
    First = First
    None = None
    MaxLog = 2
    MaxPresets = 1
    MaxRequests = 3
    MaxMishaps = 1
INVARIANTS
    TypeOK
    SettingsKept
    MetaInv
PROPERTIES
    ListsAtomic
    RequestsEnd
CHECK_DEADLOCK FALSE
