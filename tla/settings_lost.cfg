SPECIFICATION Spec
CONSTANTS
    s1 = s1
    x1 = x1
    Updates = {u1, u2}
    Passwords = {u1}
    Logins = {}
    Saves = {s1, s2}
    Drops = {x1}
    Target <- MCTarget
    Notes = {}
    Tags = {}
    Deletes = {}
    First = First
    None = None
    MaxLog = 2
    MaxPresets = 1
    MaxRequests = 3
    MaxMishaps = 1
INVARIANTS
    NoLostUpdate
CHECK_DEADLOCK FALSE
