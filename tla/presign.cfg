SPECIFICATION FairSpec
CONSTANTS
    Commits = {p1, p2}
    Cancels = {x1}
    Cleaner = Cleaner
    Clients = {d1}
    NoFile = NoFile
    StorageFails = TRUE
    MaxMishaps = 1
INVARIANTS
    TypeOK
    PublishedInv
    NothingLeft
PROPERTIES
    SessionEnds
