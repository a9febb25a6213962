SPECIFICATION FairSpec
CONSTANTS
    u1 = u1
    u2 = u2
    Uploads <- MCUploads
    Idx <- MCSame
    Resumes = {r1}
    Completions = {c1}
    Cancels = {}
    Cleaner = Cleaner
    NoFile = NoFile
    Total = 1
    StorageFails = FALSE
    MaxRaises = 1
    MaxCrashes = 1
INVARIANTS
    RecordedIsStored
    
PROPERTIES
    SessionEnds
