SPECIFICATION Spec
SYMMETRY MCSymmetry
CONSTANTS
    u1 = u1
    u2 = u2
    Uploads <- MCUploads
    Idx <- MCEach
    Resumes = {}
    Completions = {c1, c2}
    Cancels = {x1}
    Cleaner = Cleaner
    NoFile = NoFile
    Total = 2
    StorageFails = TRUE
    MaxRaises = 0
    MaxCrashes = 0
INVARIANTS
    TypeOK
    PublishedInv
    MergingIsRemoved
