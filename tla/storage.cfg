SPECIFICATION FairSpec
CONSTANTS
    Files = {f1, f2, f3}
    Chunked = {f3}
    Day = Day
    Nothing = Nothing
INVARIANTS
    TypeOK
    SavedKept
    OnlyChunksStay
PROPERTIES
    EmptyRemoved
CHECK_DEADLOCK FALSE
