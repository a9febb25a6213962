SPECIFICATION FairSpec
CONSTANTS
    w1 = w1
    w2 = w2
    s1 = s1
    s2 = s2
    s3 = s3
    s4 = s4
    Workers = {w1, w2}
    Setups = {s1, s2, s3, s4}
    Host <- MCHost
    Last = 3
    Once = {2}
    Threads = 2
    None = None
    MaxStarts = 3
    MaxCrashes = 1
INVARIANTS
    TypeOK
    AnswersTrue
    StartsWell
PROPERTIES
    InitializesOnce
    LockIsTaken
CHECK_DEADLOCK FALSE
