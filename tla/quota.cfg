SPECIFICATION FairSpec
CONSTANTS
    f1 = f1
    f2 = f2
    t1 = t1
    Requests <- MCRequests
    Tokens <- MCRequests
    TokenOf <- MCTokenOf
    Size <- MCSize
    TTL <- MCTTL
    MaxSize = 2
    Limit = 2
    Texts <- MCTexts
    Codes = {c1, c2}
    NoCode = NoCode
    MaxTime = 1
    MaxMishaps = 1
INVARIANTS
    TypeOK
    QuotaInv
    CodesUnique
    FilesMatchRows
PROPERTIES
    CapacityReturns
