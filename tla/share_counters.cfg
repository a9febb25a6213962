SPECIFICATION Spec
SYMMETRY RequestSymmetry
CONSTANTS
    Shares = {s1}
    Texts = {}
    Refs = {}
    Readers = {r1, r2}
    Admins = {a1}
    NoTime = NoTime
    NoShare = NoShare
    Lifetimes = {1}
    Day = 1
    MaxSave = 2
    DirectLinks = FALSE
    StorageFails = FALSE
    AdminOps = {"rename", "extend", "permanent", "reset", "edit", "delete"}
    MaxTime = 1
    MaxCount = 2
    MaxUses = 2
    MaxMishaps = 0
INVARIANTS
    TypeOK
    BudgetInv
    SweepInv
    ViewsAgree
PROPERTIES
    RefinesBudget
