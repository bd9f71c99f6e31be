SPECIFICATION Spec
CONSTANTS
    a = a
    b = b
    a1 = a1
    a2 = a1
    b1 = b1
    sa = sa
    sa2 = sa
    sb = sb
    None = None
    Id <- MCId
    Registration <- MCRegistration
    IdOf <- MCIdOf
    StoreOf <- MCStoreOf
    MaxOps = 2
    Commands = {"up"}
    MaxConfig = 2
    MayBreak = FALSE
    MayDrift = TRUE
INVARIANTS
    NoSecondGeneration
