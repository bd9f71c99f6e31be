SPECIFICATION Spec
CONSTANTS
    a = a
    b = b
    a1 = a1
    a2 = a2
    b1 = b1
    sa = sa
    sa2 = sa2
    sb = sb
    None = None
    Id <- MCId
    Registration <- MCRegistration
    IdOf <- MCIdOf
    StoreOf <- MCStoreOf
    MaxOps = 2
    Commands = {"up", "status", "rebind", "abandon"}
    MaxConfig = 2
    MayBreak = FALSE
    MayDrift = FALSE
INVARIANTS
    NoSecondGeneration
    OwnerEvidenceHolds
