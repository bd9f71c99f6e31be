SPECIFICATION Spec
CONSTANTS
    a = a
    b = b
    a1 = a1
    a2 = a1
    b1 = b1
    sa = sa
    sa2 = sa
    sb = sb
    None = None
    Id <- MCId
    Registration <- MCRegistration
    IdOf <- MCIdOf
    StoreOf <- MCStoreOf
    MaxOps = 2
    Commands = {"up", "down", "recycle", "status", "abandon"}
    MaxConfig = 1
    MayBreak = TRUE
    MayDrift = TRUE
INVARIANTS
    TypeOK
    SentAtMostOnce
    JournalCovers
    RecordedEndsHold
PROPERTIES
    LivenessAdvances
