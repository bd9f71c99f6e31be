SPECIFICATION FairSpec
CONSTANTS
    Client = {c1, c2}
    m1 = m1
    m2 = m2
    Manager = {m1, m2}
    NoOne = NoOne
    Commands <- MCCommands
    Disks <- MCDisks
    MaxPower = 1
INVARIANTS
    TypeOK
    AcknowledgedSurvives
    RefusedLeavesNothing
PROPERTIES
    NeverReselectsUnasked
    CommandsEnd
CHECK_DEADLOCK FALSE
