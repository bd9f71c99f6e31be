SPECIFICATION Spec
CONSTANTS
    Client = {c1}
    m1 = m1
    m2 = m2
    Manager = {m1, m2}
    NoOne = NoOne
    Commands <- MCCommands
    Disks <- MCDisks
    MaxPower = 0
INVARIANT
    NeverOverwritten
CHECK_DEADLOCK FALSE
