SPECIFICATION Spec
CONSTANTS
    Attempt = {a1}
    MaxAttempts = 1
    Interval = 2
    MaxStamp = 2
    MaxBoot = 3
    MaxClock = 3
SYMMETRY Symmetry
INVARIANTS
    TypeOK
    AuthorityKept
    RecordedEndsStand
    ReportedIsDurable
PROPERTIES
    RemovalAwaitsInterval
CHECK_DEADLOCK FALSE
