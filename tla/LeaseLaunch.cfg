SPECIFICATION FairSpec
CONSTANT
    MaxSignals = 2
INVARIANTS
    TypeOK
    InterruptAborts
    EndedMeansEnded
PROPERTIES
    SignalsReachTheChild
    LaunchEnds
CHECK_DEADLOCK FALSE
