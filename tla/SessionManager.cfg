SPECIFICATION Spec
CONSTANTS
    Op = {o1, o2, o3}
    Handle = {h1, h2}
    Key = {k1}
    NoKey = NoKey
    NoOp = NoOp
    NoHandle = NoHandle
    NoReq = NoReq
    Activity = {"idle", "busy"}
    MaxGen = 3
CONSTRAINT Few
SYMMETRY Symmetry
INVARIANTS
    TypeOK
    NoStartAfterFinalAnswer
    
    StartsAtMostOnce
    KeyGuardsOneGeneration
PROPERTIES
    NoGenerationReturns
    ImplementsAdmission
