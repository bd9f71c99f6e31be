SPECIFICATION Spec
CONSTANTS
    Dir = {d1, d2}
    Inode = {i1, i2, i3}
    a = a
    b = b
    Chunk <- Chunks
    Body <- Texts
    Hooks = h
    None = None
    MaxSize = 2
    MaxTime = 1
    MaxWrites = 2
SYMMETRY Symmetric
INVARIANTS TypeOK AdmittedIsOneVersion
PROPERTIES InstallLosesNothing
CHECK_DEADLOCK FALSE
