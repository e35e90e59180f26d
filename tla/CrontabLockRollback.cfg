CONSTANTS
    p1 = p1
    p2 = p2
    p3 = p3
    Procs <- ThreeProcs
    MaxInode = 6
    ExactModes = {TRUE}
    LockSupport = {TRUE, FALSE}
    SetupFails = {}
    FixFails = {3}
    MaxCrashes = 0
SPECIFICATION Spec
CHECK_DEADLOCK FALSE
SYMMETRY Symmetry
INVARIANT Exclusive
