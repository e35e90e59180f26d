CONSTANTS
    p1 = p1
    p2 = p2
    p3 = p3
    Procs <- ThreeProcs
    MaxInode = 6
    ExactModes = {TRUE, FALSE}
    LockSupport = {TRUE, FALSE}
    SetupFails = {1, 2, 3}
    FixFails = {1, 2}
    MaxCrashes = 1
SPECIFICATION SumSpec
CHECK_DEADLOCK FALSE
SYMMETRY Symmetry
INVARIANTS Exclusive Settled OthersUnharmed
PROPERTY UpdatesAreAtomic
