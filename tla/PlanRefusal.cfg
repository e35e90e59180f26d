CONSTANTS
    Id <- WatchIds
    NoId = NoId
    Fires <- Fired
    HostFact <- Facts
    Path <- Paths
    AncestorsOf <- ParentChain
    Bodies <- DepBodies
    Entries = {"chunks"}
    Invokers <- SudoUser
    MaxFaults = 0
SPECIFICATION Spec
CHECK_DEADLOCK FALSE
INVARIANT RefusedIsUntouched
