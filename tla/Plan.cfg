CONSTANTS
    Id <- WatchIds
    NoId = NoId
    Fires <- Fired
    HostFact <- Facts
    Path <- Paths
    AncestorsOf <- ParentChain
    Bodies <- AllBodies
    Entries = {"chunks", "plan"}
    Invokers <- AllInvokers
    MaxFaults = 1
SPECIFICATION SumSpec
CHECK_DEADLOCK FALSE
INVARIANTS
    DepsBefore
    GateFires
    PlanKept
    RunOrder
    OrderIsBest
