CONSTANTS
    Wrappers <- AllWrappers
    CmdTimeout = 3
    BuiltinTimeout = 9
    CancelGrace = 1
    Overrun = 1
    MaxOps = 2
    MaxSlow = 1

    Pids <- TreePids
    Leader = "leader"
    Reused <- TreePids
    MaxRounds = 2
    MaxBirths = 4
    MaxStrangers = 1
    MaxResumes <- TreeResumes
    TableFails = TRUE
    Suid <- TreeSuid

    Hosts <- FleetHosts
    Groups = {"a", "b"}
    GroupOf <- FleetGroupOf
    Limit = 1
    HasTimeout = TRUE

    Settings <- DeliverySettings
    Refs = {"conf", "secret"}
    Entries = {1, 2}
    Locations = {"usr", "local"}
    Dest = "local"
    TargetPath = "unset"
    NoPath = "unset"

    Pushes = {1, 2, 3}
    Platform <- BuildPlatform
    MaxDirs = 3
    MaxChanges = 2

    Callers = {1, 2}
    Spellings <- SecretSpellings
    Canon <- SecretCanon
    NoKey = "none"
    Mapped = {"k"}
    Values = {"v", "w"}
    Stores <- SecretStores
    MaxLookups = 1
    MaxEvents = 1

SPECIFICATION SumSpec
CHECK_DEADLOCK FALSE
INVARIANTS
    GraceSuffices ChildRunsOn
    ReportsTrue
    NoStrangerKilled TreeDealtWith
    FreshBlobs SecretsSealed
    FailuresContained
PROPERTY CallsReturn
