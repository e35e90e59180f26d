CONSTANTS
    Decls <- WriteDecls
    Entries <- WriteEntries
    MaxPlants = 1
    MaxRuns = 2

    EditFiles <- SmallFiles
    EditCalls <- LineCalls
    EditOwns <- KeysOwn
    EditOverlap <- KeysOverlap
    MaxEdits = 2

    Constructors = {"Present", "PresentEnsure", "PresentSecret", "Absent", "NewTarget"}
    DeclPaths <- PathForms
    DeclNames <- OptionCalls
    MaxOptions = 3

    SyncSources <- SmallTrees
    SyncDests <- FoundTrees
    SyncDecls <- DirDecls
    Walk <- TreeWalk
    Render <- TreeRender
    Backup <- TreeBackup

    LinkWorlds <- LinkPlaces
    Links <- LinkDecls
    Plants <- LinkPlants

    ServiceDecls <- UnitDecls
    ServiceHosts <- UnitHosts
    NoFlags = "undeclared"
    MaxApplies = 2
    MaxFails = 1

    RcCases <- RcFiles
    RcValues = {"old", "new"}

    Characters = {"a", "b"}
    NL = "nl"
    Families <- SecretFamilies
    MinContainedLen = 2
    MinStrongLen = 2
    MaxSplitGuard = 4
    MaxWrite = 2

SPECIFICATION SumSpec
CHECK_DEADLOCK FALSE
INVARIANTS
    OthersKept AppliesSettle ReportsTrue
    WholeFiles AttributesSafe
    PlanMirrorsFile
    PreviewHolds
    DataKept
    SecretsHidden PendingBounded
