SPECIFICATION Spec
CONSTANTS
    a = a  b = b  p1 = p1  p2 = p2  c1 = c1  c2 = c2
    Proc = {p1, p2}
    NoProc = NoProc
    Path = {a, b}
    NoPath = NoPath
    Content = {c1, c2}
    Missing = Missing
    DirOf <- TwoDirs
    Variants <- Overlapping
    SyncDirs = {1, 2}
    MaxKills = 1
    MaxPowerLosses = 1
    MaxFaults = 2
    MaxEdits = 1
SYMMETRY Symmetric
CONSTRAINT Stories
INVARIANTS
    Serialization
    NoCircularWait
    SignalSurvivesKill
    SignalSurvivesPowerLoss
    OutcomeIsTrue
PROPERTY BackupsSurvive
