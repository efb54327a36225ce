SPECIFICATION FairSpec
CONSTANTS
    File <- MCFile
    NoFile = "none"
    Walk <- MCWalk
    Excluded = {"e"}
    Scenario <- MCScenario
    NamesMissing = {"c"}
    AllowMissing = TRUE
    GasSchedule = {"default", "v3", "v4"}
    Unavailable = {"v4"}
    NoVM = "no VM"
    Mark = {"m1", "m2"}
    AnyGas = "any"
    ForceTraceGas = FALSE
    MaxCalls = 3
INVARIANTS
    TypeOK
    StackMatchesFrames
    TracedAsDeclared
    ResolverOfFile
    OwnGasCheck
PROPERTIES
    ImplementsDirectoryRun
    DirectoryRunEnds
CHECK_DEADLOCK FALSE
