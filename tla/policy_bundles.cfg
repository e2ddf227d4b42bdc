SPECIFICATION Spec
CONSTANTS
    Absent = Absent
    NoBundle = NoBundle
    Environments <- SomeEnvironments
    Files <- SomeFiles
    Bodies <- SomeBodies
    RunBodies <- SomeRunBodies
    Costs <- SomeCosts
    Tools = {"shell", "search"}
    ReadOnly = {"search"}
    MaxInt32 = 7
    SafeDefaults <- Defaults
    MaxBoots = 2
    MaxPosts = 1
    MaxCalls = 3
    MaxToolCalls = 1
    MaxFaults = 1
    MaxSeconds = 1
CHECK_DEADLOCK FALSE
INVARIANTS
    FileApplied
    UnlimitedIsChosen
    BundleGoverns
    DryRunDecides
