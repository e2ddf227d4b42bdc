SPECIFICATION Spec
CONSTANTS
    Calls = {c1}
    Humans = {h1}
    Kinds = {"mcp", "sdk"}
    SdkEffects = {""}
    Tools = {"shell", "search"}
    ReadOnly = {"search"}
    GlobalAllow <- AllowAll
    DefaultSafe = TRUE
    Bundle <- NamesSearch
    NoBundle = NoBundle
    MaxCrashes = 0
    MaxFaults = 1
CHECK_DEADLOCK FALSE
INVARIANT BundleGatesEveryCall
