SPECIFICATION Spec
CONSTANTS
    Calls = {c1}
    Humans = {h1}
    Kinds = {"mcp"}
    SdkEffects = {"write"}
    Tools = {"shell"}
    ReadOnly = {}
    GlobalAllow <- AllowAll
    DefaultSafe = TRUE
    Bundle = NoBundle
    NoBundle = NoBundle
    MaxCrashes = 0
    MaxFaults = 0
CHECK_DEADLOCK FALSE
PROPERTY NoToolAfterHalt
