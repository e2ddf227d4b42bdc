SPECIFICATION FairSpec
CONSTANTS
    Calls = {c1}
    Humans = {h1, h2}
    Kinds = {"mcp", "sdk"}
    SdkEffects = {"", "write"}
    Tools = {"shell", "search", "email"}
    ReadOnly = {"search"}
    GlobalAllow <- AllowShellSearch
    DefaultSafe = TRUE
    Bundle <- NamesSearch
    NoBundle = NoBundle
    MaxCrashes = 1
    MaxFaults = 1
CHECK_DEADLOCK FALSE
INVARIANTS
    NoUnapprovedExecution
    AcknowledgedIsRecorded
    AuditedBeforeExecuted
    NoLeakedWaiter
PROPERTIES
    ImplementsGate
    McpCallsEnd
    DecidersReturn
