SPECIFICATION Spec
CONSTANTS
    Runs = {"r1", "r2"}
    RunName <- OneNamed
    Calls = {c1}
    RunOf <- AllOfR1
    Price <- TwoDollars
    MaxInstant = 1
    MaxLedger = 2
    MaxMetered = 2
    Null = Null
INVARIANTS
    FiguresFitEntries
    ApprovedHasDecision
    ChainDetectsTampering
    WindowsPartition
PROPERTIES
    CountersMonotone
