SPECIFICATION Spec
CONSTANTS
    Nil = Nil
    Daemons <- SomeDaemons
    Binary <- Versions
    Budget <- TwoCalls
    Costs <- OneDollar
    MaxCost <- Dollar
    MaxBoots = 3
    MaxCrashes = 1
    MaxRequests = 4
    MaxFaults = 2
CHECK_DEADLOCK FALSE
INVARIANTS
    SchemaReady
    LedgerComplete
    FailoverKeepsBudget
