SPECIFICATION Spec
CONSTANTS
    Nil = Nil
    Daemons <- SomeDaemons
    Binary <- OneVersion
    Budget <- TwoCalls
    Costs <- OneDollar
    MaxCost <- Dollar
    MaxBoots = 2
    MaxCrashes = 0
    MaxRequests = 4
    MaxFaults = 0
CHECK_DEADLOCK FALSE
INVARIANT OneBudgetOverInstances
