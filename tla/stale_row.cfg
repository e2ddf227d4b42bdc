SPECIFICATION Spec
CONSTANTS
    Clients = {c1, c2}
    Operations = {"chat", "cancel"}
    Budget <- TimeOnly
    Costs <- OneCost
    MaxCost <- MaxOne
    MaxRequests = 3
    MaxCrashes = 0
    MaxFaults = 0
    Nil = Nil
CHECK_DEADLOCK FALSE
INVARIANT HaltedRowSaysSo
