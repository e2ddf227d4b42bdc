SPECIFICATION FairSpec
CONSTANTS
    Clients = {c1}
    Operations = {"chat", "stream", "step", "checkpoint", "cancel", "otlp"}
    Budget <- AllLimits
    Costs <- TwoCosts
    MaxCost <- MaxTwo
    MaxRequests = 4
    MaxCrashes = 2
    MaxFaults = 0
    Nil = Nil
CHECK_DEADLOCK FALSE
INVARIANTS
    LoopCap
    RunningIsUnderBudget
    RowCurrent
    LossBounded
PROPERTIES
    TerminalRowIsFinal
    RequestsEnd
    HaltReachesStore
