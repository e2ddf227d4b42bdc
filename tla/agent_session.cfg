SPECIFICATION FairSpec
CONSTANTS
    Nil = Nil
    Budget <- SixLoops
    Total = 3
    CallCost <- OneToken
    MaxFailures = 4
CHECK_DEADLOCK FALSE
INVARIANTS
    NoItemSkipped
    RedoneOncePerFailure
    WorkWithinLoops
PROPERTIES
    AgentFinishes
