SPECIFICATION Spec
CONSTANTS
    Clients = {c1, c2}
    Operations = {"chat", "stream", "cancel"}
    Budget <- Spending
    Costs <- TwoCosts
    MaxCost <- MaxTwo
    MaxRequests = 3
    MaxCrashes = 1
    MaxFaults = 1
    Nil = Nil
CHECK_DEADLOCK FALSE
SYMMETRY ClientSymmetry
INVARIANTS
    TypeOK
    LedgerExact
    AnswersNameTheHalt
    OvershootBounded
    NothingChargedTwice
PROPERTIES
    HaltIsFinal
