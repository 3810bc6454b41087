CONSTANTS
    Brokers = {b1, b2}
    Clients = {c1, c2}
    Sessions = {s1, s2}
    Nobody = Nobody
    Operations = {"start", "stop", "maintain"}
    UserBudget = 0
    FaultBudget = 1
    InboxBound = 1
SPECIFICATION Spec
SYMMETRY Interchangeable
CHECK_DEADLOCK FALSE
INVARIANT TypeOK
INVARIANT Ownership
INVARIANT ContainerUnderLock
INVARIANT WindowUnderLock
INVARIANT LiveRecordIsTrue
INVARIANT TakenStopIsKept
PROPERTY RootfsUsedByOne
PROPERTY OnlyOwnerBringsUp
