CONSTANTS
    Brokers = {b1}
    Clients = {c1, c2}
    Sessions = {s1, s2}
    Nobody = Nobody
    Operations = {"start"}
    UserBudget = 0
    FaultBudget = 0
    InboxBound = 1
SPECIFICATION Spec
CHECK_DEADLOCK FALSE
PROPERTY FailureIsOfThisStart
