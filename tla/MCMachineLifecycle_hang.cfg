CONSTANTS
    Brokers = {b1}
    Clients = {c1, c2}
    Sessions = {s1}
    Nobody = Nobody
    Operations = {"start", "stop"}
    UserBudget = 1
    FaultBudget = 0
    InboxBound = 1
SPECIFICATION FairSpec
CHECK_DEADLOCK FALSE
PROPERTY CloseIsHonoured
