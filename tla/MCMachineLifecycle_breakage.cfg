CONSTANTS
    Brokers = {b1}
    Clients = {c1}
    Sessions = {s1, s2}
    Nobody = Nobody
    Operations = {"start"}
    UserBudget = 1
    FaultBudget = 1
    InboxBound = 1
SPECIFICATION FairSpec
CHECK_DEADLOCK FALSE
PROPERTY CloseIsHonoured
PROPERTY RequestedStopSucceeds
