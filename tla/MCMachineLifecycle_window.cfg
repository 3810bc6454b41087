CONSTANTS
    Brokers = {b1}
    Clients = {c1}
    Sessions = {s1, s2}
    Nobody = Nobody
    Operations = {"start"}
    UserBudget = 2
    FaultBudget = 0
    InboxBound = 1
SPECIFICATION FairSpec
CHECK_DEADLOCK FALSE
PROPERTY CloseIsHonoured
PROPERTY RestartComesBack
PROPERTY RestartIsKept
PROPERTY RequestsAreTaken
