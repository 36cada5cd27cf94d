SPECIFICATION FairSpec
CONSTANTS
    Clients = {c1}
    None = None
    Updates = {"CONNECTED", None}
    MaxEvents = 1
    MaxInbox = 2
    MayStall = TRUE
PROPERTIES
    MainReturns
    GoneIsRemoved
    EverybodyLearns
CHECK_DEADLOCK FALSE
