SPECIFICATION Spec
CONSTANTS
    Clients = {c1}
    None = None
    Updates = {"CONNECTED"}
    MaxEvents = 1
    MaxInbox = 1
    MayStall = FALSE
INVARIANT PongCanBeSent
CHECK_DEADLOCK FALSE
