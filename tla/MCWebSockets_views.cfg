SPECIFICATION Spec
CONSTANTS
    Clients = {c1, c2}
    None = None
    Updates = {"CONNECTED"}
    MaxEvents = 1
    MaxInbox = 1
    MayStall = TRUE
SYMMETRY ClientSymmetry
INVARIANTS
    TypeOK
    ToldCurrent
PROPERTIES
    ImplementsViews
CHECK_DEADLOCK FALSE
