CONSTANTS
    r1 = r1
    r2 = r2
    r3 = r3
    r4 = r4
    Requests = {r1, r2, r3}
    None = None
    Faults = {}
    Lines <- Marlin
    ResendScale = 1000
    MaxQueued = 2
    MaxResponses = 1
    Routes <- LosePrint
    GcodeLengths = {2}
SPECIFICATION Spec
PROPERTIES
    PrintHasBridge
\* Requests are finite and the process may panic: it really may stop.
CHECK_DEADLOCK FALSE
