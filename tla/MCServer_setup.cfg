CONSTANTS
    r1 = r1
    r2 = r2
    r3 = r3
    r4 = r4
    Requests = {r1, r2}
    None = None
    Faults = {"open", "read", "write"}
    Lines <- Setup
    ResendScale = 1000
    MaxQueued = 1
    MaxResponses = 2
    Routes <- OneClose
    GcodeLengths = {}
SPECIFICATION FairSpec
PROPERTIES
    ConnectingResolves
    KilledReaderStops
\* Requests are finite and the process may panic: it really may stop.
CHECK_DEADLOCK FALSE
