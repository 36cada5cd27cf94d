CONSTANTS
    r1 = r1
    r2 = r2
    r3 = r3
    r4 = r4
    Requests = {r1, r2, r3}
    None = None
    Faults = {"open"}
    Lines <- Silent
    ResendScale = 1000
    MaxQueued = 0
    MaxResponses = 0
    Routes <- ConnectRoutes
    GcodeLengths = {}
SPECIFICATION Spec
SYMMETRY RequestSymmetry
INVARIANTS
    NoStrayListener
    AttachedIsVisible
\* Requests are finite and the process may panic: it really may stop.
CHECK_DEADLOCK FALSE
