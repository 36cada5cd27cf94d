CONSTANTS
    r1 = r1
    r2 = r2
    r3 = r3
    r4 = r4
    Requests = {r1, r2, r3}
    None = None
    Faults = {"body"}
    Lines <- PrintLines
    ResendScale = 1
    MaxQueued = 1
    MaxResponses = 1
    Routes <- TwoPrints
    GcodeLengths = {1, 2}
SPECIFICATION Spec
INVARIANTS
    TypeOK
    EndedPrintNotShown
    PreambleFirst
\* Requests are finite and the process may panic: it really may stop.
CHECK_DEADLOCK FALSE
