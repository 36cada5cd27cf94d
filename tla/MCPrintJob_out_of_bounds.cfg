CONSTANTS
    r1 = r1
    r2 = r2
    r3 = r3
    r4 = r4
    Requests = {r1, r2, r3, r4}
    connection = r1
    None = None
    Faults = {}
    Lines <- NoLines
    ResendScale = 1000
    MaxQueued = 4
    MaxResponses = 3
    Routes <- Again
    GcodeLengths = {2, 6}
    Corruptions = 0
    Losses = 0
SPECIFICATION JobSpec
INVARIANT LineNumberInBounds
\* The clients' requests are finite: it really may stop.
CHECK_DEADLOCK FALSE
