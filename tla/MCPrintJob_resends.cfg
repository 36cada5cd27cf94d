CONSTANTS
    r1 = r1
    r2 = r2
    r3 = r3
    r4 = r4
    Requests = {r1, r2, r3, r4}
    connection = r1
    None = None
    Faults = {}
    Lines <- NoLines
    ResendScale = 1000
    MaxQueued = 6
    MaxResponses = 3
    Routes <- Interrupted
    GcodeLengths = {4}
    Corruptions = 2
    Losses = 1
SPECIFICATION FairJobSpec
PROPERTIES
    RefusedPrintEnds
    MessageGetsThere
\* The clients' requests are finite: it really may stop.
CHECK_DEADLOCK FALSE
