CONSTANTS
    r1 = r1
    r2 = r2
    r3 = r3
    r4 = r4
    Requests = {r1, r2, r3, r4}
    connection = r1
    None = None
    Faults = {}
    Lines <- NoLines
    ResendScale = 2
    MaxQueued = 6
    MaxResponses = 3
    Routes <- Interrupted
    GcodeLengths = {5}
    Corruptions = 3
    Losses = 2
SPECIFICATION FairJobSpec
INVARIANTS
    JobTypeOK
    LineNumberInBounds
PROPERTIES
    ImplementsPrintout
    PrintFinishes
    RefusedPrintEnds
    MessageGetsThere
\* The clients' requests are finite: it really may stop.
CHECK_DEADLOCK FALSE
