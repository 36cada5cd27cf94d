SPECIFICATION FairSpec
CONSTANTS
    index = index
    script = script
    Files = {index, script}
    Releases = {1, 2, 3}
    Contains <- Archives
    None = None
    Damaged = Damaged
    MaxFaults = 3
    MaxRedirects = 1
INVARIANTS
    TypeOK
    ClientIsWhole
PROPERTY ServerStarts
