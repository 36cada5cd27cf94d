SPECIFICATION Spec
CONSTANTS
    a = a
    b = b
    dot_a = dot_a
    Names = {a, b}
    Aliases = {}
    PathOf <- Paths
    Uploads = {u1}
    Renames = {r1}
    Prints = {p1}
    Inodes = {i1, i2, i3}
    None = None
    Parts = 2
    WriteMayFail = TRUE
PROPERTY CreatedIsStored
\* Requests are finite: it really may stop.
CHECK_DEADLOCK FALSE
