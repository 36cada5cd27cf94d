SPECIFICATION Spec
CONSTANTS
    Logins = {l1}
    u1 = u1
    u2 = u2
    Users = {u1}
    Permissions <- Viewer
    Asked = {"list_settings"}
    None = None
    Never = Never
    LastDay = 3
SYMMETRY SessionsSymmetry
INVARIANTS
    FreshTokenServes
CHECK_DEADLOCK FALSE
