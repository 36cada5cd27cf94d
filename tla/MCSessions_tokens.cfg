SPECIFICATION Spec
CONSTANTS
    Logins = {l1, l2}
    u1 = u1
    u2 = u2
    Users = {u1, u2}
    Permissions <- Admin
    Asked = {"ping", "list_settings", "update_settings", "upload_file", "create_connection", "cancel_print"}
    None = None
    Never = Never
    LastDay = 4
SYMMETRY SessionsSymmetry
INVARIANTS
    TypeOK
    RememberedIsSelected
CHECK_DEADLOCK FALSE
