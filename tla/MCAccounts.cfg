SPECIFICATION AccountsSpec
CONSTANTS
    a = a
    b = b
    Clients = {a, b}
    Founders = {u, v}
    Others = {x, y}
    Workspaces = {w1, w2}
    Permitted = {p, q}
    Ips = {"ip"}
    MaxTries = 1
    MaxDaily = 1
    MaxFailed = 2
    Invited = {"role"}
    Bound = 3
    Absent = Absent
SYMMETRY Symmetry
INVARIANTS AccountsTypeOK LoginsAreGuarded RolesAreGranted ProfilesHold
PROPERTIES PasswordsAreKept
CHECK_DEADLOCK FALSE
