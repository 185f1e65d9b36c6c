SPECIFICATION Spec
CONSTANTS
    r1 = r1  r2 = r2  s1 = s1  f1 = f1  f2 = f2
    root = root  lisy = lisy  wzr = wzr
    None = None
    Shipped <- OneUser
    Req = {r1, r2}
    Session = {s1}
    Login = {root, lisy}
    Grantee = {}
    File = {f1}
    MaxUser = 3
    MaxProject = 2
    Kinds = {"login", "logOut", "add", "edit", "del", "addUser", "editUser"}
    Faults = {"shell", "delete"}
    StalePages = FALSE
SYMMETRY Symmetry
INVARIANTS TypeOK RowsApart ConfirmedClosed
CHECK_DEADLOCK FALSE
