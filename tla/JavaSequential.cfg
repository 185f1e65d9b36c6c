SPECIFICATION FairSpec
CONSTANTS
    r1 = r1  r2 = r2  s1 = s1  f1 = f1  f2 = f2
    root = root  lisy = lisy  wzr = wzr
    None = None
    Shipped <- TwoUsers
    Req = {r1}
    Session = {s1}
    Login = {root, lisy}
    Grantee = {lisy}
    File = {f1, f2}
    MaxUser = 2
    MaxProject = 2
    Kinds = {"login", "logOut", "add", "edit", "del", "delUser", "restart"}
    Faults = {"exec", "shell", "delete"}
    StalePages = FALSE
INVARIANTS RowHasDir EditKept PurgeReachesAll
PROPERTIES EveryRequestEnds
