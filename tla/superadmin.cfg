\* Three requests at once on two super_admins, with fair scheduling.
SPECIFICATION FairSpec
CONSTANTS
    Users = {u1, u2}
    Admins = {u1, u2}
    SuperAdmins = {u1, u2}
    Tokens = {t1}
    Families = {f1}
    Resets = {}
    Passwords = {w1}
    Requests = {p1, p2, p3}
    MaxTries = 2
    Calls = {"login", "refresh", "disable", "reactivate"}
    Nil = Nil
INVARIANTS
    TypeOK
    SuperAdminRemains
PROPERTY RequestsEnd
