\* Three refreshes, logins and logouts at once on the sessions of one account.
SPECIFICATION Spec
CONSTANTS
    Users = {u1}
    Admins = {u1}
    SuperAdmins = {u1}
    Tokens = {t1, t2, t3}
    Families = {f1}
    Resets = {}
    Passwords = {w1}
    Requests = {p1, p2, p3}
    MaxTries = 2
    Calls = {"login", "refresh", "logout"}
    Nil = Nil
SYMMETRY Symmetry
INVARIANTS
    RotationIsLinear
    OneUnusedPerFamily
    NoFalseReuseAlarm
PROPERTIES
    SessionsAreLineages
