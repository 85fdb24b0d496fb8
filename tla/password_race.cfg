SPECIFICATION Spec
CONSTANTS
    Users = {u1}
    Admins = {u1}
    SuperAdmins = {u1}
    Tokens = {t1, t2}
    Families = {f1}
    Resets = {}
    Passwords = {w1, w2}
    Requests = {p1, p2}
    MaxTries = 2
    Calls = {"login", "refresh", "change"}
    Nil = Nil
SYMMETRY Symmetry
INVARIANT SessionsKnowPassword
