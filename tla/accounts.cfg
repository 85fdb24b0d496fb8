SPECIFICATION Spec
CONSTANTS
    Users = {u1, u2}
    Admins = {u1}
    SuperAdmins = {u1}
    Tokens = {t1, t2}
    Families = {f1}
    Resets = {r1}
    Passwords = {w1, w2}
    Requests = {p1, p2}
    MaxTries = 2
    Calls = {"login", "refresh", "change", "confirm", "delete"}
    Nil = Nil
SYMMETRY Symmetry
PROPERTIES
    ResetConsumesToken
    TokensOnlyDecay
