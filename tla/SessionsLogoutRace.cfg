CONSTANTS
    Users = {u1}
    Tokens = {t1, t2, t3}
    Reqs = {p1, p2}
    Roles = {"SALES"}
    NoToken = NoToken
    NoUser = NoUser
    MaxVersion = 2
    MaxWork = 5
    MaxPassword = 0
SPECIFICATION Spec
INVARIANTS RevokedFamiliesAreDead
