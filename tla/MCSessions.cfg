CONSTANTS
    Users = {u1}
    Tokens = {t1, t2, t3}
    Reqs = {p1, p2}
    Roles = {"SALES"}
    NoToken = NoToken
    NoUser = NoUser
    MaxVersion = 2
    MaxWork = 4
    MaxPassword = 0
SPECIFICATION FairSpec
INVARIANTS RotationIsLinear SpentHasSuccessor
PROPERTIES RevocationKillsAccess RefinesRefreshFamily EveryRequestEnds
