SPECIFICATION AccountsSpec
CONSTANTS
    Users = {root, u1}
    Root = root
    Reqs = {r1, r2}
    StatusRequests = {"ACTIVE", "DEACTIVATED", "INVITED"}
PROPERTIES AnActiveAdminRemains
