SPECIFICATION Spec
CONSTANTS
    Users = {root, u1}
    Root = root
    Reqs = {r1, r2}
    StatusRequests = {"ACTIVE", "DEACTIVATED", "INVITED"}
    Procs = {server, worker}
    Keys = {k1, k2, k3}
    NoKey = NoKey
    Unusable = Unusable
    Obstacles = TRUE
    Writers = {w1, w2}
    Texts <- Texts4
    Empty = "empty"
    Stored <- JsonbStore
    Joined <- JoinedColumns
    MaxRows = 3
    Steps <- AllWorkflows
    Active = {"lead", "won", "inactive"}
    Runs = {run1}
    Actors = {a1, a2}
    MaxInterrupts = 2
    Ips = {"ip"}
    Logins = {"login"}
    Callers = {c1, c2}
    MaxAttempts = 2
    Window = 1
    Lockout = 3
    Capacity = 1
    MaxTime = 4
    MaxSecrets = 1
SYMMETRY Symmetry
CHECK_DEADLOCK FALSE
INVARIANTS
    NoLoginBeforeAcceptance
    ConvergedUnlessReplaced SecretsStayReadable
    AlarmsHaveCauses AlterationIsDetected RemovalIsDetected
    RunsAreConsistent FirstDraftIsApproved AtMostOncePerAttempt
    AttemptsAreBounded CodeWorksOnce
PROPERTIES
    LastAdminFallsByCrossing AcceptedAccountStaysDown
    KeyFileIsNeverReplaced
    TerminalIsFinal
    LockIsKept
