SPECIFICATION KeySpec
CONSTANTS
    Procs = {server, worker}
    Keys = {k1, k2, k3}
    NoKey = NoKey
    Unusable = Unusable
    Obstacles = FALSE
INVARIANTS Converged
