SPECIFICATION Spec
CONSTANTS
    s = s
    t = t
    u = u
    v = v
    Graphs <- MCGraphs
    Faults = {"dispatch", "lost", "replay", "rpc", "restart", "slow"}
CHECK_DEADLOCK FALSE
INVARIANTS InputsComplete SuccessIsComplete
PROPERTIES StepsEndOnce RunSettles
