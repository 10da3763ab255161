SPECIFICATION Spec
CONSTANTS
    StarterBalance = 3
    u1 = u1
    u2 = u2
    r1 = r1
    r2 = r2
    r3 = r3
    Users = {u1, u2}
    Runs = {r1, r2, r3}
    Engines = {e1, e2}
    Owner <- MCOwner
    P90 <- MCP90
    Estimate = 2
    Larger = 2
    Costs = {3}
    MaxAttempts = 1
    GlobalMax = 2
    PerUserMax = 1
    Finals = {"succeeded"}
    Faults = {"retry", "setup", "crash", "restart", "sweep"}
SYMMETRY EngineSymmetry
CHECK_DEADLOCK FALSE
INVARIANTS
    Solvent
    PaidOnce
    AdmissionCap
