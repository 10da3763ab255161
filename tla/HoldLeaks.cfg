SPECIFICATION Spec
CONSTANTS
    StarterBalance = 5
    u1 = u1
    u2 = u2
    r1 = r1
    r2 = r2
    r3 = r3
    Users = {u1, u2}
    Runs = {r1, r3}
    Engines = {e1, e2}
    Owner <- MCOwner
    P90 <- MCP90
    Estimate = 2
    Larger = 2
    Costs = {1}
    MaxAttempts = 1
    GlobalMax = 2
    PerUserMax = 1
    Finals = {"succeeded"}
    Faults = {}
CHECK_DEADLOCK FALSE
INVARIANT
    NoHoldLeak
