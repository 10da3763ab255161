SPECIFICATION FairSpec
CONSTANTS
    StarterBalance = 6
    u1 = u1
    u2 = u2
    r1 = r1
    r2 = r2
    r3 = r3
    Users = {u1}
    Runs = {r1, r2}
    Engines = {e1, e2}
    Estimate = 2
    Larger = 4
    Owner <- MCOwner
    P90 <- MCP90
    Costs = {3}
    MaxAttempts = 2
    GlobalMax = 2
    PerUserMax = 2
    Finals = {"succeeded"}
    Faults = {"setup", "crash", "db", "rows", "restart", "sweep"}
CHECK_DEADLOCK FALSE
INVARIANTS OnlyDisturbedLeak HoldsCovered NothingMinted
PROPERTIES RunEnds
