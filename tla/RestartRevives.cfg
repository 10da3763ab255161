SPECIFICATION Spec
CONSTANTS
    s = s
    t = t
    u = u
    v = v
    Graphs <- MCGraphs
    Faults = {"restart"}
CHECK_DEADLOCK FALSE
PROPERTY RestartedNeverCompletes
