-------------------------- MODULE MCEngineBilling --------------------------
(* Small instances of EngineBilling: two users, one of whom has two runs.  *)
EXTENDS EngineBilling, TLC

CONSTANTS u1, u2, r1, r2, r3, Estimate, Larger

MCOwner == [r \in Runs |-> IF r = r3 THEN u2 ELSE u1]
MCP90   == [r \in Runs |-> IF r = r2 THEN Larger ELSE Estimate]

\* Engines are anonymous tasks.
EngineSymmetry == Permutations(Engines)

=============================================================================
