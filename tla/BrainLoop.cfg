SPECIFICATION Spec
CONSTANTS
    Hypotheses = {h1, h2, h3}
    Contradictions = {c1}
    NoTarget = NoTarget
    MaxTurns = 6
    Says = {"none", "open", "supported", "abandoned"}
    Deltas <- MCDeltas
INVARIANTS TargetIsOpen NoIdleTesting
PROPERTIES SynthesizesVerdicts GatedOnContradictions ImplementsTurnLoop
SYMMETRY BrainSymmetry
