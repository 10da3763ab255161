SPECIFICATION Spec
CONSTANTS
    ann = ann
    bob = bob
    Names = {ann, bob}
    NoName = NoName
    Nothing = Nothing
    Strategies <- MCStrategies
    Outputs <- MCOutputs
    Tactics = {"ach_rank", "synthesize_default"}
    Messages = {m}
    MaxParallel = 1
    MaxRaises = 1
    MaxRefused = 1
CHECK_DEADLOCK FALSE
INVARIANTS DirectiveKept WorkIsCharged OneBatch RaiseNeverPasses
PROPERTIES ImplementsPlan RunEnds
