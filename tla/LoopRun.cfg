SPECIFICATION Spec
CONSTANTS
    MaxTurns = 4
    Faults = {"dispatch", "activity", "late", "slow", "pause"}
INVARIANTS ClarifiedFirst SuccessIsShown
PROPERTIES SucceededStays WorkflowEnds LeavesQueue
