SPECIFICATION Spec
CONSTANTS
    First = first
    FollowUp = followUp
    Questions = {first, followUp, other}
    NoQuestion = noQuestion
    Brains = 1
    MaxCrashes = 0
    MaxTrails = 1
CHECK_DEADLOCK FALSE
INVARIANT AcceptedReachesBrain
