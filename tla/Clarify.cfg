SPECIFICATION Spec
CONSTANTS
    First = first
    FollowUp = followUp
    Questions = {first, followUp}
    NoQuestion = noQuestion
    Brains = 2
    MaxCrashes = 2
    MaxTrails = 3
CHECK_DEADLOCK FALSE
INVARIANTS HeldIsRecoverable VerdictHasTrail SoloGetsFresh
PROPERTIES OneAtATime HeldIsAnswerable
