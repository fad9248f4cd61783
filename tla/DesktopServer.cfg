SPECIFICATION Spec
CONSTANTS
    Sessions = {s1, s2}
    NoSession = NoSession
    NoEpoch = NoEpoch
    Epochs = {e1, e2, e3}
    MaxFaults = 2
    MaxEvents = 2
    MaxRuns = 1
    Prompt = TRUE
INVARIANTS
    
    BelongsToSession
PROPERTIES
    ServesInTurn
CHECK_DEADLOCK FALSE
