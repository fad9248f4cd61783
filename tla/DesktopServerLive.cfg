SPECIFICATION FairSpec
CONSTANTS
    Sessions = {s1, s2}
    NoSession = NoSession
    NoEpoch = NoEpoch
    Epochs = {e1, e2, e3}
    MaxFaults = 1
    MaxEvents = 0
    MaxRuns = 1
    Prompt = TRUE
PROPERTIES
    
    StopCompletes
CHECK_DEADLOCK FALSE
