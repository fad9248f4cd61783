SPECIFICATION Spec
CONSTANTS
    Sessions = {s1, s2, s3}
    NoSession = NoSession
    NoEpoch = NoEpoch
    Epochs = {e1, e2, e3, e4, e5}
    MaxFaults = 1
    MaxEvents = 1
    MaxRuns = 1
    Prompt = TRUE
INVARIANTS
    InputTornDown
CHECK_DEADLOCK FALSE
