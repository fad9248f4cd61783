SPECIFICATION Spec
CONSTANTS
    MaxPointer = 1
    MaxEvents = 8
    MaxPresses = 1
    MaxRotations = 2
    MaxUnderway = 2
INVARIANTS
    TypeOK
    
    
    
CHECK_DEADLOCK FALSE
