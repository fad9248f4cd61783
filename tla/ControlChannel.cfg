SPECIFICATION Spec
CONSTANTS
    MaxSessions = 2
    MaxFrames = 2
    MaxWanted = 3
    MaxIncidents = 2
    Other = Other
    Nobody = Nobody
    None = None
INVARIANTS
    TypeOK
    StreamsIntact
    
PROPERTIES
    LossNoticed
CHECK_DEADLOCK FALSE
