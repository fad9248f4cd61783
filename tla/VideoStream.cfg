SPECIFICATION Spec
CONSTANTS
    InboxCapacity = 2
    Slots = 1
    WireCapacity = 1
    MaxIncidents = 2
INVARIANTS
    TypeOK
    NeverGarbled
    HoldMeansIdrComes
    WorkAccountedFor
CHECK_DEADLOCK FALSE
