\* The desktop refuses or drops, or the writer's queue overflows, three times.
SPECIFICATION Spec
CONSTANTS
    Attempts = {a1, a2}
    NoAttempt = NoAttempt
    PoolSize = 3
    QueueSize = 1
    MaxFaults = 3
    Prompt = TRUE
INVARIANTS
    TypeOK
    StreamsOwned
    NotifiedMeansReconnect
    ClosedForGood
PROPERTIES
    LossTearsDown
    Reconnects
CHECK_DEADLOCK FALSE
