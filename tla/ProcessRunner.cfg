\* Two streams, a pipe that one chunk fills, two failing calls.
SPECIFICATION Spec
CONSTANTS
    MaxArgument = 3
    Streams = {"out", "err"}
    PipeSize = 1
    MaxChunks = 2
    MaxFaults = 2
INVARIANTS
    HandlesInOrder
    ResultRight
    QuotingRoundTrips
PROPERTIES
    RunReturns
CHECK_DEADLOCK FALSE
