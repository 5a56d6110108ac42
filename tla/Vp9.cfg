SPECIFICATION Spec
CONSTANTS
    NumRefs = 2
    NumBuffers = 4
    MaxBuffers = 5
    NumContexts = 2
    Streams <- MCStreams
    FbmFrames = 2
    Duration = 1
    Outcomes = {"ready", "error", "bus", "late"}
    MaxFaults = 1
    MaxResets = 1
    ValueBytes = 2
INVARIANTS DecodedAsCoded CountsKept ShownAsCoded ArithmeticExact
PROPERTIES EndReached
CHECK_DEADLOCK FALSE
