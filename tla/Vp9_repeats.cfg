SPECIFICATION Spec
CONSTANTS
    NumRefs = 2
    NumBuffers = 4
    MaxBuffers = 5
    NumContexts = 2
    Streams <- MCRepeats
    FbmFrames = 2
    Duration = 1
    Outcomes = {"ready"}
    MaxFaults = 0
    MaxResets = 0
    ValueBytes = 2
INVARIANTS FreeUnreferenced
CHECK_DEADLOCK FALSE
