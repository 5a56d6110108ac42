SPECIFICATION Spec
CONSTANTS
    nFrameBuffers = 6
    nMaxNumReoderPics = 2
    MaxPocLsb = 16
    PtsListSize = 24
    SeqModulus = 5
    bDispErrorFrame = FALSE
    StRps <- MCStRps
    Streams <- MCSceneCut
    Faults = {"picture"}
    KeyOnlyModes = {FALSE}
    MaxLate = 1
    MaxResets = 0
INVARIANTS RefsHeld
CHECK_DEADLOCK FALSE
