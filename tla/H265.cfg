SPECIFICATION Spec
CONSTANTS
    nFrameBuffers = 6
    nMaxNumReoderPics = 2
    MaxPocLsb = 16
    PtsListSize = 24
    SeqModulus = 5
    bDispErrorFrame = FALSE
    StRps <- MCStRps
    Streams <- MCStreams
    Faults = {"picture", "burst", "tail", "head", "garbled", "refs",
              "error", "late", "vps", "sps", "pps"}
    KeyOnlyModes = {FALSE, TRUE}
    MaxLate = 1
    MaxResets = 1
INVARIANTS SlicesAsCoded BuffersKept ShownAsCoded TablesAsCoded
CHECK_DEADLOCK FALSE
