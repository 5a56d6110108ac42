CONSTANTS
    nMaxValidFrmBufNum = 4
    nRefFrmCount = 2
    nLongSlots = 2
    bDispErrorFrame = FALSE
    Streams <- McStreams
    Faults = {"picture", "burst", "tail", "garbled", "error", "late"}
    KeyOnlyModes = {FALSE, TRUE}
    MaxLate = 2
    MaxResets = 1
    MaxPocLsb = 16
    MaxFrmNum = 16
SPECIFICATION Spec
INVARIANTS RefsAsCoded BuffersKept ShownAsCoded TablesAsCoded
