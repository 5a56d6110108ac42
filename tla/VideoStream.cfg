SPECIFICATION FairSpec
CONSTANTS
    nStreamBufferSize = 6
    nMaxFrameNum = 2
    Margin = 1
    EmptyFrameSize = 1
    Sizes = {0, 2, 3}
    Pts = {1}
INVARIANTS
    RingLayout
    WritesOnlyFree
    DroppedOnlyWithoutSlot
    PositionsAgree
PROPERTIES
    RefinesStreamQueue
    ParserServed
