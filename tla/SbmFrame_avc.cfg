SPECIFICATION FairSpec
CONSTANTS
    nMaxMessageNum = 3
    nStreamBufferSize = 4
    nMaxFrameNum = 2
    nMaxFramePicNum = 2
    Margin = 1
    MaxNalu = 2
    MaxInvalid = 2
    Contents <- AvcContents
INVARIANTS
    FifosSound
    BytesAccounted
PROPERTIES
    EndReached
