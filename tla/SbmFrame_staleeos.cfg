SPECIFICATION Spec
CONSTANTS
    nMaxMessageNum = 3
    nStreamBufferSize = 5
    nMaxFrameNum = 2
    nMaxFramePicNum = 2
    Margin = 1
    MaxNalu = 2
    MaxInvalid = 5
    Contents <- HevcContents
INVARIANTS
    EosIsEnd
