SPECIFICATION FairSpec
CONSTANTS
    nMaxFrameNum = 2
    MaxRelease = 1
    PictureSizes <- MCPictureSizes
    PictureAligns = {0, 16, 32, 64}
    PoolSizes = {1, 2, 3}
INVARIANTS
    TypeOK
    FramesAccounted
    CountersExact
    NoInvalidStatus
    ReleaseSafe
    EmptyNumCovers
    PicturesLaid
    SamplesArrive
PROPERTIES
    RefinesPictureQueue
    FramesComeBack
