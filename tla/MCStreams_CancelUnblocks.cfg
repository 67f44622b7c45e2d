CONSTANTS
    Parts = {"receive"}
    MaxOffset = 2
    MaxFrame = 2
    Inf = 99
    MinBuffer = 2
    MaxGaps = 2
    MaxData = 2
    ReliableSizes = {0, 1}
    MaxDeadlines = 0
    BufferSize = 1
    Extension = {TRUE}
    ZeroRTT = {}
    Boundaries = {}
    MaxLosses = 0
    PacketSizes = {}
    MinStreamFrameSize = 128
    Gaps = {}
    RangeLens = {}
    MaxRanges = 4
    AckSizes = {}
    MaxNumAckRanges = 3
    HelloParts = {}
    EchCutLen = 3
    MaxCryptoLosses = 1
SPECIFICATION Spec
CHECK_DEADLOCK FALSE
INVARIANT CancelUnblocks
