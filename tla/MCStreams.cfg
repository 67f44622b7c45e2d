CONSTANTS
    Parts = {"sorter", "receive", "send", "wire", "hello"}
    MaxOffset = 7
    MaxFrame = 7
    Inf = 99
    MinBuffer = 2
    MaxGaps = 4
    MaxData = 2
    ReliableSizes = {0, 1, 2}
    MaxDeadlines = 1
    BufferSize = 1
    Extension = {FALSE, TRUE}
    ZeroRTT = {FALSE}
    Boundaries = {FALSE}
    MaxLosses = 1
    PacketSizes = {127, 128, 131, 192, 195, 256}
    MinStreamFrameSize = 128
    Gaps = {0, 61, 64}
    RangeLens = {0, 64}
    MaxRanges = 4
    AckSizes = {12, 14, 16, 18, 29, 51, 67, 68}
    MaxNumAckRanges = 3
    HelloParts = {5}
    EchCutLen = 3
    MaxCryptoLosses = 1
SPECIFICATION Spec
CHECK_DEADLOCK FALSE
INVARIANTS
    BytesReceived
    BytesSent
    CallsReturn
    FramesFit
PROPERTIES
    RefinesSortedBytes
