SPECIFICATION Spec
CONSTANTS
    AmplificationFactor = 1
    MaxSkippedPackets = 2
    MaxEvents = 2
    LossThreshold = 2
    LossTracked = 8
    LossOutstanding = 6
    NumFrames = 2
    Window = 2
    HandshakeThreshold = 3
    HandshakeTracked = 30
    DatagramRoom = 2
    MaxUndecryptablePackets = 2
    MaxNumAckRanges = 2
    packetsBeforeAck = 2
    numECNTestingPackets = 2
    NumPackets = 4
    Num0RTT = 1
    NonEliciting = {2}
    MaxTroubles = 1
    Unmarked = FALSE
INVARIANTS
    FramesKept
    HandshakeSound
    RecoveryFinishes
    AcksTrue
CHECK_DEADLOCK FALSE
