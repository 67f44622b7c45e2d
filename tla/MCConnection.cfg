SPECIFICATION Spec
CONSTANTS
    sendQueueCapacity = 1
    maxPacketsToProcess = 1
    MaxConnUnprocessedPackets = 2
    MaxControlFrames = 2
    CongestionWindow = 2
    Writers = {w1}
    Closers = {k1}
    MaxEvents = 2
    Streams = {"s1", "s2"}
    Adders = {"a1", "a2"}
    ConnCredit = 3
    MaxPayload = 3
    SmallPayload = 2
    maxDatagramSendQueueLen = 1
    maxDatagramRcvQueueLen = 1
    MaxNonAckElicitingAcks = 1
    MaxInputs = 2
    MaxActors = 2
    FirstKeyUpdateInterval = 1
    keyUpdateInterval = 1
    MaxPackets = 3
    HalfWindow <- SmallHalfWindow
    MaxPacketNumber = 20
    Paths = {1, 2}
    NumIDs = 2
    MaxProbeLosses = 1
    ProbeClosed = FALSE
INVARIANTS
    
    NothingSleeps
    KeysInStep
    DecodedAsSent
    
CHECK_DEADLOCK FALSE
