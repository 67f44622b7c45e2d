SPECIFICATION Spec
CONSTANTS
    Clients = {"c1"}
    MaxConns = 2
    MaxServerUnprocessedPackets = 1
    MaxAcceptQueueSize = 1
    Max0RTTQueueLen = 1
    Max0RTTQueues = 1
    MaxRejects = 1
    Reqs = {r1, r2}
    MaxEvents = 1
    ChunkSizes = {1, 2}
    MaxCalls = 4
    maxSmallResponseSize = 3
    max1xxResponses = 1
SYMMETRY Sym
INVARIANTS
    NothingForgotten
    
    
    BodiesArrive
CHECK_DEADLOCK FALSE
