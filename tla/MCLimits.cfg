SPECIFICATION MCSpec
CONSTANTS
    Streams = {s1, s2}
    RememberedStream = 1
    RememberedConn = 1
    InitStream = 1
    MaxStream = 2
    InitConn = 1
    MaxConn = 2
    MaxSent = 2
    Openers = {o1, o2, o3}
    Acceptors = {1, 2, 3}
    maxNumStreams = 1
    Remembered = 1
    MaxCancels = 1
    MaxConnections = 2
    MaxStreams = 2
    MaxCalls = 5
    maxLostMTUProbes = 3
    maxMTUDiff = 2
    Starts = {20}
    Maxima = {32}
    MaxRandomLosses = 2
    MaxResets = 1
    MaxActiveConnectionIDs = 3
    MaxIssuedConnectionIDs = 6
    Addrs = {home, b, c}
    Home = home
    maxPaths = 2
    MaxPackets = 3
    MaxMishaps = 1
INVARIANTS
    WindowsAgree
    BytesArrive
    
    PacketsFitPath
    
PROPERTIES
    WindowsNeverShrink
    FollowsClient
SYMMETRY Sym
CHECK_DEADLOCK FALSE
