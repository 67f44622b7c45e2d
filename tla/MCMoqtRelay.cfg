CONSTANTS
    Parts = {"relay", "session", "ends", "control"}
    p1 = p1
    p2 = p2
    s1 = s1
    s2 = s2
    live = live
    catalog = catalog
    n1 = n1
    None = None
    Sessions = {p1, p2, s1, s2}
    Pubs = {p1, p2}
    Subs = {s1, s2}
    Tracks = {live, catalog}
    Namespaces = {n1}
    NsOf <- MCNsOf
    Casts <- MCCasts
    FreshTracks = {catalog}
    SubIDs = {1, 2}
    MaxStreams = 2
    MaxGroups = 1
    Clients <- MCClients
    RoleOf <- MCRoleOf
    MaxAnnounce = 2
    MainSub = "main"
    HeardSub = "heard"
    MaxPubGroups = 3
    MaxUni = 2
    OkIds = {0}
    MaxSent = 2
SPECIFICATION MCSpec
CHECK_DEADLOCK FALSE
INVARIANTS
    MembersConsistent
    RoutedToAsked
    
    NothingWaits
    ClientsServed
    
PROPERTIES
    RegisteredIsAnswered
