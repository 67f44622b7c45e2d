SPECIFICATION MCSpec
CONSTANTS
    s1 = s1
    s2 = s2
    o1 = o1
    o2 = o2
    Torn = Torn
    Object <- MCObject
    Pipes <- MCPipes
    MaxObjects = 3
INVARIANTS
    ObjectsForwarded
PROPERTIES
    AwakePipeFinishes
    DeliverySpec
CHECK_DEADLOCK FALSE
