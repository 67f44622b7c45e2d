CONSTANTS
    Sizes = {2, 3}
    Bursts = {1}
    Rtts = {0, 1}
    ProbeWait = 2
    ProbeRttInterval = 2
    TenSeconds = 5
    MaxTime = 6
    MaxDelivered = 3
    MaxFlight = 2
    MaxResets = 1
    MaxLosses = 1
    Rates = {4, 40}
    InitialRtt = 1
    ProbeRttDuration = 1
    MaxRounds = 3
    QuantumRate = 30
    QuantumSpan = 20
    MaxQuantum = 6
    Inf = 1000000
    Second = 12
    MinBdp = 2
    BwWin = 2
    ProbeRttTime = 1
    PacerSize = 10
SPECIFICATION MCSpec
CHECK_DEADLOCK FALSE
INVARIANTS
    PhasesNest
    
    
PROPERTIES
    ProbesBracketed
    CutsBracketed
