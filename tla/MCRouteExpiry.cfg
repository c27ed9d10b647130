CONSTANTS
    a = a
    b = b
    c = c
    None = None
    Node = {a, b, c}
    MODEL_LAYERS = 2
    ROUTE_TIMEOUT_MS = 2
    Peers <- MCPeers
    Local <- MCLocal
    Skew <- MCSkew
    Dist <- MCDist
    FAKE_RTT = 50
    Period = 1
    MaxTime = 6
    MaxInFlight = 1
    MaxCost = 1000
    MaxFaults = 1
    Grace = 2
SPECIFICATION ESpec
INVARIANTS RemovedAfterTimeout
CHECK_DEADLOCK FALSE
