CONSTANTS
    a = a
    b = b
    c = c
    None = None
    Node = {a, b, c}
    MODEL_LAYERS = 2
    ROUTE_TIMEOUT_MS = 1
    Peers <- MCPeers
    Local <- MCLocal
    Skew <- MCSkew
    Dist <- MCDist
    FAKE_RTT = 50
    Period = 1
    MaxTime = 1
    MaxInFlight = 1
    MaxCost = 150
    MaxFaults = 1
SPECIFICATION Spec
INVARIANTS TypeOK NextIsBest RoutesAreConnected NeverRejuvenated NeverUnderestimates
