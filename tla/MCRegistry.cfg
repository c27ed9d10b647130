CONSTANTS
    a = a
    b = b
    wa = wa
    wb = wb
    wa2 = wa2
    None = None
    Ws = {wa, wb, wa2}
    q = q
    Queries = {q}
    Node = {a, b}
    NodeOf <- MCNodeOf
    STREAM_CAP = 1
    OUT_CAP = 1
    MaxMsgs <- MCMaxMsgs
SPECIFICATION FairSpec
INVARIANTS RegisteredAreConnected EveryPairIntroduced
PROPERTIES SendsReachMain QueriesAnswered
CHECK_DEADLOCK FALSE
