CONSTANTS
    a = a
    b = b
    wa = wa
    wb = wb
    wa2 = wa2
    None = None
    Ws = {wa, wb, wa2}
    q = q
    Queries = {q}
    Node = {a, b}
    NodeOf <- MCNodeOf
    STREAM_CAP = 2
    OUT_CAP = 4
    MaxMsgs <- MCMaxMsgs
SPECIFICATION Spec
INVARIANTS SenderIsRegistered
CHECK_DEADLOCK FALSE
