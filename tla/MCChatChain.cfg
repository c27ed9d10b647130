CONSTANTS
    r = r
    q = q
    p = p
    c = c
    d = d
    None = None
    Empty = Empty
    Node = {r, q, p}
    Chats = {c, d}
    Root <- MCRoot
    MODEL_LAYERS = 3
    Local <- MCLocal
    Neighbours <- MCNeighbours
    Prompt = 1
    MaxLen = 2
    MaxHops = 4
    MaxFaults = 2
SPECIFICATION FairSpec
INVARIANTS WorkersAreParticipants EarnsWhatIsSigned ClaimsAreSigned FinishedLeavesNothing OneTurnAtATime
PROPERTIES EveryChatReturns
CHECK_DEADLOCK FALSE
