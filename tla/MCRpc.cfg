CONSTANTS
    near = near
    far = far
    None = None
    Server = {near, far}
    Dest <- MCDest
    MaxRestarts = 1
    MaxFaults = 1
SPECIFICATION FairSpec
INVARIANTS AnswersMatch
PROPERTIES RequestsEnd
CHECK_DEADLOCK FALSE
