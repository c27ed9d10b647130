CONSTANTS
    a = a
    b = b
    None = None
    Node = {a, b}
    MaxFaults = 1
SPECIFICATION FairSpec
INVARIANTS NodesLeadToConns EntryLostOnlyByReplacement PortsLeadToLiveConns
PROPERTIES WorkersLink
CHECK_DEADLOCK FALSE
