CONSTANTS
    x = x
    y = y
    Ends = {x, y}
    CHUNK_SIZE = 2
    HEADER = 1
    AIR_LIMIT = 6
    Lengths <- BothWays
    MaxFrames = 2
SPECIFICATION FairSpec
INVARIANTS InAirIsWhatIsInAir AirLimit
PROPERTIES WholeFramesInOrder FramesArriveOrBothJam
CHECK_DEADLOCK FALSE
