CONSTANTS
    Models = {"phi3", "llama"}
    PromptLens = {1, 2, 6}
    MaxTokens <- MCMaxTokens
    Width = 3
    CONTEXT = 5
    STREAM_CAP = 1
    Rooms = {1, 2}
SPECIFICATION FairSpec
INVARIANTS CacheIsContext WithinMaxLen TextInOrder EofMeansWhole LeaksExplained
PROPERTIES ChatEnds
CHECK_DEADLOCK FALSE
