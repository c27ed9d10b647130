CONSTANTS
    start1 = start1
    start2 = start2
    stop = stop
    status = status
    other = other
    m = m
    n = n
    chat1 = chat1
    chat2 = chat2
    None = None
    Request = {start1, start2, stop, status, other}
    Op <- MCOp
    Model = {m, n}
    ModelOf <- MCModelOf
    Chat = {chat1, chat2}
    ChatModel <- MCChatModel
    CONTROL_CAP = 1
    CHAT_CAP = 1
    MaxFaults = 1
SPECIFICATION FairSpec
INVARIANTS RunningCanBeStopped ServedUnlessOvertaken NoEntryOfStopped
PROPERTIES RequestsReturn ChatsSettle
CHECK_DEADLOCK FALSE
