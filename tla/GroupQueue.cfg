CONSTANTS
    NoFolder = NoFolder
    NoChat = NoChat
    Folders = {f}
    Chats = {a, b, c}
    MaxConcurrent = 2
SPECIFICATION FairSpec
INVARIANTS
    Exclusion
    NoLostWakeup
    BreakerClosedOnDispatch
PROPERTIES
    NoOvertaking
    ParkedChatStarts
