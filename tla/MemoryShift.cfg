\* one session, one client at a time
SPECIFICATION MemorySpec
CONSTANTS
    Sessions = {s1, s2}
    Chats = {c1}
    Conversations <- AskOrTools
    Entries <- ChatEntry
    RecentRows = 1
    CarriedRows = 1
    Window = 1
    Offsets = {0}
    MaxChats = 2
INVARIANT OwnMemory
CHECK_DEADLOCK FALSE
