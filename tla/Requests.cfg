\* a request over three providers, two of them with a quota
SPECIFICATION RequestsSpec
CONSTANTS
    p1 = p1  p2 = p2  p3 = p3  r1 = r1  r2 = r2
    Threshold = 1
    Cooldown = 1
    RateLimitCooldown = 1
    Chain <- ChainOf3
    Requests = {r1}
    Modes = {"auto"}
    Limit = 1
    Tracked = {p2, p3}
    WarnAt = 1
    Full = 2
    \* sessions and memory: two sessions, two requests of one text or turn
    Sessions = {s1, s2}
    Chats = {c1, c2}
    Conversations <- EveryConversation
    Entries <- EveryEntry
    RecentRows = 1
    CarriedRows = 1
    Window = 0
    Offsets <- West
    MaxChats = 2
INVARIANTS
    ChainIsWalked
    AnsweredIsRemembered
PROPERTIES
    AbandonedStaysApart
