SPECIFICATION WorkSpec
CONSTANTS
    \* swarms: requests, and the handlers that hold the mutex more than once
    MaxId = 4
    Bootstrap = 1
    MaxMembers = 2
    MaxRequests = 4
    Callers = {c1, c2}
    \* an agent in direct mode, with a conversation of a few messages
    Sessions <- TwoSessions
    MaxMessages = 4
    TrimBy = 1
    CompactOver = 2
    Kept = 1
    TurnCap = 1
    Attempts = 1
    MaxRecalls = 1
    MaxContinued = 1
    Sustained = 1
    WarnAt = 1
    StopAt = 2
    ResetAt = 2
    MaxRedirects = 1
    CallsPerTurn = 2
    MaxIdle = 1
INVARIANTS
    RowsCurrent IdsAreFresh
    RequestsWellFormed
PROPERTY RunsEnd
CHECK_DEADLOCK FALSE
