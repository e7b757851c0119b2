SPECIFICATION RoutingSpec
CONSTANTS
    p1 = p1  p2 = p2  p3 = p3  r1 = r1  r2 = r2
    \* two requests through every entry point over two providers of one slot
    Chain <- ChainOf2
    Requests = {r1, r2}
    Modes = {"auto", "preferred", "stream"}
    Limit = 1
    Tracked = {}
    WarnAt = 1
    Full = 1
    \* the breaker: every race of three requests
    Requesters = {q1, q2, q3}
    Threshold = 2
    Cooldown = 1
    RateLimitCooldown = 1
    ClockSkew = 1
    \* the rate limiter
    Callers = {c1, c2}
    Configs <- SlowToFast
    Floor = 50
    Fast = 10000
    MaxRetryAfter = 2
    MaxSleepers = 2
INVARIANTS PacedByOne SlotsAreHeld
PROPERTIES ImplementsAbstract RowsImplementBreaker RoutingEnd
CHECK_DEADLOCK FALSE
