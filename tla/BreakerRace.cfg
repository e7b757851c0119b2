\* two requests: a stale half-open write erases a fresh cooldown
SPECIFICATION BreakerSpec
CONSTANTS
    Requesters = {c1, c2}
    Threshold = 1
    Cooldown = 2
    RateLimitCooldown = 2
    ClockSkew = 0
INVARIANT CooldownHeld
