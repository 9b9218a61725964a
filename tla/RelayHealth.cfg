SPECIFICATION HealthSpec
CONSTANTS
    r1 = r1  p1 = p1  t1 = t1  t2 = t2
    rate = rate  access = access
    Relays = {r1}
    Processes = {p1}
    Threads = {t1, t2}
    Categories = {rate, access}
    Base <- CooldownBase
    CacheSeconds = 2
    MaxCooldown = 3
    MaxStrikes = 3
    Capacity = 1
    MaxFetch = 1
    MaxPublish = 1
    Skews <- ClockSkews
    Drift = 1
    MaxTime = 7
    MaxResults = 2
    MaxJumps = 2
SYMMETRY ThreadSymmetry
INVARIANTS LimitsAreRecent WaitIsKept CooldownEnds
CHECK_DEADLOCK FALSE
