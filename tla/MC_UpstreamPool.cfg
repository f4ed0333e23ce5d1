SPECIFICATION FairSpec
CONSTANTS
    a = a
    b = b
    Requests = {r1}
    Addrs = {a, b}
    Seeds <- SeedTwo
    Polls <- PollLists
    Retries = 1
    UnhealthyThreshold = 2
    HealthyThreshold = 1
    CursorMod = 2
    MaxSets = 2
    MaxFlips = 2
INVARIANTS
    NoDuplicateDelivery
    FallbackOnlyWhenAllEvicted
PROPERTIES
    EvictionEarned
    HealthConverges
    TasksEnd
CHECK_DEADLOCK FALSE
