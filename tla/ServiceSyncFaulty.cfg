\* Everything may fail, Redis, the broker and the processes included.
CONSTANTS
    a = a
    b = b
    bad = bad
    raw = raw
    h1 = h1
    h2 = h2
    p1 = p1
    p2 = p2
    NoContent = NoContent
    Contents = {a, bad, raw}
    Malformed = {bad}
    Unparsable = {raw}
    Handlers = {h1, h2}
    Instances = {p1, p2}
    InstanceOf <- MCInstanceOf
    MaxRetries = 1
    RedisEnabled = TRUE
    Faults = {"apply", "redis", "publish", "update", "release", "persist", "crash", "expire", "ttl", "slow"}
    Budget <- MCCrashBudget
SPECIFICATION FairSpec
CHECK_DEADLOCK FALSE
INVARIANTS
    ProcessedWasApplied
PROPERTIES
    LossOnlyThroughLock
    EventuallyQuiescent
