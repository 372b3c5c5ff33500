\* Nothing that can lose a lock or a dead letter: the full guarantees.
CONSTANTS
    a = a
    b = b
    bad = bad
    raw = raw
    h1 = h1
    h2 = h2
    p1 = p1
    p2 = p2
    NoContent = NoContent
    Contents = {a, bad}
    Malformed = {bad}
    Unparsable = {}
    Handlers = {h1, h2}
    Instances = {p1, p2}
    InstanceOf <- MCInstanceOf
    MaxRetries = 1
    RedisEnabled = TRUE
    Faults = {"apply", "redis", "publish", "update", "ttl"}
    Budget <- MCBudget
SPECIFICATION FairSpec
CHECK_DEADLOCK FALSE
INVARIANTS
    TypeOK
    MutualExclusion
    NoSilentLoss
PROPERTIES
    EventuallyResolved
