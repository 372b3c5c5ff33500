\* Two deliveries at a time, with failures, retries and duplicates.
CONSTANTS
    h1 = h1
    h2 = h2
    g1 = g1
    g2 = g2
    e1 = e1
    e2 = e2
    e3 = e3
    a1 = a1
    b1 = b1
    a2 = a2
    n1 = n1
    hours = hours
    Handlers = {h1, h2}
    Groups = {g1, g2}
    Events = {e1, e2, e3}
    Seats = {a1, b1, a2, n1}
    Hours = {hours}
    Attr <- MCAttr
    Other = {e3}
    Joiners = {n1}
    Sent <- MCSent
    MaxRetries = 1
    MaxIds = 2
    Chunk = 1
    Budget = 1
SPECIFICATION Spec
CHECK_DEADLOCK FALSE
INVARIANTS
    NoIdLost
    DeletedTogether
    StrandedOnlyByRace
PROPERTIES
    EventuallyDrained
