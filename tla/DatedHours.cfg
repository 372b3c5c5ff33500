\* Two requests, a reader and a failing call.
CONSTANTS
    r1 = r1
    r2 = r2
    d1 = d1
    ws1 = ws1
    ws2 = ws2
    ann = ann
    bob = bob
    h1 = h1
    h2 = h2
    w1 = w1
    Requests = {r1, r2}
    Readers = {d1}
    Places = {ws1, ws2}
    Users = {ann, bob}
    Days = {1, 2, 3}
    Few = 1
    Scenes <- MCScenes
    MaxFaults = 1
SPECIFICATION Spec
CHECK_DEADLOCK FALSE
INVARIANTS
    StaleDaysAreExplained
    BlocksMatchHours
