\* Two requests, a reader and a failing call.
CONSTANTS
    r1 = r1
    r2 = r2
    d1 = d1
    ws1 = ws1
    ws2 = ws2
    ann = ann
    shop = shop
    before = before
    none = none
    Requests = {r1, r2}
    Readers = {d1}
    Places = {ws1, ws2}
    Users = {ann}
    Scenes <- MCScenes
    MaxFaults = 1
SPECIFICATION Spec
CHECK_DEADLOCK FALSE
INVARIANTS
    StaleHoursAreExplained
    HoursAgreeUnlessRaced
    FailureIsClean
PROPERTIES
    StaleHoursPass
