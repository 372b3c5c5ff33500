SPECIFICATION Spec
CONSTANTS
    r1 = r1
    r2 = r2
    r3 = r3
    ann = ann
    bob = bob
    e1 = e1
    e2 = e2
    e3 = e3
    e4 = e4
    home = home
    Requests = {r1, r2, r3}
    Clients = {ann, bob}
    EventIds = {e1, e2, e3, e4}
    GroupIds = {home}
    Initially = Initially
    New = New
    Scenes <- AllScenes
INVARIANTS
    WindowsFollowEvents
PROPERTIES
    AttendanceFollowsEvents
CHECK_DEADLOCK FALSE
