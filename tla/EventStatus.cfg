SPECIFICATION Spec
CONSTANTS
    r1 = r1
    r2 = r2
    r3 = r3
    ann = ann
    bob = bob
    Requests = {r1, r2, r3}
    Clients = {ann, bob}
    Start = {"PENDING", "ACCEPTED"}
    Group = Group
    Event = Event
    Initially = Initially
    NoStatus = NoStatus
    Scenes <- AllScenes
INVARIANTS
    CancelledHasNoActiveSeat
    CirclesMixLockOrders
PROPERTIES
    TableUnlessRaced
    EventuallyAnswered
CHECK_DEADLOCK FALSE
