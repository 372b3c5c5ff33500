SPECIFICATION Spec
CONSTANTS
    r1 = r1
    r2 = r2
    r3 = r3
    ann = ann
    bob = bob
    cid = cid
    u1 = u1
    u2 = u2
    yoga = yoga
    cut = cut
    tint = tint
    e1 = e1
    e2 = e2
    g1 = g1
    g2 = g2
    Initially = Initially
    Requests = {r1, r2, r3}
    Clients = {ann, bob, cid}
    Users = {u1, u2}
    Services = {yoga, cut, tint}
    Capacity <- MCCapacity
    Horizon = 4
    MaxServices = 2
    EventIds = {e1, e2}
    GroupIds = {g1, g2}
    Scenes <- AllScenes
PROPERTIES
    SeatTwiceUnseen
    SeatLossIsStaleCount
    DoubleBookingUnseen
    RebuiltExactly
CHECK_DEADLOCK FALSE
