\* Three workspaces, two days, bookings of one and of several services.
CONSTANTS
    u1 = u1
    u2 = u2
    cut = cut
    tint = tint
    yoga = yoga
    c1 = c1
    c2 = c2
    None = None
    Anyone = Anyone
    Users = {u1, u2}
    Services = {cut, tint, yoga}
    Clients = {c1, c2}
    CanDo <- MCCanDo
    Duration <- MCDuration
    Capacity <- MCCapacity
    Hour = 2
    DayLength = 8
    Days = 2
    Scenes <- MCScenes
    Asks <- MCAsks
    PlatformRows <- MCPlatformRows
    MaxRows = 2
    MaxWithdrawn = 1
    MaxNow = 3
SPECIFICATION Spec
SYMMETRY MCClientSymmetry
CHECK_DEADLOCK FALSE
INVARIANTS
    OffersAreExact
    ListingsAgree
    BookedAsOffered
