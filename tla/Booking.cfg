\* Three bookings, each of one service or each of two, and a cancellation.
CONSTANTS
    r1 = r1
    r2 = r2
    r3 = r3
    k1 = k1
    c1 = c1
    c2 = c2
    c3 = c3
    u1 = u1
    u2 = u2
    yoga = yoga
    cut = cut
    tint = tint
    Requests = {r1, r2, r3}
    Cancels = {k1}
    Clients = {c1, c2, c3}
    Users = {u1, u2}
    Weighted = {u1}
    Services = {yoga, cut, tint}
    Capacity <- MCCapacity
    Horizon = 3
    AutoConfirm = TRUE
    Bookings <- MCBookings
    Jobs <- MCJobs
SPECIFICATION FairSpec
CHECK_DEADLOCK FALSE
INVARIANTS
    TypeOK
    SlotOnce
    SeatOnce
PROPERTIES
    NoOverlapUnderOneLock
    SeatLossIsStaleRead
    ImplementsAttendance
    EventuallyAnswered
