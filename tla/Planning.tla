------------------------------ MODULE Planning ------------------------------
(***************************************************************************)
(* The plan of a booking and its acceptance (addEventFromWeb), on the same *)
(* table, hours and clock as the starts that Offers lists; and how the two *)
(* compare.  They are two pieces of code: the booking rounds the clock     *)
(* otherwise, and knows neither the allow-list nor the grid.               *)
(***************************************************************************)
EXTENDS Offers

\* The booking rounds the clock to five minutes, so not at all in ticks, and
\* knows no allow-list and no fallback switch.
BookingWindows(day) == FreeTime(Users, day, 1, TRUE)

BookingEligible(ask) == [s \in ServicesOf(ask) |-> Eligible(ask, s)]

SegmentOf(ask, user, start) ==
    [user |-> user, service |-> ask[1].service, start |-> start, end |-> start + Total(ask)]

\* The strategies for one service: someone who is free, chosen by weight
Picked(ask, t, free) ==
    {<<SegmentOf(ask, u, t)>> :
        u \in {u \in Eligible(ask, ask[1].service) \ scene.weightless :
                 Fits(free, u, t, t + Total(ask))}}

\* findOverlappingGroupCandidates
JoinCandidates(ask, t) ==
    {r \in rows : /\ r.service = ask[1].service /\ r.user \in Eligible(ask, r.service)
                  /\ r.status = "live" /\ Overlap(r, SegmentOf(ask, r.user, t))}

Distance(r, t) == IF r.start < t THEN t - r.start ELSE r.start - t

\* The class that _tryJoinExistingGroupAssignment looks at: one at exactly the
\* slot, else one of the nearest
JoinTargets(ask, t) ==
    LET found == JoinCandidates(ask, t)
        exact == {r \in found : r.start = t /\ r.end = t + Total(ask)}
    IN IF exact # {} THEN exact
       ELSE {r \in found : \A q \in found : Distance(r, t) <= Distance(q, t)}

Admits(r, client) == Cardinality(r.clients) < Capacity[r.service] /\ client \notin r.clients

\* A class is joined, or planned anew when the one looked at admits nobody.
ClassPlans(ask, client, t, free) ==
    LET targets == JoinTargets(ask, t)
        open == {r \in targets : Admits(r, client)}
    IN {<<SegmentOf(ask, r.user, t)>> : r \in open}
         \union (IF targets # {} /\ open = targets THEN {} ELSE Picked(ask, t, free))

MultiPlans(ask, t, free) ==
    IF EachFitsAlone(ask, BookingEligible(ask), free)
    THEN Assignments(ask, t, BookingEligible(ask), free) ELSE {}

\* EnforceTimeRules and _resolveStartContext
InTime(t) == t >= clock /\ InBookingWindow(t)

Plans(ask, client, t, free) ==
    IF ~InTime(t) THEN {}
    ELSE IF IsMulti(ask) THEN MultiPlans(ask, t, free)
    ELSE IF IsClass(ask[1].service) THEN ClassPlans(ask, client, t, free)
    ELSE Picked(ask, t, free)

\* The rows at exactly the segment's slot, whatever their status
SameSlot(seg) == {r \in rows : /\ r.user = seg.user /\ r.service = seg.service
                               /\ r.start = seg.start /\ r.end = seg.end}

\* Live rows of the professional that overlap the segment, of any service
Conflicts(seg) == {r \in rows : r.user = seg.user /\ r.status = "live" /\ Overlap(r, seg)}

\* createOrJoinGroupEvent: for each segment findFirst returns one of the rows at
\* its slot, if there is any.
Finds(plan) ==
    {f \in [DOMAIN plan -> rows \union {None}] :
        \A i \in DOMAIN plan :
            f[i] \in IF SameSlot(plan[i]) = {} THEN {None} ELSE SameSlot(plan[i])}

\* A client who is there already stays, and a class with a seat is joined; any
\* other row at the slot is in the way.  So is, at a free slot, any other event of
\* the professional.
Accepts(seg, r, client) ==
    IF SameSlot(seg) = {} THEN Conflicts(seg) = {}
    ELSE client \in r.clients \/ (IsClass(seg.service) /\ Admits(r, client))

Accepted(plan, f, client) == \A i \in DOMAIN plan : Accepts(plan[i], f[i], client)

\* The rows after the booking: the client in the rows that were found, and the
\* new rows
Booked(plan, f, client) ==
    LET new == {i \in DOMAIN plan : SameSlot(plan[i]) = {}}
        joined == {f[i] : i \in DOMAIN plan \ new}
    IN {IF r \in joined THEN [r EXCEPT !.clients = @ \union {client}] ELSE r : r \in rows}
         \union {[user |-> plan[i].user, service |-> plan[i].service, start |-> plan[i].start,
                  end |-> plan[i].end, status |-> "live", clients |-> {client}] : i \in new}

-----------------------------------------------------------------------------
\* The rows that a booking of the request at t may meet
Near(ask, t) == {r \in rows : r.start < t + Total(ask) /\ r.end > t}

\* Why a start that is offered may be refused: what the listing sees or
\* counts otherwise than the booking.
RefusalReason(ask, t) ==
    LET s == ask[1].service
        near == Near(ask, t)
    IN \/ ~IsMulti(ask) /\ Eligible(ask, s) \intersect scene.weightless # {}
       \* a withdrawn row still stands at the slot
       \/ \E r \in near : r.status # "live"
       \* events of the local day that belong to another day in UTC
       \/ \E r \in near : ~InUtcDay(r, DayOf(t))
       \* an event without duration takes no time, but is in the way
       \/ \E r \in near : r.start >= r.end
       \* classes are offered across one another, and one class may hide another
       \/ /\ IsClass(s)
          /\ \E r \in near : /\ r.service = s
                             /\ \/ r.start # t \/ r.end # t + Total(ask)
                                \/ \E q \in near \ {r} : q.service = s /\ q.user = r.user

\* Why a start that is not offered may be booked: off the grid, with somebody
\* who is not on the allow-list or only works by the fallback that is switched
\* off, at midnight, or in a class in which the client already has a seat or
\* which belongs to another day in UTC.
Unlisted(ask, client, t, plan) ==
    \/ (t - DayStart(DayOf(t))) % Step(ask) # 0
    \/ Today(DayOf(t)) /\ Hour % Step(ask) # 0
    \/ \E i \in DOMAIN plan : plan[i].user \notin scene.allowed
    \/ /\ ~scene.fallback
       /\ \E i \in DOMAIN plan :
            /\ scene.temporary[plan[i].user][DayOf(t)] = None
            /\ scene.worker[plan[i].user][DayOf(t)] = None
    \/ IsMulti(ask) /\ t + Total(ask) = DayEnd(DayOf(t))
    \/ /\ IsClass(ask[1].service)
       /\ \E r \in SameSlot(plan[1]) : client \in r.clients \/ ~InUtcDay(r, DayOf(t))
    \/ Combines(ask)

\* A start that is offered can be booked, whichever plan the booking comes to and
\* whichever rows it finds, and a booking that is made was offered, but for these
\* reasons: the listing and the booking are two pieces of code, of the same data at
\* the same moment.
BookedAsOffered ==
    \A day \in Calendar : LET free == BookingWindows(day) IN
        \A ask \in Asks, c \in Clients :
            LET offered == TimeSlots(ask, day, c)
            IN  /\ \A t \in offered :
                     LET plans == Plans(ask, c, t, free)
                     IN  plans = {} \/ (\E p \in plans : \E f \in Finds(p) : ~Accepted(p, f, c))
                             => RefusalReason(ask, t)
                /\ \A t \in (DayStart(day)..(DayEnd(day) - 1)) \ offered :
                     \A p \in Plans(ask, c, t, free) : \A f \in Finds(p) :
                        Accepted(p, f, c) => Unlisted(ask, c, t, p)
=============================================================================
