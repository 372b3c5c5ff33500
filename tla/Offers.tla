------------------------------- MODULE Offers -------------------------------
(***************************************************************************)
(* The starts that the public endpoint offers on one day                   *)
(* (publicGetAvailableTimeSlots_SPECIAL), as operators on the table of     *)
(* events, the hours of the professionals and the clock, and what it       *)
(* promises for individual services.  Availability adds the list of days,  *)
(* the bookings and the other steps.                                       *)
(*                                                                         *)
(* Time is counted in ticks of the workspace's local time, a multiple of   *)
(* five minutes each; a day has DayLength ticks.                           *)
(***************************************************************************)
EXTENDS Integers, Sequences, FiniteSets, FiniteSetsExt

CONSTANTS
    Users,         \* professionals
    Services,
    Clients,       \* those who identify themselves; None does not
    CanDo,         \* the professionals of each service
    Duration,      \* the duration of each service
    Capacity,      \* maxParticipants of each service
    Hour,          \* the ticks of an hour
    DayLength,     \* the ticks of a day
    Days,          \* the days 0 .. Days - 1 have a calendar
    Scenes,        \* configurations of the workspace
    Asks,          \* what clients ask for
    None, Anyone

VARIABLES
    scene,   \* the configuration, fixed
    clock,
    rows     \* table events, with the status and the clients of the group

Calendar == 0..(Days - 1)
DayStart(day) == day * DayLength
DayEnd(day) == (day + 1) * DayLength

Window == [start : Nat, end : Nat]

\* A wish for one service, with the professional asked for
Attendee == [service : Services, staff : Users \union {Anyone}]

\* null is a day off; a missing or an empty list says nothing (None).
Scene == [offset : Int, business : [Calendar -> SUBSET Window],
          worker : [Users -> [Calendar -> (SUBSET Window) \union {None}]],
          temporary : [Users -> [Calendar -> (SUBSET Window) \union {None}]],
          allowed : SUBSET Users, weightless : SUBSET Users, fallback : BOOLEAN,
          lead : Nat, advance : Nat, step : Nat \ {0}, alignService : BOOLEAN]

\* Hours are times of day.
DailyHours(s) ==
    \A day \in Calendar :
        LET within == DayStart(day)..DayEnd(day)
            daily == SUBSET [start : within, end : within]
        IN /\ s.business[day] \in daily
           /\ \A u \in Users : {s.worker[u][day], s.temporary[u][day]} \subseteq daily \union {None}

ASSUME OffersAssumption ==
    /\ CanDo \in [Services -> SUBSET Users]
    /\ Duration \in [Services -> Nat \ {0}]
    /\ Capacity \in [Services -> Nat \ {0}]
    /\ Hour \in Nat \ {0} /\ DayLength \in Nat \ {0} /\ DayLength % Hour = 0
    /\ Days \in Nat \ {0}
    /\ Asks \subseteq Seq(Attendee) \ {<<>>}
    /\ \A s \in Scenes : s \in Scene /\ DailyHours(s)

Statuses == {"live", "cancelled", "deleted"}

Row == [user : Users, service : Services, start : Nat, end : Nat,
        status : Statuses, clients : SUBSET Clients]

Segment == [user : Users, service : Services, start : Nat, end : Nat]

DayOf(t) == t \div DayLength
Today(day) == DayOf(clock) = day

Overlap(s, t) == s.start < t.end /\ s.end > t.start

IsClass(s) == Capacity[s] > 1
IsMulti(ask) == Len(ask) > 1
ServicesOf(ask) == {ask[i].service : i \in DOMAIN ask}

\* When each service of a booking begins, after the booking's start, and when
\* the last one ends
Delays(ask) ==
    LET delay[i \in 1..(Len(ask) + 1)] ==
          IF i = 1 THEN 0 ELSE delay[i - 1] + Duration[ask[i - 1].service]
    IN delay

Delay(ask, i) == Delays(ask)[i]

Total(ask) == Delay(ask, Len(ask) + 1)

-----------------------------------------------------------------------------
\* Free time

Before(v, w) == v.start < w.start \/ (v.start = w.start /\ v.end < w.end)

Sorted(windows) ==
    [i \in 1..Cardinality(windows) |->
        CHOOSE w \in windows : Cardinality({v \in windows : Before(v, w)}) = i - 1]

\* mergeTouchingWindows_SPECIAL: the last window grows until one does not touch it.
Joined(out, w) ==
    IF w.start <= out.last.end
    THEN [done |-> out.done,
          last |-> [start |-> out.last.start, end |-> Max({out.last.end, w.end})]]
    ELSE [done |-> out.done \union {out.last}, last |-> w]

Joins(list) ==
    LET out[i \in 1..Len(list)] ==
          IF i = 1 THEN [done |-> {}, last |-> list[1]] ELSE Joined(out[i - 1], list[i])
    IN out

MergeTouching(windows) ==
    LET list == Sorted(windows)
        all == Joins(list)[Len(list)]
    IN IF windows = {} THEN {} ELSE all.done \union {all.last}

\* The time between two moments, if any
Gap(from, to) == IF from < to THEN {[start |-> from, end |-> to]} ELSE {}

\* Mutant: the end of the last busy time is taken, not the latest end.
CutLast(acc, b) == [free |-> acc.free \union Gap(acc.cur, b.start), cur |-> b.end]

\* subtractBusyFromShift_SPECIAL: what is free before each busy time, and where
\* the next free time can begin
Cut(acc, b) ==
    [free |-> acc.free \union Gap(acc.cur, b.start), cur |-> Max({acc.cur, b.end})]

Cuts(start, list) ==
    LET acc[i \in 0..Len(list)] ==
          IF i = 0 THEN [free |-> {}, cur |-> start] ELSE Cut(acc[i - 1], list[i])
    IN acc

Clipped(shift, busy) ==
    {c \in {[start |-> Max({b.start, shift.start}), end |-> Min({b.end, shift.end})] : b \in busy} :
        c.start < c.end}

SubtractBusy(shift, busy) ==
    LET list == Sorted(Clipped(shift, busy))
        all == Cuts(shift.start, list)[Len(list)]
    IN all.free \union Gap(all.cur, shift.end)

\* buildShiftsByUser_SPECIAL: the exceptions of the date, else the week of the
\* professional, else the hours of the business.
Shifts(u, day, fallback) ==
    LET exception == scene.temporary[u][day]
        week == scene.worker[u][day]
    IN IF exception # None THEN exception
       ELSE IF week # None THEN week
       ELSE IF fallback THEN scene.business[day] ELSE {}

\* Rows of the calendar day "day" in UTC, which the queries take for the
\* local one
InUtcDay(r, day) ==
    /\ r.start - scene.offset < DayEnd(day)
    /\ r.end - scene.offset > DayStart(day)

\* getEventsOverlappingRange_SPECIAL: deleted events are busy time too.
BusyOf(u, first, last) ==
    {r \in rows : /\ r.user = u /\ r.status # "cancelled"
                  /\ \E day \in first..last : InUtcDay(r, day)}

\* computeSlotConfig: the clock, rounded up within its hour
RoundedNow(step) ==
    LET rest == (clock % Hour) % step
    IN IF rest = 0 THEN clock ELSE clock + step - rest

NotBefore(t, day, step) == IF Today(day) THEN Max({t, RoundedNow(step)}) ELSE t

\* The free windows of a professional on one day
FreeWindows(u, day, step, fallback) ==
    LET Free(shift) == SubtractBusy([shift EXCEPT !.start = NotBefore(@, day, step)],
                                    BusyOf(u, day, day))
    IN MergeTouching(UNION {Free(s) : s \in {s \in Shifts(u, day, fallback) :
                                                NotBefore(s.start, day, step) < s.end}})

\* The free windows of some professionals
FreeTime(users, day, step, fallback) ==
    UNION {{[user |-> u, start |-> w.start, end |-> w.end] :
              w \in FreeWindows(u, day, step, fallback)} : u \in users}

Fits(free, u, start, end) == \E w \in free : w.user = u /\ start >= w.start /\ end <= w.end

\* The attendee whose professionals stand for the service: a later attendee
\* of the same service replaces an earlier one in the map.
Spokesman(ask, s) ==
    ask[CHOOSE i \in DOMAIN ask : /\ ask[i].service = s
                                  /\ \A j \in DOMAIN ask : ask[j].service = s => j <= i]

\* getUsersWhoCanPerformService_SPECIAL, or the one asked for, unchecked
Eligible(ask, s) ==
    LET a == Spokesman(ask, s) IN IF a.staff = Anyone THEN CanDo[s] ELSE {a.staff}

\* assignSequentially_SPECIAL: the services one after the other, each with an
\* eligible professional who is free.  Segments of one booking never overlap.
Assignments(ask, start, eligible, free) ==
    {p \in {[i \in DOMAIN ask |->
                [user |-> user[i], service |-> ask[i].service,
                 start |-> start + Delay(ask, i), end |-> start + Delay(ask, i + 1)]] :
               user \in [DOMAIN ask -> Users]} :
        \A i \in DOMAIN ask : /\ p[i].user \in eligible[p[i].service]
                              /\ Fits(free, p[i].user, p[i].start, p[i].end)}

-----------------------------------------------------------------------------
\* The starts offered on one day: publicGetAvailableTimeSlots_SPECIAL

Step(ask) == IF scene.alignService THEN Total(ask) ELSE scene.step

Earliest == clock + scene.lead
LatestDay == DayOf(clock) + scene.advance

InBookingWindow(t) == t >= Earliest /\ DayOf(t) <= LatestDay

\* alignToGridCeil_SPECIAL: the grid begins at midnight.
AlignCeil(t, step, day) ==
    LET rest == (t - DayStart(day)) % step IN IF rest = 0 THEN t ELSE t + step - rest

\* The starts on the grid from "from" to "last"
Grid(from, last, step, day) ==
    LET first == AlignCeil(Max({from, DayStart(day)}), step, day)
    IN {t \in first..last : (t - first) % step = 0}

OfferEligible(ask, s) == Eligible(ask, s) \intersect scene.allowed

AllOfferEligible(ask) == UNION {OfferEligible(ask, s) : s \in ServicesOf(ask)}

\* getGroupEventsWithCounts_SPECIAL: every class of the service that day,
\* whatever its status
ClassesOf(s, day) == {r \in rows : r.service = s /\ InUtcDay(r, day)}

\* Time of a professional in which a class may be offered: what is free, and
\* the classes that exist.
ClassWindows(u, s, day, step) ==
    LET mine == {r \in ClassesOf(s, day) : r.user = u}
        added == {w \in {[start |-> NotBefore(r.start, day, step), end |-> r.end] : r \in mine} :
                    w.start < w.end}
        free == FreeWindows(u, day, step, scene.fallback)
    IN IF added = {} THEN free ELSE MergeTouching(free \union added)

\* Mutant: whoever has a seat is offered the class again.
SeatLeftFor(u, s, t, day, client) ==
    LET here == {r \in ClassesOf(s, day) :
                    r.user = u /\ r.start = t /\ r.end = t + Duration[s]}
    IN here = {} \/ \E r \in here : Cardinality(r.clients) < Capacity[s]

\* A class at exactly this slot has a seat, and the client has none in it.
\* Without such a class all seats are left.
SeatFor(u, s, t, day, client) ==
    LET here == {r \in ClassesOf(s, day) :
                    r.user = u /\ r.start = t /\ r.end = t + Duration[s]}
    IN here = {} \/ \E r \in here : Cardinality(r.clients) < Capacity[s] /\ client \notin r.clients

SingleStarts(ask, day, client) ==
    LET s == ask[1].service
        step == Step(ask)
        Starts(u) ==
          LET windows == IF IsClass(s) THEN ClassWindows(u, s, day, step)
                         ELSE FreeWindows(u, day, step, scene.fallback)
          IN {t \in UNION {Grid(w.start, w.end - Duration[s], step, day) : w \in windows} :
                /\ InBookingWindow(t)
                /\ IsClass(s) => SeatFor(u, s, t, day, client)}
    IN UNION {Starts(u) : u \in OfferEligible(ask, s)}

\* Each service has, by itself, someone with a window that is long enough.
EachFitsAlone(ask, eligible, free) ==
    \A s \in ServicesOf(ask) :
        \E w \in free : w.user \in eligible[s] /\ w.end - w.start >= Duration[s]

\* Starts from the windows of the first service; none ends at midnight.
MultiStarts(ask, day) ==
    LET step == Step(ask)
        eligible == [s \in ServicesOf(ask) |-> OfferEligible(ask, s)]
        free == FreeTime(AllOfferEligible(ask), day, step, scene.fallback)
        last == DayEnd(day) - Total(ask)
        candidates == UNION {Grid(w.start, Min({w.end, last - 1}), step, day) :
                               w \in {w \in free : /\ w.user \in eligible[ask[1].service]
                                                   /\ w.start < Min({w.end, last})}}
    IN IF ~EachFitsAlone(ask, eligible, free) THEN {}
       ELSE {t \in candidates : InBookingWindow(t) /\ Assignments(ask, t, eligible, free) # {}}

\* Classes cannot be combined with other services.
Combines(ask) == IsMulti(ask) /\ \E s \in ServicesOf(ask) : IsClass(s)

OutOfWindow(day) == day > LatestDay \/ DayEnd(day) <= Earliest

TimeSlots(ask, day, client) ==
    IF day < DayOf(clock) \/ OutOfWindow(day) \/ Combines(ask) THEN {}
    ELSE IF IsMulti(ask) THEN MultiStarts(ask, day)
    ELSE SingleStarts(ask, day, client)


-----------------------------------------------------------------------------
\* The definition of what should be offered for individual services, point by
\* point: on the grid, in the booking window, and each service done by
\* somebody allowed who works all the time and has nothing else.
WorksFreely(u, day, from, to) ==
    \A x \in from..(to - 1) :
        /\ \E w \in Shifts(u, day, scene.fallback) : w.start <= x /\ x < w.end
        /\ \A r \in BusyOf(u, day, day) : ~(r.start <= x /\ x < r.end)

Due(ask, day) ==
    {t \in DayStart(day)..(DayEnd(day) - 1) :
        /\ (t - DayStart(day)) % Step(ask) = 0
        /\ InBookingWindow(t)
        /\ \A i \in DOMAIN ask : \E u \in OfferEligible(ask, ask[i].service) :
             WorksFreely(u, day, t + Delay(ask, i), t + Delay(ask, i + 1))}

Individual(ask) == \A s \in ServicesOf(ask) : ~IsClass(s)

\* The code works on lists of windows: it subtracts, merges, aligns and steps.
\* For individual services the result is the one defined point by point: no
\* start is offered that is not due; and none that is due is left out, when the
\* rounded clock does not skip a grid point (a step that does not divide the
\* hour) and the booking does not end at midnight.
OffersAreExact ==
    \A ask \in {a \in Asks : Individual(a)}, day \in Calendar :
        LET offered == TimeSlots(ask, day, None)
        IN /\ offered \subseteq Due(ask, day)
           /\ (DayOf(clock) <= day /\ Hour % Step(ask) = 0) =>
                {t \in Due(ask, day) : t + Total(ask) < DayEnd(day)} \subseteq offered
=============================================================================
