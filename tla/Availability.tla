---------------------------- MODULE Availability ----------------------------
(***************************************************************************)
(* What the public endpoints offer, and what a booking then accepts.       *)
(*                                                                         *)
(* Three pieces of code compute the free time of a professional, each with *)
(* its own rules: the list of days (publicGetAvailableDays), the starts of *)
(* one day (publicGetAvailableTimeSlots_SPECIAL, in Offers) and the plan   *)
(* of a booking (addEventFromWeb).  Here the three are operators on the    *)
(* same table of events, the same working hours and the same clock, so     *)
(* that they can be compared after any history of bookings, cancellations, *)
(* deletions and entries made by the business.  Requests are handled one   *)
(* at a time: their races are in Booking.                                  *)
(***************************************************************************)
EXTENDS Planning, SequencesExt

CONSTANTS
    PlatformRows,  \* events the business may enter
    MaxRows,       \* bound: rows in the table
    MaxWithdrawn,  \* bound: of these, cancelled or deleted
    MaxNow         \* bound: the clock

ASSUME AvailabilityAssumption == PlatformRows \subseteq Row

vars == <<scene, clock, rows>>

-----------------------------------------------------------------------------
\* The list of days: publicGetAvailableDays

\* mergeRanges, which drops empty ranges.  When all are empty, the code throws
\* (eventv2.service.ts:1126); here there are none left.
MergeRanges(windows) == MergeTouching({w \in windows : w.start < w.end})

\* subtractBusy, on merged busy time
SubtractMerged(shift, busy) ==
    LET merged == MergeRanges({[start |-> b.start, end |-> b.end] : b \in busy})
        CutIf(acc, b) ==
          IF b.end <= acc.cur \/ b.start >= shift.end THEN acc ELSE Cut(acc, b)
        all == FoldLeft(CutIf, [free |-> {}, cur |-> shift.start], Sorted(merged))
    IN all.free \union Gap(all.cur, shift.end)

\* The day of the earliest start: its free time is cut there.
ClampFrom(day) == IF DayOf(Earliest) = day THEN Earliest ELSE DayStart(day)

\* Mutant: the last start of a window is not counted.
CountBeforeLast(windows, d, step, from) ==
    LET Starts(w) == {t \in Max({w.start, from})..(w.end - d - 1) : (t - Max({w.start, from})) % step = 0}
    IN MapThenSumSet(LAMBDA w : Cardinality(Starts(w)), windows)

\* countStartsInWindows: the grid begins at each window.
CountStarts(windows, d, step, from) ==
    LET Starts(w) == {t \in Max({w.start, from})..(w.end - d) : (t - w.start) % step = 0}
    IN MapThenSumSet(LAMBDA w : Cardinality(Starts(w)), windows)

\* The starts of a service for one professional, if nothing were booked
PotentialStarts(u, s, day, step) ==
    CountStarts(MergeRanges(Shifts(u, day, TRUE)), Duration[s], step, ClampFrom(day))

\* And those that are left
FreeStarts(u, s, day, step) ==
    LET from == ClampFrom(day)
        busy == {r \in BusyOf(u, 0, Days - 1) : r.start < DayEnd(day) /\ r.end > DayStart(day)}
        Free(shift) == SubtractMerged([shift EXCEPT !.start = Max({@, from})], busy)
        free == UNION {Free(w) : w \in {w \in Shifts(u, day, TRUE) : Max({w.start, from}) < w.end}}
    IN CountStarts(MergeRanges(free), Duration[s], step, from)

\* The seats left in the classes of the day, where the client has none
SeatsLeft(s, users, day, client) ==
    LET open == {r \in rows : /\ r.service = s /\ r.user \in users /\ r.status # "deleted"
                              /\ DayOf(r.start) = day /\ r.start >= ClampFrom(day)
                              /\ client \notin r.clients}
    IN MapThenSumSet(LAMBDA r : Max({0, Capacity[s] - Cardinality(r.clients)}), open)

\* The capacity of a day; 0 when it is not available.
DayCapacity(ask, day, client) ==
    LET step == Step(ask)
        Free(s) == MapThenSumSet(LAMBDA u : FreeStarts(u, s, day, step), OfferEligible(ask, s))
        first == ask[1].service
    IN IF scene.allowed = {} \/ AllOfferEligible(ask) = {} \/ OutOfWindow(day) \/ Combines(ask) THEN 0
       ELSE IF IsMulti(ask) THEN Min({Free(s) : s \in ServicesOf(ask)})
       ELSE IF IsClass(first)
            THEN SeatsLeft(first, OfferEligible(ask, first), day, client) + Free(first) * Capacity[first]
            ELSE Free(first)

\* A day without capacity is "completed" if it could have had some.
DayStatus(ask, day, client) ==
    LET step == Step(ask)
        Potential(s) == MapThenSumSet(LAMBDA u : PotentialStarts(u, s, day, step), OfferEligible(ask, s))
    IN IF OutOfWindow(day) \/ Combines(ask) THEN "dayoff"
       ELSE IF DayCapacity(ask, day, client) > 0 THEN "available"
       ELSE IF \E s \in ServicesOf(ask) : Potential(s) > 0 THEN "completed" ELSE "dayoff"

-----------------------------------------------------------------------------
\* A booking for some time of the day.  One that is refused leaves no trace.
Book(day) ==
    LET free == BookingWindows(day) IN
    /\ \E ask \in Asks, client \in Clients, t \in DayStart(day)..(DayEnd(day) - 1) :
        \E plan \in Plans(ask, client, t, free) : \E f \in Finds(plan) :
            /\ Accepted(plan, f, client)
            /\ rows' = Booked(plan, f, client)
    /\ Cardinality(rows') <= MaxRows
    /\ UNCHANGED <<scene, clock>>

-----------------------------------------------------------------------------
Init ==
    /\ scene \in Scenes
    /\ clock = 0
    /\ rows = {}

\* The business enters an event, with no check against the calendar.
Enter ==
    /\ Cardinality(rows) < MaxRows
    /\ \E r \in PlatformRows : rows' = rows \union {r}
    /\ UNCHANGED <<scene, clock>>

\* A booking is cancelled, or soft-deleted.
Withdraw ==
    /\ Cardinality({r \in rows : r.status # "live"}) < MaxWithdrawn
    /\ \E r \in rows, s \in {"cancelled", "deleted"} :
        /\ r.status = "live"
        /\ rows' = (rows \ {r}) \union {[r EXCEPT !.status = s]}
    /\ UNCHANGED <<scene, clock>>

Tick ==
    /\ clock < MaxNow
    /\ clock' = clock + 1
    /\ UNCHANGED <<scene, rows>>

Next ==
    \/ \E day \in Calendar : Book(day)
    \/ Enter \/ Withdraw \/ Tick

Spec == Init /\ [][Next]_vars

-----------------------------------------------------------------------------
OnGrid(t) == t % scene.step = 0

\* Every time of the day lies on the grid: shifts, events and the earliest
\* start.
AllOnGrid ==
    /\ ~scene.alignService
    /\ DayLength % scene.step = 0 /\ Hour % scene.step = 0 /\ OnGrid(Earliest)
    /\ \A r \in rows : OnGrid(r.start) /\ OnGrid(r.end)
    /\ \A u \in Users, d \in Calendar : \A w \in Shifts(u, d, TRUE) : OnGrid(w.start)

\* "version aligned with getAvailableDays", although computed apart: a day on
\* which some start of individual services is offered is listed as available.
\* Conversely a day listed for one service has a start to offer if everything
\* lies on the grid: one listing counts starts from the beginning of each
\* window, the other from midnight.
ListingsAgree ==
    (scene.offset = 0 /\ scene.fallback) =>
        \A ask \in {a \in Asks : Individual(a)}, day \in Calendar :
            LET available == DayStatus(ask, day, None) = "available"
                offered == TimeSlots(ask, day, None) # {}
            IN /\ offered => available
               /\ AllOnGrid /\ ~IsMulti(ask) /\ available => offered
=============================================================================
