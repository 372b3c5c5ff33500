------------------------- MODULE BookingRefinement -------------------------
\* Booking implements Attendance.
EXTENDS Booking

\* The sets of slots that a booking may end in
Wished(b) == {{p[i] : i \in DOMAIN p} : p \in Chains(b)}

Asker(b) == b.client

\* Those who have a seat in the group of an event at the slot; a cancelled
\* seat still is one.
TakingPart(s) ==
    {p.client : p \in {q \in seats : \E e \in events : e.slot = s /\ q.group = e.group}}

Answer(r) ==
    IF pc[r] = "booked" THEN "booked"
    ELSE IF pc[r] \in {"rejected", "aborted"} THEN "refused" ELSE "open"

Promise == INSTANCE Attendance WITH
    Wishes <- Bookings,
    ClientOf <- Asker,
    PlansOf <- Wished,
    Capacity <- [s \in Slot |-> Capacity[s.service]],
    wish <- input,
    book <- [s \in {e.slot : e \in events} |-> TakingPart(s)],
    answer <- [r \in Requests |-> Answer(r)]

\* Requests that plan on stale reads, wait for locks and roll back, and
\* cancellations that delete a class in three statements, look like a book of
\* attendance in which each booking is a single step: of a class, or of one or
\* several individual services.
ImplementsAttendance == Promise!Spec
=============================================================================
