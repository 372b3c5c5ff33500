---------------------------- MODULE EditPromises ----------------------------
(***************************************************************************)
(* What PlatformEdits promises: to calendars and reminders, which read the *)
(* window of a booking, that it is the span of the booking's events; to    *)
(* clients, that moving events apart changes nobody's attendance.          *)
(***************************************************************************)
EXTENDS Integers, FiniteSetsExt

VARIABLES
    rows,    \* the committed rows of groupEvents, events and eventParticipants
    job,     \* what each request asks for
    stage,   \* the statement it is at
    known,   \* history: who attended each event when it read the booking
    spoilt   \* history: the bookings whose window may be wrong

Live(view, kind) == {x \in DOMAIN view : view[x].kind = kind /\ view[x].life = "live"}

EventsOf(view, g) == {e \in Live(view, "event") : view[e].group = g}

SeatsOf(view, g) == {x \in Live(view, "seat") : view[x].group = g}

\* From the first start to the last end
Span(view, es) ==
    [start |-> Min({view[e].start : e \in es}), end |-> Max({view[e].end : e \in es})]

Spanned(view, g) ==
    LET es == EventsOf(view, g)
    IN  es # {} => /\ view[g].start = Span(view, es).start
                   /\ view[g].end = Span(view, es).end

\* The clients who attend an event
Attending(view, e) ==
    LET g == view[e].group
    IN  IF view[g].cancelled THEN {}
        ELSE {view[x].client : x \in {y \in SeatsOf(view, g) : view[y].active}}

\* The window of a booking, which calendars and reminders read, is the span of
\* its events: each platform edit mends it, whatever the edits before have done.
\* What can leave it wrong are two edits of one booking at a time, a deleteEvent,
\* and an edit that takes an event out of another booking.
WindowsFollowEvents == \A g \in Live(rows, "group") \ spoilt : Spanned(rows, g)

\* Moving events apart changes nobody's attendance: who attended an event before
\* the commit attends it afterwards, in whichever booking it then is, and nobody
\* else does.  The exceptions are an event that was not in the booking when the
\* participants were read, and an attendance that has changed since then: the
\* clones bring the old one back.
AttendanceFollowsEvents ==
    [][\A r \in DOMAIN job :
         job[r].kind = "move" /\ stage[r] = "commit" /\ stage'[r] = "done" =>
           \A e \in Live(rows, "event") :
             \/ Attending(rows', e) = Attending(rows, e)
             \/ e \notin DOMAIN known[r]
             \/ known[r][e] # Attending(rows, e)]_<<rows, job, stage, known>>
=============================================================================
