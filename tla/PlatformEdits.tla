--------------------------- MODULE PlatformEdits ---------------------------
(***************************************************************************)
(* The platform's edits of bookings that have several events.              *)
(*                                                                         *)
(* A booking is a row of groupEvents with a window from start to end, its  *)
(* events and the seats of its clients.  updateById moves one event: alone *)
(* within its booking, or, with isMany, into a clone of the booking, and   *)
(* then splits what stays behind wherever a gap opens, one clone for each  *)
(* part.  upsertEvent lays the services of a booking out anew and replaces *)
(* its clients.  deleteEvent deletes an event, and the booking with its    *)
(* last one.  Clients join and cancel meanwhile.                           *)
(*                                                                         *)
(* A transaction's statements see the committed rows under those that it   *)
(* wrote itself, and wait for rows that another one wrote.  INSERTs, which *)
(* nobody sees before the COMMIT, are one action with the read before.     *)
(***************************************************************************)
EXTENDS EditPromises, Sequences, SequencesExt, FiniteSets

CONSTANTS
    Requests,  \* requests of platform and clients, each handled once
    Clients,
    EventIds,  \* the events there are at first
    GroupIds,  \* the bookings there are at first
    Initially, \* names the seats there are at first
    New,       \* an edit's service that has no event yet
    Scenes     \* the rows at first, and what each request asks for

Life == {"live", "deleted", "gone"}

\* A row of groupEvents, events or eventParticipants.  A row that is gone was
\* deleted for good; any other deletion sets deletedDate.
Row(groups) ==
    [kind : {"group"}, start : Nat, end : Nat, cancelled : BOOLEAN, life : Life]
      \union [kind : {"event"}, group : groups, start : Nat, end : Nat, life : Life]
      \union [kind : {"seat"}, group : groups, client : Clients, active : BOOLEAN,
              life : Life]

Job ==
    [kind : {"move"}, event : EventIds, start : Nat, end : Nat, many : BOOLEAN]
      \union [kind : {"edit"}, group : GroupIds, start : Nat, clients : SUBSET Clients,
              services : Seq([event : EventIds \union {New}, duration : Nat])]
      \union [kind : {"delete"}, event : EventIds]
      \union [kind : {"join", "cancel"}, event : EventIds, client : Clients]

ASSUME EditsAssumption ==
    /\ Initially \notin Requests
    /\ \A s \in Scenes :
         /\ EventIds \union GroupIds \subseteq DOMAIN s.rows /\ IsFiniteSet(DOMAIN s.rows)
         /\ s.rows \in [DOMAIN s.rows -> Row(GroupIds)] /\ s.jobs \in [Requests -> Job]
         /\ \A e \in EventIds : s.rows[e].kind = "event"
         /\ \A g \in GroupIds : s.rows[g].kind = "group"
         /\ \A g \in Live(s.rows, "group") : Spanned(s.rows, g)
         /\ \A r \in Requests : s.jobs[r].kind = "edit" => s.jobs[r].services # <<>>

VARIABLES
    writes,  \* the rows each open transaction has written, and so locked
    read,    \* what it read
    plan,    \* the segments, or the services, it has yet to write
    touched  \* history: the bookings that others changed since

vars == <<rows, writes, job, stage, read, plan, known, touched, spoilt>>
history == <<known, touched, spoilt>>

----------------------------------------------------------------------------
(* Rows *)

\* Rows written over others
Over(new, old) ==
    [x \in DOMAIN new \union DOMAIN old |-> IF x \in DOMAIN new THEN new[x] ELSE old[x]]

One(x, row) == [y \in {x} |-> row]

\* What the transaction of r sees
View(r) == Over(writes[r], rows)

There(view, x) == x \in DOMAIN view /\ view[x].life # "gone"

WithLife(view, xs, life) == [x \in xs |-> [view[x] EXCEPT !.life = life]]

WithWindow(view, g, window) ==
    One(g, [view[g] EXCEPT !.start = window.start, !.end = window.end])

\* No other transaction has written these rows.
Free(r, xs) == \A s \in Requests \ {r} : DOMAIN writes[s] \intersect xs = {}

Goto(r, label) == stage' = [stage EXCEPT ![r] = label]

Answered == {"done", "error"}

\* An UPDATE, once its rows are free
Write(r, new, label) ==
    /\ Free(r, DOMAIN new)
    /\ writes' = [writes EXCEPT ![r] = Over(new, @)]
    /\ Goto(r, label)

\* A statement throws: the transaction is rolled back.
Throw(r) ==
    /\ writes' = [writes EXCEPT ![r] = <<>>]
    /\ Goto(r, "error")

InFlight(r) == stage[r] \notin {"start"} \union Answered

----------------------------------------------------------------------------
(* updateById *)

\* _loadContext finds the event,
LoadEvent(r) ==
    /\ stage[r] = "start" /\ job[r].kind = "move"
    /\ LET e == job[r].event
       IN  \/ /\ rows[e].life = "live"
              /\ read' = [read EXCEPT ![r].group = rows[e].group]
              /\ Goto(r, "load")
           \/ /\ rows[e].life # "live"
              /\ Goto(r, "error")
              /\ UNCHANGED read
    /\ UNCHANGED <<rows, writes, job, plan, history>>

\* Mutant: soft-deleted participants are cloned too.
CloneWithDeleted(r, context, g, window) ==
    Over(One(g, [kind |-> "group", start |-> window.start, end |-> window.end,
                 cancelled |-> context.cancelled, life |-> "live"]),
         [x \in {<<g, y>> : y \in {z \in DOMAIN rows : /\ rows[z].kind = "seat"
                                                       /\ rows[z].group = read[r].group}} |->
            [rows[x[2]] EXCEPT !.group = g, !.life = "live"]])

\* _cloneGroupWithParticipants: what was read of the booking and its
\* participants, under a new id and with a window of its own
Clone(r, context, g, window) ==
    Over(One(g, [kind |-> "group", start |-> window.start, end |-> window.end,
                 cancelled |-> context.cancelled, life |-> "live"]),
         [x \in {<<g, y>> : y \in DOMAIN context.seats} |->
            [context.seats[x[2]] EXCEPT !.group = g]])

\* The id of the next clone that r makes
NextGroup(r) ==
    <<r, 1 + Cardinality({x \in DOMAIN writes[r] \ DOMAIN rows :
                              writes[r][x].kind = "group"})>>

\* then its booking with the participants.  With isMany the clone for the moved
\* event is inserted next.
LoadGroup(r) ==
    /\ stage[r] = "load"
    /\ LET g == read[r].group
           context == [read[r] EXCEPT
               !.cancelled = rows[g].cancelled,
               !.seats = [x \in SeatsOf(rows, g) |-> rows[x]]]
       IN  \/ /\ \/ ~There(rows, g)
                 \/ job[r].many /\ job[r].start >= job[r].end
              /\ Throw(r)
              /\ UNCHANGED <<read, known>>
           \/ /\ There(rows, g)
              /\ job[r].many => job[r].start < job[r].end
              /\ read' = [read EXCEPT ![r] = context]
              /\ known' = [known EXCEPT ![r] =
                             [e \in EventsOf(rows, g) |-> Attending(rows, e)]]
              /\ writes' = [writes EXCEPT ![r] =
                              IF job[r].many THEN Clone(r, context, NextGroup(r), job[r])
                                             ELSE <<>>]
              /\ Goto(r, "event")
    /\ UNCHANGED <<rows, job, plan, touched, spoilt>>

\* The UPDATE of the event; a deletion since it was loaded goes unnoticed.
MoveEvent(r) ==
    /\ stage[r] = "event"
    /\ LET e == job[r].event
           row == View(r)[e]
       IN  \/ /\ row.life # "gone"
              /\ Write(r, One(e, [row EXCEPT !.start = job[r].start, !.end = job[r].end,
                                             !.group = IF job[r].many THEN <<r, 1>> ELSE @]),
                       IF job[r].many THEN "remain" ELSE "syncRead")
           \/ /\ row.life = "gone" /\ Free(r, {e})
              /\ Throw(r)
    /\ UNCHANGED <<rows, job, read, plan, history>>

\* The events in an order that findMany may give them
ByStart(view, es) ==
    {s \in SetToSeqs(es) :
        \A i, j \in DOMAIN s : i < j => view[s[i]].start <= view[s[j]].start}

\* _splitByTimeContinuity: a new segment begins where an event starts after the
\* end of the one before it.
Segments(view, s) ==
    LET Gaps(i) == {j \in 2..i : view[s[j]].start > view[s[j - 1]].end}
        Nth(k) == {s[i] : i \in {j \in DOMAIN s : Cardinality(Gaps(j)) = k - 1}}
    IN  [k \in 1..(Cardinality(Gaps(Len(s))) + 1) |->
            [events |-> Nth(k), start |-> Span(view, Nth(k)).start, end |-> Span(view, Nth(k)).end]]

\* What is left in the booking
Remain(r) ==
    /\ stage[r] = "remain"
    /\ LET left == EventsOf(View(r), read[r].group)
       IN  \/ /\ left = {}
              /\ Goto(r, "syncRead")
              /\ UNCHANGED plan
           \/ /\ left # {}
              /\ \E s \in ByStart(View(r), left) :
                    plan' = [plan EXCEPT ![r] = Segments(View(r), s)]
              /\ Goto(r, "bound")
    /\ UNCHANGED <<rows, writes, job, read, history>>

AfterSegment(r) == IF Len(plan[r]) = 1 THEN "syncRead" ELSE "split"

\* _splitOriginalGroupIfNeeded: the booking keeps the first segment,
Bound(r) ==
    /\ stage[r] = "bound"
    /\ LET g == read[r].group
       IN  \/ /\ There(View(r), g)
              /\ Write(r, WithWindow(View(r), g, Head(plan[r])), AfterSegment(r))
              /\ plan' = [plan EXCEPT ![r] = Tail(@)]
           \/ /\ ~There(View(r), g) /\ Free(r, {g})
              /\ Throw(r)
              /\ UNCHANGED plan
    /\ UNCHANGED <<rows, job, read, history>>

\* and each further one gets a clone; its events are found by their ids.
Split(r) ==
    /\ stage[r] = "split"
    /\ LET g == NextGroup(r)
           es == {e \in Head(plan[r]).events : There(View(r), e)}
       IN  Write(r, Over(Clone(r, read[r], g, Head(plan[r])),
                        [e \in es |-> [View(r)[e] EXCEPT !.group = g]]),
                 AfterSegment(r))
    /\ plan' = [plan EXCEPT ![r] = Tail(@)]
    /\ UNCHANGED <<rows, job, read, history>>

----------------------------------------------------------------------------
(* The window of a booking: _syncGroupWindow and _syncGroupStartEndDates *)

\* Mutant: the events are read outside the transaction.
SyncReadOutside(r) ==
    /\ stage[r] = "syncRead"
    /\ LET es == EventsOf(rows, read[r].group)
       IN  \/ /\ es = {}
              /\ Goto(r, "commit")
              /\ UNCHANGED read
           \/ /\ es # {}
              /\ read' = [read EXCEPT ![r].window = Span(rows, es)]
              /\ Goto(r, "syncWrite")
    /\ touched' = [touched EXCEPT ![r] = IF job[r].kind = "move" /\ job[r].many THEN @
                                         ELSE @ \ {read[r].group}]
    /\ UNCHANGED <<rows, writes, job, plan, known, spoilt>>

SyncRead(r) ==
    /\ stage[r] = "syncRead"
    /\ LET es == EventsOf(View(r), read[r].group)
       IN  \/ /\ es = {}
              /\ Goto(r, "commit")
              /\ UNCHANGED read
           \/ /\ es # {}
              /\ read' = [read EXCEPT ![r].window = Span(View(r), es)]
              /\ Goto(r, "syncWrite")
    /\ touched' = [touched EXCEPT ![r] = IF job[r].kind = "move" /\ job[r].many THEN @
                                         ELSE @ \ {read[r].group}]
    /\ UNCHANGED <<rows, writes, job, plan, known, spoilt>>

SyncWrite(r) ==
    /\ stage[r] = "syncWrite"
    /\ LET g == read[r].group
       IN  \/ /\ There(View(r), g)
              /\ Write(r, WithWindow(View(r), g, read[r].window), "commit")
           \/ /\ ~There(View(r), g) /\ Free(r, {g})
              /\ Throw(r)
    /\ UNCHANGED <<rows, job, read, plan, history>>

----------------------------------------------------------------------------
(* upsertEvent *)

\* Of the rows that r has listed, those that still exist
Listed(r) == {x \in read[r].listed : There(View(r), x)}

\* The services one after the other from the start of the edit
Timed(services, start) ==
    LET end[i \in 0..Len(services)] ==
            IF i = 0 THEN start ELSE end[i - 1] + services[i].duration
    IN  [i \in DOMAIN services |->
            [event |-> services[i].event, start |-> end[i - 1], end |-> end[i]]]

\* _ensureGroupEvents: the booking's row is updated, a deleted one revived, and
\* one that is gone made again.  The status is left out.
OpenGroup(r) ==
    /\ stage[r] = "start" /\ job[r].kind = "edit"
    /\ LET g == job[r].group
           timed == Timed(job[r].services, job[r].start)
           cancelled == There(View(r), g) /\ View(r)[g].cancelled
       IN  /\ Write(r, One(g, [kind |-> "group", start |-> job[r].start,
                               end |-> Last(timed).end, cancelled |-> cancelled,
                               life |-> "live"]), "list")
           /\ plan' = [plan EXCEPT ![r] = timed]
           /\ read' = [read EXCEPT ![r].group = g]
    /\ UNCHANGED <<rows, job, history>>

\* _getEventsByGroup: the booking's events that are not among the services are
\* listed
ListObsolete(r) ==
    /\ stage[r] = "list"
    /\ LET kept == {plan[r][i].event : i \in DOMAIN plan[r]}
       IN  read' = [read EXCEPT ![r].listed = EventsOf(View(r), read[r].group) \ kept]
    /\ Goto(r, "date")
    /\ UNCHANGED <<rows, writes, job, plan, history>>

\* and soft-deleted by their ids.
DateObsolete(r) ==
    /\ stage[r] = "date"
    /\ Write(r, WithLife(View(r), Listed(r), "deleted"), "service")
    /\ UNCHANGED <<rows, job, read, plan, history>>

\* _upsertServices: an event is updated by its id, whatever booking it is in, or
\* inserted.
UpsertService(r) ==
    /\ stage[r] = "service"
    /\ LET s == Head(plan[r])
           g == read[r].group
           e == IF s.event = New THEN <<r, Len(plan[r])>> ELSE s.event
           life == IF s.event = New THEN "live" ELSE View(r)[e].life
       IN  \/ /\ life # "gone"
              /\ Write(r, One(e, [kind |-> "event", group |-> g, start |-> s.start,
                                  end |-> s.end, life |-> life]),
                       IF Len(plan[r]) = 1 THEN "seats" ELSE "service")
              /\ plan' = [plan EXCEPT ![r] = Tail(@)]
           \/ /\ life = "gone" /\ Free(r, {e})
              /\ Throw(r)
              /\ UNCHANGED plan
    /\ UNCHANGED <<rows, job, read, history>>

\* _upsertParticipants
ReplaceSeats(r) ==
    /\ stage[r] = "seats"
    /\ LET g == read[r].group
       IN  Write(r, Over(WithLife(View(r), SeatsOf(View(r), g), "deleted"),
                        [x \in {r} \X job[r].clients |->
                            [kind |-> "seat", group |-> g, client |-> x[2],
                             active |-> TRUE, life |-> "live"]]),
                 "syncRead")
    /\ UNCHANGED <<rows, job, read, plan, history>>

----------------------------------------------------------------------------
(* deleteEvent *)

\* The event's booking is looked up before the transaction.
DeleteLook(r) ==
    /\ stage[r] = "start" /\ job[r].kind = "delete"
    /\ read' = [read EXCEPT ![r].group = rows[job[r].event].group]
    /\ Goto(r, IF There(rows, job[r].event) THEN "dropEvent" ELSE "commit")
    /\ UNCHANGED <<rows, writes, job, plan, history>>

DropEvent(r) ==
    /\ stage[r] = "dropEvent"
    /\ Write(r, WithLife(View(r), {job[r].event}, "gone"), "findSeats")
    /\ UNCHANGED <<rows, job, read, plan, history>>

\* The rows of the booking, deleted ones too
Refer(view, g, kind) ==
    {x \in DOMAIN view : There(view, x) /\ view[x].kind = kind /\ view[x].group = g}

\* The seats and the booking are deleted if it has no event, not even a
\* soft-deleted one.  The DELETE looks for such seats,
FindSeats(r) ==
    /\ stage[r] = "findSeats"
    /\ LET g == read[r].group
       IN  read' = [read EXCEPT ![r].listed =
                       IF Refer(View(r), g, "event") # {} THEN {}
                       ELSE Refer(View(r), g, "seat")]
    /\ Goto(r, "dropSeats")
    /\ UNCHANGED <<rows, writes, job, plan, history>>

\* and deletes them once their rows are free.
DropSeats(r) ==
    /\ stage[r] = "dropSeats"
    /\ Write(r, WithLife(View(r), Listed(r), "gone"), "dropGroup")
    /\ UNCHANGED <<rows, job, read, plan, history>>

\* A seat taken meanwhile makes the DELETE fail.
DropGroup(r) ==
    /\ stage[r] = "dropGroup"
    /\ LET g == read[r].group
           empty == Refer(View(r), g, "event") = {} /\ There(View(r), g)
           taken == Refer(View(r), g, "seat") # {}
       IN  \/ /\ ~empty
              /\ Goto(r, "commit")
              /\ UNCHANGED writes
           \/ /\ empty /\ ~taken
              /\ Write(r, WithLife(View(r), {g}, "gone"), "commit")
           \/ /\ empty /\ taken /\ Free(r, {g})
              /\ Throw(r)
    /\ UNCHANGED <<rows, job, read, plan, history>>

----------------------------------------------------------------------------
(* Clients *)

\* createOrJoinGroupEvent finds the event; whether there is a seat left is left
\* out.
FindEvent(r) ==
    /\ stage[r] = "start" /\ job[r].kind = "join"
    /\ LET e == job[r].event
       IN  \/ /\ rows[e].life = "live"
              /\ read' = [read EXCEPT ![r].group = rows[e].group]
              /\ Goto(r, "join")
           \/ /\ rows[e].life # "live"
              /\ Goto(r, "error")
              /\ UNCHANGED read
    /\ UNCHANGED <<rows, writes, job, plan, history>>

\* It inserts the client's seat, if there is none, and commits.  The reference to
\* the booking waits for a transaction that deletes it.
Join(r) ==
    /\ stage[r] = "join"
    /\ LET g == read[r].group
           mine == {x \in SeatsOf(rows, g) : rows[x].client = job[r].client}
           seat == One(<<r, job[r].client>>,
                       [kind |-> "seat", group |-> g, client |-> job[r].client,
                        active |-> TRUE, life |-> "live"])
       IN  /\ \A s \in Requests : There(rows, g) => There(View(s), g)
           /\ \/ /\ There(rows, g)
                 /\ rows' = IF mine = {} THEN Over(seat, rows) ELSE rows
                 /\ Goto(r, "done")
              \/ /\ ~There(rows, g)
                 /\ Goto(r, "error")
                 /\ UNCHANGED rows
    /\ UNCHANGED <<writes, job, read, plan, history>>

\* cancelEventFromWeb, of a booking that is not a class
CancelRead(r) ==
    /\ stage[r] = "start" /\ job[r].kind = "cancel"
    /\ LET e == job[r].event
           g == rows[e].group
           mine == {x \in SeatsOf(rows, g) : /\ rows[x].client = job[r].client
                                             /\ rows[x].active}
       IN  \/ /\ rows[e].life = "live" /\ ~rows[g].cancelled
              /\ \E x \in mine : read' = [read EXCEPT ![r].group = g, ![r].seats = One(x, rows[x])]
              /\ Goto(r, "cancelSeat")
           \/ /\ rows[e].life # "live" \/ rows[g].cancelled \/ mine = {}
              /\ Goto(r, "error")
              /\ UNCHANGED read
    /\ UNCHANGED <<rows, writes, job, plan, history>>

CancelSeat(r) ==
    /\ stage[r] = "cancelSeat"
    /\ \E x \in DOMAIN read[r].seats :
          \/ /\ There(View(r), x)
             /\ Write(r, One(x, [View(r)[x] EXCEPT !.active = FALSE]), "cancelGroup")
          \/ /\ ~There(View(r), x) /\ Free(r, {x})
             /\ Throw(r)
    /\ UNCHANGED <<rows, job, read, plan, history>>

CancelGroup(r) ==
    /\ stage[r] = "cancelGroup"
    /\ LET g == read[r].group
       IN  \/ /\ There(View(r), g)
              /\ Write(r, One(g, [View(r)[g] EXCEPT !.cancelled = TRUE]), "commit")
           \/ /\ ~There(View(r), g) /\ Free(r, {g})
              /\ Throw(r)
    /\ UNCHANGED <<rows, job, read, plan, history>>

----------------------------------------------------------------------------
(* The end of a transaction *)

Platform(r) == job[r].kind \in {"move", "edit", "delete"}

EventsWritten(r) == {x \in DOMAIN writes[r] : writes[r][x].kind = "event"}

\* The bookings whose window or events the transaction of r changes: those it
\* leaves an event in, those it takes one out of
Taken(r, xs) == {rows[e].group : e \in xs \intersect DOMAIN rows}

Changed(r) ==
    IF ~Platform(r) THEN {}
    ELSE {x \in DOMAIN writes[r] : writes[r][x].kind = "group"}
           \union {writes[r][e].group : e \in EventsWritten(r)}
           \union Taken(r, EventsWritten(r))

\* Another request changed the booking that r changes, or the one that an event
\* came from.
Raced(r) ==
    LET hit == touched[r] \intersect Changed(r)
    IN  hit \union {writes[r][e].group :
                       e \in {x \in EventsWritten(r) : Taken(r, {x}) \intersect hit # {}}}

\* Bookings that lose an event without a new window: deleteEvent sets none, an
\* edit only that of its own booking.
Unsynced(r) ==
    CASE job[r].kind = "delete" -> Changed(r)
      [] job[r].kind = "edit"   -> Taken(r, EventsWritten(r)) \ {job[r].group}
      [] OTHER -> {}

Commit(r) ==
    /\ stage[r] = "commit"
    /\ rows' = View(r)
    /\ writes' = [writes EXCEPT ![r] = <<>>]
    /\ Goto(r, "done")
    /\ touched' = [s \in Requests |->
                     IF s # r /\ InFlight(s) THEN touched[s] \union Changed(r)
                                             ELSE touched[s]]
    /\ spoilt' = (spoilt \ Changed(r)) \union Raced(r) \union Unsynced(r)
    /\ UNCHANGED <<job, read, plan, known>>

\* PostgreSQL ends a deadlock, Prisma a transaction that exceeds its time limit,
\* or the connection breaks.
Abort(r) ==
    /\ InFlight(r)
    /\ Throw(r)
    /\ UNCHANGED <<rows, job, read, plan, history>>

----------------------------------------------------------------------------
(* Specification *)

NothingRead == [group |-> CHOOSE g \in GroupIds : TRUE, seats |-> <<>>, cancelled |-> FALSE,
                listed |-> {}, window |-> [start |-> 0, end |-> 0]]

Init ==
    /\ \E s \in Scenes : rows = s.rows /\ job = s.jobs
    /\ writes = [r \in Requests |-> <<>>]
    /\ stage = [r \in Requests |-> "start"]
    /\ read = [r \in Requests |-> NothingRead]
    /\ plan = [r \in Requests |-> <<>>]
    /\ known = [r \in Requests |-> <<>>]
    /\ touched = [r \in Requests |-> {}]
    /\ spoilt = {}

Step(r) ==
    \/ LoadEvent(r) \/ LoadGroup(r) \/ MoveEvent(r) \/ Remain(r) \/ Bound(r) \/ Split(r)
    \/ SyncRead(r) \/ SyncWrite(r)
    \/ OpenGroup(r) \/ ListObsolete(r) \/ DateObsolete(r) \/ UpsertService(r)
    \/ ReplaceSeats(r)
    \/ DeleteLook(r) \/ DropEvent(r) \/ FindSeats(r) \/ DropSeats(r) \/ DropGroup(r)
    \/ FindEvent(r) \/ Join(r) \/ CancelRead(r) \/ CancelSeat(r) \/ CancelGroup(r)
    \/ Commit(r) \/ Abort(r)

Next == \E r \in Requests : Step(r)

Spec == Init /\ [][Next]_vars

=============================================================================
