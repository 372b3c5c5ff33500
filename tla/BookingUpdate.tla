--------------------------- MODULE BookingUpdate ---------------------------
(***************************************************************************)
(* A client moves a booking on the web.                                    *)
(*                                                                         *)
(* A request reads the booking without a lock and then takes one of three  *)
(* ways.  A participant of a class is moved: the seat is given up and      *)
(* another class joined or made, under the advisory lock of its slot.  A   *)
(* booking of one event is rewritten in place.  Any other one is rebuilt:  *)
(* its events are rewritten one by one, the missing ones inserted and the  *)
(* surplus deleted.  The last two take no advisory lock; each ends in one  *)
(* READ COMMITTED transaction.                                             *)
(*                                                                         *)
(* Deletions are soft.  A transaction's statements see the committed rows  *)
(* under those it wrote itself, and wait for rows that another one wrote.  *)
(* UPDATEs by id and INSERTs that follow each other, and the COMMIT after  *)
(* them, are one action: nobody sees the states in between.                *)
(*                                                                         *)
(* A hold in Redis, or a pick that finds no weighted professional, may     *)
(* refuse any plan: holds expire at any time (module Booking), so they     *)
(* admit and refuse the same as this choice.                               *)
(***************************************************************************)
EXTENDS Integers, Sequences, SequencesExt, FiniteSets

CONSTANTS
    Requests,    \* update requests, each handled once
    Clients,
    Users,       \* professionals
    Services,
    Capacity,    \* maxParticipants of each service
    Horizon,     \* the end of the working day
    MaxServices, \* maxServicesPerBooking
    EventIds,    \* the events there are at first
    GroupIds,    \* the bookings
    Initially,   \* names the seats there are at first
    Scenes       \* bookings, and what each request asks for

Slot == [service : Services, user : Users, start : Nat, end : Nat]

SeatId == (Requests \union {Initially}) \X GroupIds \X Clients

EventRow == [slot : Slot, group : GroupIds, live : BOOLEAN]

\* The group's own row: only whether its status is a cancelled one matters.
GroupRow == [cancelled : BOOLEAN]

Attendee == [service : Services, duration : Nat \ {0}, staff : SUBSET Users]

Ask == [client : Clients, event : EventIds, start : Nat, deletes : SUBSET EventIds,
        attendees : Seq(Attendee)]

ASSUME UpdateAssumption ==
    /\ Capacity \in [Services -> Nat \ {0}]
    /\ Horizon \in Nat /\ MaxServices \in Nat
    /\ Initially \notin Requests
    /\ IsFiniteSet(EventIds) /\ EventIds \intersect (Requests \X Nat) = {}
    /\ \A s \in Scenes :
         /\ s.events \in [EventIds -> EventRow]
         /\ s.groups \in [GroupIds -> GroupRow]
         /\ s.seats \subseteq {Initially} \X GroupIds \X Clients
         /\ IsFiniteSet(s.seats)
         /\ \A r \in Requests : s.asks[r] \in Ask /\ s.asks[r].attendees # <<>>

VARIABLES
    events,  \* table events, by id
    groups,  \* table groupEvents, by id
    seats,   \* table eventParticipant, by id: the row is live
    ask,     \* what each request asks for
    pc,      \* where each request is
    read,    \* what it read: the booking, its events, its participants, and the
             \* seats to give up and the event found, once they are known
    plan,    \* the segments it chose
    writes,  \* the rows its transaction has written, and so locked
    held,    \* the advisory lock of its transaction
    checked, \* history: the events it saw in its last overlap query
    looked   \* history: the live seats there were when it looked for its own

vars == <<events, groups, seats, ask, pc, read, plan, writes, held, checked, looked>>
tables == <<events, groups, seats>>

Overlap(s, t) == s.start < t.end /\ s.end > t.start

\* One row, and new rows on top of those of a table
Single(id, row) == [x \in {id} |-> row]

Over(new, table) ==
    [x \in DOMAIN new \union DOMAIN table |-> IF x \in DOMAIN new THEN new[x] ELSE table[x]]

NoRows == [events |-> <<>>, seats |-> <<>>, groups |-> {}]

\* What the transaction of r sees
EventsSeen(r) == Over(writes[r].events, events)
SeatsSeen(r) == Over(writes[r].seats, seats)

SeatsIn(table, g) == {x \in DOMAIN table : x[2] = g /\ table[x]}
SeatsOf(table, g, c) == {x \in SeatsIn(table, g) : x[3] = c}

LiveSeats == {x \in DOMAIN seats : seats[x]}

EventsIn(table, g) == {e \in DOMAIN table : table[e].group = g}
LiveIn(table, g) == {e \in EventsIn(table, g) : table[e].live}

\* A professional is busy with the event: it and its group are not cancelled.
Standing(row) == row.live /\ ~groups[row.group].cancelled

\* No other transaction has written these rows.
Free(r, evs, sts, grps) ==
    \A s \in Requests \ {r} :
        /\ DOMAIN writes[s].events \intersect evs = {}
        /\ DOMAIN writes[s].seats \intersect sts = {}
        /\ writes[s].groups \intersect grps = {}

Me(r) == ask[r].client
Original(r) == read[r].group
Goto(r, label) == pc' = [pc EXCEPT ![r] = label]

InTx == {"count", "aim", "giveUp", "lock", "find", "join", "overlap", "create", "sync",
         "finish", "check", "rewrite", "open", "ensure", "checkEach", "rebuild"}

EndTx(r) ==
    /\ writes' = [writes EXCEPT ![r] = NoRows]
    /\ held' = [held EXCEPT ![r] = <<>>]

Reject(r) == Goto(r, "rejected") /\ EndTx(r)

\* The transaction ends with these rows on top of those it wrote before.
CommitWith(r, evs, sts) ==
    /\ events' = Over(evs, EventsSeen(r))
    /\ seats' = Over(sts, SeatsSeen(r))
    /\ Goto(r, "updated")
    /\ EndTx(r)

----------------------------------------------------------------------------
NothingRead ==
    [group |-> CHOOSE g \in GroupIds : TRUE, originals |-> <<>>, counted |-> {},
     seats |-> {}, target |-> CHOOSE e \in EventIds : TRUE]

Init ==
    /\ \E s \in Scenes :
         /\ events = s.events /\ groups = s.groups
         /\ seats = [x \in s.seats |-> TRUE]
         /\ ask = s.asks
    /\ pc = [r \in Requests |-> "idle"]
    /\ read = [r \in Requests |-> NothingRead]
    /\ plan = [r \in Requests |-> <<>>]
    /\ writes = [r \in Requests |-> NoRows]
    /\ held = [r \in Requests |-> <<>>]
    /\ checked = [r \in Requests |-> <<>>]
    /\ looked = [r \in Requests |-> {}]

\* The event, deleted or not, and the live participants of its booking
Look(r) ==
    /\ pc[r] = "idle"
    /\ LET g == events[ask[r].event].group
       IN  /\ read' = [read EXCEPT ![r].group = g]
           /\ Goto(r, IF SeatsOf(seats, g, Me(r)) # {} THEN "list" ELSE "rejected")
    /\ UNCHANGED <<tables, ask, plan, writes, held, checked, looked>>

\* The live events of the booking by start, or else the one asked for
Originals(r) ==
    LET ids == LiveIn(events, Original(r))
        sorted(q) == \A i, j \in DOMAIN q :
                        i < j => events[q[i]].slot.start <= events[q[j]].slot.start
    IN  IF ids = {} THEN {<<ask[r].event>>} ELSE {q \in SetToSeqs(ids) : sorted(q)}

Deletes(r, originals) == ask[r].deletes \intersect ToSet(originals)

\* One event of one service stays one, and nothing is deleted.
StaysSingle(r, originals) ==
    Len(ask[r].attendees) = 1 /\ Len(originals) = 1 /\ Deletes(r, originals) = {}

\* resolveUpdateFlowStrategy
Flow(r, originals) ==
    IF ~StaysSingle(r, originals) THEN "several"
    ELSE IF Capacity[ask[r].attendees[1].service] > 1 THEN "class" ELSE "single"

List(r) ==
    /\ pc[r] = "list"
    /\ \E originals \in Originals(r) :
         /\ read' = [read EXCEPT ![r].originals = originals]
         /\ Goto(r, IF Flow(r, originals) = "several" /\ Len(ask[r].attendees) > MaxServices
                    THEN "rejected" ELSE Flow(r, originals))
    /\ UNCHANGED <<tables, ask, plan, writes, held, checked, looked>>

----------------------------------------------------------------------------
(* Plans *)

SlotAt(attendee, user, start) ==
    [service |-> attendee.service, user |-> user, start |-> start,
     end |-> start + attendee.duration]

\* A class is not looked up in the agenda.
PlanClass(r) ==
    /\ pc[r] = "class"
    /\ \/ \E u \in ask[r].attendees[1].staff :
            /\ plan' = [plan EXCEPT ![r] = <<SlotAt(ask[r].attendees[1], u, ask[r].start)>>]
            /\ Goto(r, "count")
       \/ Goto(r, "rejected") /\ UNCHANGED plan
    /\ UNCHANGED <<tables, ask, read, writes, held, checked, looked>>

\* A free window of the professional: deleted events are in the way as well,
\* those of a cancelled booking and the request's own are not.
FreeSlot(r, slot) ==
    /\ slot.end <= Horizon
    /\ \A e \in DOMAIN events \ ToSet(read[r].originals) :
         (events[e].slot.user = slot.user /\ ~groups[events[e].group].cancelled)
            => ~Overlap(events[e].slot, slot)

\* Each service starts when the one before ends.
Starts(first, wanted) ==
    LET start[i \in 1..Len(wanted)] ==
            IF i = 1 THEN first ELSE start[i - 1] + wanted[i - 1].duration
    IN  start

\* The services one after the other, each with a professional who is free
Plans(r) ==
    LET wanted == ask[r].attendees
        start == Starts(ask[r].start, wanted)
    IN  {p \in {[i \in 1..Len(wanted) |-> SlotAt(wanted[i], user[i], start[i])] :
                   user \in [1..Len(wanted) -> Users]} :
           \A i \in DOMAIN p : p[i].user \in wanted[i].staff /\ FreeSlot(r, p[i])}

PlanSlots(r) ==
    /\ pc[r] \in {"single", "several"}
    /\ \/ \E p \in Plans(r) :
            /\ plan' = [plan EXCEPT ![r] = p]
            /\ Goto(r, IF pc[r] = "single" THEN "check" ELSE "open")
       \/ Goto(r, "rejected") /\ UNCHANGED plan
    /\ UNCHANGED <<tables, ask, read, writes, held, checked, looked>>

----------------------------------------------------------------------------
(* updateSingleEvent *)

\* One of these events keeps the professional from the slot.
Conflict(r, slot, among) ==
    \E e \in among :
        LET row == EventsSeen(r)[e]
        IN  row.live /\ row.slot.user = slot.user /\ Overlap(row.slot, slot)

\* The events of bookings that are not cancelled
OfUncancelled(r) ==
    {e \in DOMAIN EventsSeen(r) : ~groups[EventsSeen(r)[e].group].cancelled}

\* Mutant: only an event at the same start is a conflict.
CheckSameStart(r) ==
    /\ pc[r] = "check"
    /\ checked' = [checked EXCEPT ![r] = events]
    /\ LET slot == plan[r][1]
       IN  IF \E e \in DOMAIN events \ {ask[r].event} :
                 /\ Standing(events[e]) /\ events[e].slot.user = slot.user
                 /\ events[e].slot.start = slot.start
           THEN Reject(r)
           ELSE Goto(r, "rewrite") /\ UNCHANGED <<writes, held>>
    /\ UNCHANGED <<tables, ask, read, plan, looked>>

\* The overlap query, without the events of cancelled bookings
Check(r) ==
    /\ pc[r] = "check"
    /\ checked' = [checked EXCEPT ![r] = events]
    /\ IF Conflict(r, plan[r][1], OfUncancelled(r) \ {ask[r].event})
       THEN Reject(r)
       ELSE Goto(r, "rewrite") /\ UNCHANGED <<writes, held>>
    /\ UNCHANGED <<tables, ask, read, plan, looked>>

\* An UPDATE by id leaves deletedDate alone.
Moved(e, slot, g) == Single(e, [slot |-> slot, group |-> g, live |-> events[e].live])

\* The UPDATEs of booking and event, and the COMMIT
Rewrite(r) ==
    /\ pc[r] = "rewrite"
    /\ Free(r, {ask[r].event}, {}, {Original(r)})
    /\ CommitWith(r, Moved(ask[r].event, plan[r][1], Original(r)), <<>>)
    /\ UNCHANGED <<groups, ask, read, plan, checked, looked>>

----------------------------------------------------------------------------
(* rebuildBooking *)

\* The UPDATE of the booking locks its row.
Open(r) ==
    /\ pc[r] = "open"
    /\ Free(r, {}, {}, {Original(r)})
    /\ writes' = [writes EXCEPT ![r].groups = {Original(r)}]
    /\ Goto(r, "ensure")
    /\ UNCHANGED <<tables, ask, read, plan, held, checked, looked>>

\* The client's seat, if there is none
SeatIfNone(r, g) ==
    IF SeatsOf(SeatsSeen(r), g, Me(r)) # {} THEN <<>> ELSE Single(<<r, g, Me(r)>>, TRUE)

Ensure(r) ==
    /\ pc[r] = "ensure"
    /\ writes' = [writes EXCEPT ![r].seats = Over(SeatIfNone(r, Original(r)), @)]
    /\ looked' = [looked EXCEPT ![r] = LiveSeats]
    /\ Goto(r, "checkEach")
    /\ UNCHANGED <<tables, ask, read, plan, held, checked>>

\* The overlap queries, here with the events of cancelled bookings
CheckEach(r) ==
    /\ pc[r] = "checkEach"
    /\ checked' = [checked EXCEPT ![r] = events]
    /\ IF \E i \in DOMAIN plan[r] :
             Conflict(r, plan[r][i], DOMAIN EventsSeen(r) \ ToSet(read[r].originals))
       THEN Reject(r)
       ELSE Goto(r, "rebuild") /\ UNCHANGED <<writes, held>>
    /\ UNCHANGED <<tables, ask, read, plan, looked>>

\* The places of the originals that are kept, and how many these are up to one
Kept(r) ==
    {i \in 1..Len(read[r].originals) : read[r].originals[i] \notin ask[r].deletes}
Rank(r, i) == Cardinality({j \in Kept(r) : j <= i})

Segment(r, i) == [slot |-> plan[r][i], group |-> Original(r), live |-> TRUE]

\* Rows for originals at these places: each takes the segment of its rank.
Rewritten(r, places) ==
    [e \in {read[r].originals[i] : i \in places} |->
        LET i == CHOOSE j \in places : read[r].originals[j] = e
        IN  [Segment(r, Rank(r, i)) EXCEPT !.live = events[e].live]]

Inserted(r) ==
    [e \in {<<r, i>> : i \in (Cardinality(Kept(r)) + 1)..Len(plan[r])} |-> Segment(r, e[2])]

Removed(gone) == [e \in gone |-> [events[e] EXCEPT !.live = FALSE]]

\* Mutant: the surplus of kept events stays.
RebuiltWithSurplus(r) ==
    Over(Rewritten(r, {i \in Kept(r) : Rank(r, i) <= Len(plan[r])}),
         Over(Inserted(r), Removed(Deletes(r, read[r].originals))))

\* The kept events take the segments in turn, further segments are inserted,
\* surplus events and those to be deleted are deleted.
Rebuilt(r) ==
    LET matched == {i \in Kept(r) : Rank(r, i) <= Len(plan[r])}
        surplus == {read[r].originals[i] : i \in Kept(r) \ matched}
    IN  Over(Rewritten(r, matched),
             Over(Inserted(r), Removed(Deletes(r, read[r].originals) \union surplus)))

Rebuild(r) ==
    /\ pc[r] = "rebuild"
    /\ Free(r, ToSet(read[r].originals), {}, {})
    /\ CommitWith(r, Rebuilt(r), <<>>)
    /\ UNCHANGED <<groups, ask, read, plan, checked, looked>>

----------------------------------------------------------------------------
(* moveSingleParticipantInClassEdit *)

\* The participants of the booking are read: is the client one of them, and
\* the only one?
Count(r) ==
    /\ pc[r] = "count"
    /\ read' = [read EXCEPT ![r].counted = SeatsIn(seats, Original(r))]
    /\ IF SeatsOf(seats, Original(r), Me(r)) = {} THEN Reject(r)
       ELSE Goto(r, "aim") /\ UNCHANGED <<writes, held>>
    /\ UNCHANGED <<tables, ask, plan, checked, looked>>

\* activeParticipants.length === 1
Alone(r) == Cardinality(read[r].counted) = 1

\* Mutant: the seats of all participants are given up, whoever asks.
AimAll(r) ==
    /\ pc[r] = "aim"
    /\ read' = [read EXCEPT ![r].seats = SeatsIn(seats, Original(r))]
    /\ Goto(r, "giveUp")
    /\ UNCHANGED <<tables, ask, plan, writes, held, checked, looked>>

\* The snapshot of the UPDATE that gives up the seats: all of the booking for
\* the last participant, else the client's own
Aim(r) ==
    /\ pc[r] = "aim"
    /\ read' = [read EXCEPT ![r].seats =
                   IF Alone(r) THEN SeatsIn(seats, Original(r))
                                   ELSE SeatsOf(seats, Original(r), Me(r))]
    /\ Goto(r, "giveUp")
    /\ UNCHANGED <<tables, ask, plan, writes, held, checked, looked>>

\* The rows are written once nobody holds them; the events go with the last
\* participant.
GiveUp(r) ==
    /\ pc[r] = "giveUp"
    /\ LET gone == IF Alone(r) THEN EventsIn(events, Original(r)) ELSE {}
       IN  /\ Free(r, gone, read[r].seats, {})
           /\ writes' = [writes EXCEPT
                ![r].events = [e \in gone |-> [events[e] EXCEPT !.live = FALSE]],
                ![r].seats = [x \in read[r].seats |-> FALSE]]
    /\ Goto(r, "lock")
    /\ UNCHANGED <<tables, ask, read, plan, held, checked, looked>>

Key(slot) == <<slot.user, slot.service, slot.start>>

\* createOrJoinGroupEvent waits for the advisory lock of the slot.
Lock(r) ==
    /\ pc[r] = "lock"
    /\ \A s \in Requests \ {r} : held[s] # Key(plan[r][1])
    /\ held' = [held EXCEPT ![r] = Key(plan[r][1])]
    /\ Goto(r, "find")
    /\ UNCHANGED <<tables, ask, read, plan, writes, checked, looked>>

\* An event at exactly this slot, deleted or cancelled or not
Find(r) ==
    /\ pc[r] = "find"
    /\ LET found == {e \in DOMAIN EventsSeen(r) : EventsSeen(r)[e].slot = plan[r][1]}
       IN  \/ \E e \in found :
                /\ read' = [read EXCEPT ![r].target = e]
                /\ Goto(r, "join")
           \/ found = {} /\ Goto(r, "overlap") /\ UNCHANGED read
    /\ UNCHANGED <<tables, ask, plan, writes, held, checked, looked>>

TargetGroup(r) == EventsSeen(r)[read[r].target].group

\* Mutant: whether the client is in already is not looked up.
JoinTwice(r) ==
    /\ pc[r] = "join"
    /\ LET g == TargetGroup(r)
       IN  IF Cardinality(SeatsIn(SeatsSeen(r), g)) >= Capacity[plan[r][1].service]
           THEN Reject(r)
           ELSE /\ writes' = [writes EXCEPT ![r].seats = Over(Single(<<r, g, Me(r)>>, TRUE), @)]
                /\ Goto(r, "finish")
                /\ UNCHANGED held
    /\ looked' = [looked EXCEPT ![r] = LiveSeats]
    /\ UNCHANGED <<tables, ask, read, plan, checked>>

\* The client is in already, or takes a seat if there is one.
Join(r) ==
    /\ pc[r] = "join"
    /\ LET g == TargetGroup(r)
           mine == SeatsOf(SeatsSeen(r), g, Me(r))
       IN  IF mine = {}
              /\ Cardinality(SeatsIn(SeatsSeen(r), g)) >= Capacity[plan[r][1].service]
           THEN Reject(r)
           ELSE /\ writes' = [writes EXCEPT ![r].seats = Over(SeatIfNone(r, g), @)]
                /\ Goto(r, "finish")
                /\ UNCHANGED held
    /\ looked' = [looked EXCEPT ![r] = LiveSeats]
    /\ UNCHANGED <<tables, ask, read, plan, checked>>

OverlapQuery(r) ==
    /\ pc[r] = "overlap"
    /\ checked' = [checked EXCEPT ![r] = events]
    /\ IF Conflict(r, plan[r][1], OfUncancelled(r))
       THEN Reject(r)
       ELSE Goto(r, "create") /\ UNCHANGED <<writes, held>>
    /\ UNCHANGED <<tables, ask, read, plan, looked>>

\* A new event in the booking that is being changed, and the client's seat
\* there
Create(r) ==
    /\ pc[r] = "create"
    /\ writes' = [writes EXCEPT
          ![r].events = Over(Single(<<r, 1>>, [slot |-> plan[r][1], group |-> Original(r),
                                               live |-> TRUE]), @),
          ![r].seats = Over(SeatIfNone(r, Original(r)), @)]
    /\ looked' = [looked EXCEPT ![r] = LiveSeats]
    /\ Goto(r, "sync")
    /\ UNCHANGED <<tables, ask, read, plan, held, checked>>

\* _syncGroupStartEndDates writes the booking's row; then the COMMIT.
Sync(r) ==
    /\ pc[r] = "sync"
    /\ Free(r, {}, {}, {Original(r)})
    /\ CommitWith(r, <<>>, <<>>)
    /\ UNCHANGED <<groups, ask, read, plan, checked, looked>>

\* The event joined moves into the booking that is being changed.
Finish(r) ==
    /\ pc[r] = "finish"
    /\ LET e == read[r].target
       IN  /\ TargetGroup(r) # Original(r) => Free(r, {e}, {}, {})
           /\ CommitWith(r, IF TargetGroup(r) = Original(r) THEN <<>>
                            ELSE Single(e, [EventsSeen(r)[e] EXCEPT !.group = Original(r)]),
                         <<>>)
    /\ UNCHANGED <<groups, ask, read, plan, checked, looked>>

\* The time limit of the transaction, a deadlock's victim, a broken connection
Abort(r) ==
    /\ pc[r] \in InTx
    /\ Goto(r, "aborted")
    /\ EndTx(r)
    /\ UNCHANGED <<tables, ask, read, plan, checked, looked>>

MoveStep(r) ==
    \/ Count(r) \/ Aim(r) \/ GiveUp(r) \/ Lock(r) \/ Find(r) \/ Join(r)
    \/ OverlapQuery(r) \/ Create(r) \/ Sync(r) \/ Finish(r)

RequestStep(r) ==
    \/ Look(r) \/ List(r) \/ PlanClass(r) \/ PlanSlots(r)
    \/ Check(r) \/ Rewrite(r)
    \/ Open(r) \/ Ensure(r) \/ CheckEach(r) \/ Rebuild(r)
    \/ MoveStep(r)

Next == \E r \in Requests : RequestStep(r) \/ Abort(r)

Spec == Init /\ [][Next]_vars

----------------------------------------------------------------------------
Commits(r) == pc[r] # "updated" /\ pc'[r] = "updated"

\* A client gets a second seat in one booking only from a request that looked
\* for the first one when it was given up or not there yet: two requests of the
\* same client crossed, in moves to different slots or in a rebuild, which
\* takes no advisory lock.  One after the other they are "already-in".
SeatTwiceUnseen ==
    [][\A r \in Requests : Commits(r) =>
          \A x \in DOMAIN seats' \ DOMAIN seats :
             \A y \in SeatsOf(seats', x[2], x[3]) \ {x} :
                seats'[x] => y \notin looked[r]]_vars

\* Another client's seat is given up only by a request that counted one
\* participant before that seat was taken: nothing but the stale count in
\* moveSingleParticipantInClassEdit costs a client the seat.
SeatLossIsStaleCount ==
    [][\A x \in DOMAIN seats : (seats[x] /\ ~seats'[x]) =>
          \E r \in Requests :
             /\ Commits(r)
             /\ \/ x[3] = Me(r)
                \/ Alone(r) /\ x \notin read[r].counted]_vars

\* An update books a professional twice only with an event that changed after
\* its overlap query, or by moving a class into its booking from a cancelled
\* one, or a class whose professional was booked twice before.
DoubleBookingUnseen ==
    [][\A r \in Requests : Commits(r) =>
          \A e, f \in DOMAIN events' :
             (/\ e # f
              /\ e \notin DOMAIN events \/ events'[e] # events[e]
              /\ Standing(events'[e]) /\ Standing(events'[f])
              /\ events'[e].slot.user = events'[f].slot.user
              /\ Overlap(events'[e].slot, events'[f].slot))
             => \/ pc[r] = "finish" /\ (Standing(events[e]) \/ groups[events[e].group].cancelled)
                \/ f \notin DOMAIN checked[r]
                \/ checked[r][f] # events'[f]]_vars

\* A booking that is rebuilt, and whose events are still those that were
\* listed, consists of exactly the chosen segments afterwards.
RebuiltExactly ==
    [][\A r \in Requests :
          (/\ Commits(r) /\ pc[r] = "rebuild"
           /\ LiveIn(events, Original(r)) = ToSet(read[r].originals))
          => LET now == LiveIn(events', Original(r))
             IN  /\ {events'[e].slot : e \in now} = ToSet(plan[r])
                 /\ Cardinality(now) = Len(plan[r])]_vars

=============================================================================
