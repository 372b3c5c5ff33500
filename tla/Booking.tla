------------------------------ MODULE Booking ------------------------------
(***************************************************************************)
(* Bookings made and cancelled by clients on the web.                      *)
(*                                                                         *)
(* A request plans first: it reads the professionals' events, tries to     *)
(* join a class, else takes a hold in Redis and picks a professional; or,  *)
(* for several services, assigns them one after the other.  Nothing that   *)
(* it reads there is protected.  Then one READ COMMITTED transaction runs  *)
(* createOrJoinGroupEvent for each segment under a PostgreSQL advisory     *)
(* lock on (professional, service, start) and, at the end, puts all events *)
(* of the booking into the group of the first.                             *)
(*                                                                         *)
(* A cancellation reads the booking outside any transaction, and for a     *)
(* class acts in up to four separate statements.                           *)
(*                                                                         *)
(* Tables are sets of rows.  Each statement is an action: it sees the rows *)
(* committed so far and those of its own transaction.  One workspace; the  *)
(* professionals work from 0 to Horizon; a request makes at most one group *)
(* and gives it its own name.                                              *)
(***************************************************************************)
EXTENDS Integers, Sequences, FiniteSets

CONSTANTS
    Requests,    \* booking requests, each handled once
    Cancels,     \* cancellation requests, each handled once
    Clients,
    Users,       \* professionals
    Weighted,    \* the professionals whose round-robin weight is not 0
    Services,
    Capacity,    \* maxParticipants of each service, at least 1
    Horizon,     \* the end of the working day
    AutoConfirm, \* autoConfirmClientBookings of the workspace
    Bookings,    \* what a client may ask for
    Jobs         \* what the requests may ask for together

Attendee == [service : Services, duration : Nat \ {0}, staff : SUBSET Users]

Booking == [client : Clients, start : Nat, attendees : Seq(Attendee)]

ASSUME BookingAssumption ==
    /\ Weighted \subseteq Users
    /\ Capacity \in [Services -> Nat \ {0}]
    /\ Horizon \in Nat
    /\ AutoConfirm \in BOOLEAN
    /\ Bookings \subseteq Booking
    /\ \A b \in Bookings : b.attendees # <<>>
    /\ Jobs \subseteq [Requests -> Bookings]

VARIABLES
    events,  \* table events
    groups,  \* table groupEvents
    seats,   \* table eventParticipants
    holds,   \* hold keys in Redis
    pc,      \* where each booking request is
    input,   \* what it asks for
    seen,    \* the busy slots it read
    plan,    \* the segments it has yet to book
    tx,      \* the rows and the core events of its transaction
    held,    \* the advisory locks of its transaction
    cancel   \* the state of each cancellation

vars == <<events, groups, seats, holds, pc, input, seen, plan, tx, held, cancel>>
tables == <<events, groups, seats>>
planning == <<holds, input, seen>>

CancelledByClient == "CANCELLED_BY_CLIENT"

Status == {"PENDING", "ACCEPTED", CancelledByClient}

Slot == [service : Services, user : Users, start : Nat, end : Nat]

\* Rows.  A request gives its seats its own name: it adds at most one to a
\* group.
Event == [id : Requests \X Nat, slot : Slot, group : Requests]
Group == [id : Requests, status : Status]
Seat == [id : Requests, group : Requests, client : Clients, status : Status]

Core == [id : Requests \X Nat, group : Requests]

\* The event that the transaction found at its segment, while it joins it
Found == [some : {FALSE}] \union [some : {TRUE}, event : Event]

Tx == [events : SUBSET Event, groups : SUBSET Group, seats : SUBSET Seat,
       core : Seq(Core), found : Found]

EmptyTx == [events |-> {}, groups |-> {}, seats |-> {}, core |-> <<>>,
            found |-> [some |-> FALSE]]

\* Mutant: one lock per professional and service, for the whole day.
KeyWithoutStart(slot) == <<slot.user, slot.service, 0>>

\* The advisory lock's key
Key(slot) == <<slot.user, slot.service, slot.start>>

Overlap(s, t) == s.start < t.end /\ s.end > t.start

IsClass(service) == Capacity[service] > 1

SeatsOf(rows, group) == {p \in rows : p.group = group}

\* The event's group is not cancelled.
LiveIn(e, rows) == \E g \in rows : g.id = e.group /\ g.status # CancelledByClient

Live(e) == LiveIn(e, groups)

\* What a statement of the transaction of r sees
EventsSeen(r) == events \union tx[r].events
GroupsSeen(r) == groups \union tx[r].groups
SeatsSeen(r) == seats \union tx[r].seats

Client(r) == input[r].client
First(r) == input[r].attendees[1]
IsMulti(r) == Len(input[r].attendees) > 1
Segment(r) == Head(plan[r])

\* Mutant: a booking that needs no approval counts as confirmed.
NewStatusConfirmed == IF AutoConfirm THEN "CONFIRMED" ELSE "PENDING"

NewStatus == IF AutoConfirm THEN "ACCEPTED" ELSE "PENDING"

Goto(r, label) == pc' = [pc EXCEPT ![r] = label]

Planning == {"tryJoin", "checkHold", "setHold", "pick", "assign"}
InTx == {"lock", "find", "join", "create", "commit"}
Answered == {"booked", "rejected", "aborted"}

\* A transaction that ends drops its rows and its locks.
EndTx(r) ==
    /\ tx' = [tx EXCEPT ![r] = EmptyTx]
    /\ held' = [held EXCEPT ![r] = {}]

Reject(r) == Goto(r, "rejected") /\ EndTx(r)

-----------------------------------------------------------------------------
Init ==
    /\ events = {} /\ groups = {} /\ seats = {} /\ holds = {}
    /\ pc = [r \in Requests |-> "idle"]
    /\ input \in Jobs
    /\ seen = [r \in Requests |-> {}]
    /\ plan = [r \in Requests |-> <<>>]
    /\ tx = [r \in Requests |-> EmptyTx]
    /\ held = [r \in Requests |-> {}]
    /\ cancel = [k \in Cancels |-> [at |-> "idle"]]

SlotAt(attendee, user, start) ==
    [service |-> attendee.service, user |-> user, start |-> start,
     end |-> start + attendee.duration]

\* The slot of a booking's first service
SlotOf(b, user) == SlotAt(b.attendees[1], user, b.start)

\* A slot inside a free window of what the request read
FreeSlot(r, slot) ==
    /\ slot.end <= Horizon
    /\ \A s \in seen[r] : s.user = slot.user => ~Overlap(s, slot)

\* _buildAvailabilityContext reads the events that are not cancelled.
Post(r) ==
    /\ pc[r] = "idle"
    /\ seen' = [seen EXCEPT ![r] = {e.slot : e \in {f \in events : Live(f)}}]
    /\ Goto(r, IF IsMulti(r) THEN "assign"
               ELSE IF IsClass(First(r).service) THEN "tryJoin" ELSE "checkHold")
    /\ UNCHANGED <<tables, holds, input, plan, tx, held, cancel>>

\* The classes of the service that overlap the wanted slot; the one at
\* exactly that slot if there is one, else one of the nearest.
JoinTargets(r) ==
    LET want == SlotOf(input[r], "any")
        found == {e \in events : /\ Live(e)
                                 /\ e.slot.service = want.service
                                 /\ e.slot.user \in First(r).staff
                                 /\ Overlap(e.slot, want)}
        exact == {e \in found : e.slot.start = want.start /\ e.slot.end = want.end}
        Distance(e) == IF e.slot.start < want.start THEN want.start - e.slot.start
                                                    ELSE e.slot.start - want.start
    IN IF exact # {} THEN exact
       ELSE {e \in found : \A f \in found : Distance(e) <= Distance(f)}

HasSeatFor(r, e) ==
    /\ Cardinality(SeatsOf(seats, e.group)) < Capacity[e.slot.service]
    /\ \A p \in SeatsOf(seats, e.group) : p.client # Client(r)

\* _tryJoinExistingGroupAssignment
TryJoin(r) ==
    /\ pc[r] = "tryJoin"
    /\ \/ \E e \in JoinTargets(r) :
            /\ HasSeatFor(r, e)
            /\ plan' = [plan EXCEPT ![r] = <<SlotOf(input[r], e.slot.user)>>]
            /\ Goto(r, "lock")
       \/ /\ JoinTargets(r) = {} \/ \E e \in JoinTargets(r) : ~HasSeatFor(r, e)
          /\ Goto(r, "checkHold")
          /\ UNCHANGED plan
    /\ UNCHANGED <<tables, planning, tx, held, cancel>>

Available(r) == {u \in First(r).staff : FreeSlot(r, SlotOf(input[r], u))}

Hold(r) ==
    LET s == SlotOf(input[r], "any") IN <<s.service, s.start, s.end>>

\* chooseStaffWithRR, up to the GET of acquireHold
CheckHold(r) ==
    /\ pc[r] = "checkHold"
    /\ \/ /\ Available(r) = {} \/ Hold(r) \in holds
          /\ Reject(r)
       \/ /\ Available(r) # {} /\ Hold(r) \notin holds
          /\ Goto(r, "setHold")
          /\ UNCHANGED <<tx, held>>
    /\ UNCHANGED <<tables, planning, plan, cancel>>

\* The SET of acquireHold.  The hold is kept when the request ends.
SetHold(r) ==
    /\ pc[r] = "setHold"
    /\ holds' = holds \union {Hold(r)}
    /\ Goto(r, "pick")
    /\ UNCHANGED <<tables, input, seen, plan, tx, held, cancel>>

\* pickWeightedSmoothRR chooses among the professionals with a weight; with
\* none the hold is released.
Pick(r) ==
    /\ pc[r] = "pick"
    /\ \/ \E u \in Available(r) \intersect Weighted :
            /\ plan' = [plan EXCEPT ![r] = <<SlotOf(input[r], u)>>]
            /\ Goto(r, "lock")
            /\ UNCHANGED <<holds, tx, held>>
       \/ /\ Available(r) \intersect Weighted = {}
          /\ holds' = holds \ {Hold(r)}
          /\ Reject(r)
          /\ UNCHANGED plan
    /\ UNCHANGED <<tables, input, seen, cancel>>

Laid(wanted, user, start) ==
    [i \in 1..Len(wanted) |-> SlotAt(wanted[i], user[i], start[i])]

\* The services of the booking one after the other, each with a professional
\* who may do it
Chains(b) ==
    LET wanted == b.attendees
        n == Len(wanted)
    IN {p \in {Laid(wanted, user, start) :
                  user \in [1..n -> Users], start \in [1..n -> b.start..b.start + Horizon]} :
          \A i \in 1..n :
            /\ p[i].user \in wanted[i].staff
            /\ p[i].start = IF i = 1 THEN b.start ELSE p[i - 1].end}

Plans(r) == {p \in Chains(input[r]) : \A i \in DOMAIN p : FreeSlot(r, p[i])}

\* assignSequentially_SPECIAL, for more than one service: no hold.
Assign(r) ==
    /\ pc[r] = "assign"
    /\ \/ \E p \in Plans(r) :
            /\ plan' = [plan EXCEPT ![r] = p]
            /\ Goto(r, "lock")
            /\ UNCHANGED <<tx, held>>
       \/ /\ Plans(r) = {}
          /\ Reject(r)
          /\ UNCHANGED plan
    /\ UNCHANGED <<tables, planning, cancel>>

-----------------------------------------------------------------------------
\* Mutant: pg_try_advisory_xact_lock, its answer ignored.
LockTried(r) ==
    /\ pc[r] = "lock"
    /\ held' = [held EXCEPT ![r] = @ \union {Key(Segment(r))}]
    /\ Goto(r, "find")
    /\ UNCHANGED <<tables, planning, plan, tx, cancel>>

\* pg_advisory_xact_lock waits for the other transactions that hold the key.
Lock(r) ==
    /\ pc[r] = "lock"
    /\ \A s \in Requests \ {r} : Key(Segment(r)) \notin held[s]
    /\ held' = [held EXCEPT ![r] = @ \union {Key(Segment(r))}]
    /\ Goto(r, "find")
    /\ UNCHANGED <<tables, planning, plan, tx, cancel>>

\* The event at exactly this slot, whether or not its group is cancelled
Find(r) ==
    /\ pc[r] = "find"
    /\ \/ \E e \in EventsSeen(r) :
            /\ e.slot = Segment(r)
            /\ tx' = [tx EXCEPT ![r].found = [some |-> TRUE, event |-> e]]
            /\ Goto(r, "join")
       \/ /\ \A e \in EventsSeen(r) : e.slot # Segment(r)
          /\ Goto(r, "create")
          /\ UNCHANGED tx
    /\ UNCHANGED <<tables, planning, plan, held, cancel>>

\* The segment is done: on to the next, or to the end of the transaction.
Advance(r) ==
    /\ plan' = [plan EXCEPT ![r] = Tail(@)]
    /\ Goto(r, IF Len(plan[r]) = 1 THEN "commit" ELSE "lock")

\* The event read again for the answer, unless it was deleted meanwhile
CoreOf(r, e) ==
    IF \E f \in EventsSeen(r) : f.id = e.id
    THEN <<[id |-> e.id, group |-> e.group]>> ELSE <<>>

\* Mutant: count > capacity is refused.
HasRoomOffByOne(e, taken) ==
    IsClass(e.slot.service) /\ Cardinality(taken) <= Capacity[e.slot.service]

\* An individual event admits nobody else, whatever its seats.
HasRoom(e, taken) ==
    IsClass(e.slot.service) /\ Cardinality(taken) < Capacity[e.slot.service]

\* Mutant: a cancelled seat does not count, so that its client may return.
MineIfActive(r, taken) ==
    {p \in taken : p.client = Client(r) /\ p.status # CancelledByClient}

\* The client's seat, cancelled or not
Mine(r, taken) == {p \in taken : p.client = Client(r)}

\* The branch of an existing event: already in, no seat, or one seat more.
Join(r) ==
    /\ pc[r] = "join"
    /\ LET e == tx[r].found.event
           taken == SeatsOf(SeatsSeen(r), e.group)
           mine == Mine(r, taken)
           room == HasRoom(e, taken) /\ \E g \in GroupsSeen(r) : g.id = e.group
           seat == [id |-> r, group |-> e.group, client |-> Client(r),
                    status |-> NewStatus]
           Joined(rows) == [tx[r] EXCEPT !.seats = @ \union rows,
                                         !.core = @ \o CoreOf(r, e),
                                         !.found = [some |-> FALSE]]
       IN \/ /\ mine # {}
             /\ tx' = [tx EXCEPT ![r] = Joined({})]
             /\ Advance(r)
             /\ UNCHANGED held
          \/ /\ mine = {} /\ room
             /\ tx' = [tx EXCEPT ![r] = Joined({seat})]
             /\ Advance(r)
             /\ UNCHANGED held
          \/ /\ mine = {} /\ ~room
             /\ Reject(r)
             /\ UNCHANGED plan
    /\ UNCHANGED <<tables, planning, cancel>>

\* The branch without one: no overlap, then the group unless a segment before
\* made it, the client's seat and the event.
Create(r) ==
    /\ pc[r] = "create"
    /\ LET conflicts == {e \in EventsSeen(r) : /\ LiveIn(e, GroupsSeen(r))
                                               /\ e.slot.user = Segment(r).user
                                               /\ Overlap(e.slot, Segment(r))}
           e == [id |-> <<r, Len(plan[r])>>, slot |-> Segment(r), group |-> r]
       IN \/ /\ conflicts # {}
             /\ Reject(r)
             /\ UNCHANGED plan
          \/ /\ conflicts = {}
             /\ tx' = [tx EXCEPT
                  ![r].events = @ \union {e},
                  ![r].groups = @ \union {[id |-> r, status |-> NewStatus]},
                  ![r].seats = @ \union {[id |-> r, group |-> r,
                                          client |-> Client(r), status |-> NewStatus]},
                  ![r].core = Append(@, [id |-> e.id, group |-> r])]
             /\ Advance(r)
             /\ UNCHANGED held
    /\ UNCHANGED <<tables, planning, cancel>>

\* All core events of the booking, joined ones too, move to the group of
\* the first.
Regrouped(r) ==
    LET rows == EventsSeen(r)
        core == tx[r].core
    IN IF core = <<>> THEN rows
       ELSE {IF \E i \in DOMAIN core : core[i].id = e.id
             THEN [e EXCEPT !.group = core[1].group] ELSE e : e \in rows}

\* A group that a cancellation deleted cannot be referred to.
BrokenReference(r) ==
    \E e \in Regrouped(r) \ EventsSeen(r) : \A g \in GroupsSeen(r) : g.id # e.group

\* The end of createAssignmentsAndSyncGroupId
Commit(r) ==
    /\ pc[r] = "commit"
    /\ \/ /\ ~BrokenReference(r)
          /\ events' = Regrouped(r)
          /\ groups' = GroupsSeen(r)
          /\ seats' = SeatsSeen(r)
          /\ Goto(r, "booked")
          /\ EndTx(r)
       \/ /\ BrokenReference(r)
          /\ Reject(r)
          /\ UNCHANGED tables
    /\ UNCHANGED <<planning, plan, cancel>>

\* The transaction exceeds Prisma's time limit, or the connection breaks.
Abort(r) ==
    /\ pc[r] \in InTx
    /\ Goto(r, "aborted")
    /\ EndTx(r)
    /\ UNCHANGED <<tables, planning, plan, cancel>>

\* A hold lasts 60 s.
HoldExpires ==
    /\ \E h \in holds : holds' = holds \ {h}
    /\ UNCHANGED <<tables, pc, input, seen, plan, tx, held, cancel>>

RequestStep(r) ==
    \/ Post(r) \/ TryJoin(r) \/ CheckHold(r) \/ SetHold(r) \/ Pick(r) \/ Assign(r)
    \/ Lock(r) \/ Find(r) \/ Join(r) \/ Create(r) \/ Commit(r)

-----------------------------------------------------------------------------
CancelGoto(k, label) == cancel' = [cancel EXCEPT ![k].at = label]

\* cancelEventFromWeb reads the event, the group and its seats.
CancelRead(k) ==
    /\ cancel[k].at = "idle"
    /\ \E e \in events, p \in seats :
        /\ p.group = e.group
        /\ \/ /\ ~Live(e) \/ p.status = CancelledByClient
              /\ CancelGoto(k, "done")
           \/ /\ Live(e) /\ p.status # CancelledByClient
              /\ cancel' = [cancel EXCEPT ![k] =
                    [at |-> IF IsClass(e.slot.service) THEN "seat" ELSE "individual",
                     seat |-> p, known |-> SeatsOf(seats, e.group)]]
    /\ UNCHANGED <<tables, planning, pc, plan, tx, held>>

SameRow(p, q) == p.id = q.id /\ p.group = q.group

\* The seat's row, if it is still there, with the status of a cancellation
SeatCancelled(p) ==
    {IF SameRow(q, p) THEN [q EXCEPT !.status = CancelledByClient] ELSE q : q \in seats}

SeatExists(p) == \E q \in seats : SameRow(q, p)

GroupExists(id) == \E g \in groups : g.id = id

\* The cancellation of an individual booking is one transaction.
CancelIndividual(k) ==
    /\ cancel[k].at = "individual"
    /\ LET p == cancel[k].seat
       IN \/ /\ SeatExists(p) /\ GroupExists(p.group)
             /\ seats' = SeatCancelled(p)
             /\ groups' = {IF g.id = p.group THEN [g EXCEPT !.status = CancelledByClient]
                                             ELSE g : g \in groups}
          \/ /\ ~(SeatExists(p) /\ GroupExists(p.group))
             /\ UNCHANGED <<seats, groups>>
    /\ CancelGoto(k, "done")
    /\ UNCHANGED <<events, planning, pc, plan, tx, held>>

\* Mutant: only seats that wait for approval count as active.
WasLastApproved(k) ==
    \A q \in cancel[k].known : SameRow(q, cancel[k].seat) \/ q.status # "PENDING"

\* No other seat was active when the cancellation read the class.
WasLast(k) ==
    \A q \in cancel[k].known :
        SameRow(q, cancel[k].seat) \/ q.status = CancelledByClient

\* The seat in a class is cancelled; then, by what was read before, either
\* that is all, or the class has nobody left.
CancelSeat(k) ==
    /\ cancel[k].at = "seat"
    /\ seats' = SeatCancelled(cancel[k].seat)
    /\ CancelGoto(k, IF SeatExists(cancel[k].seat) /\ WasLast(k)
                     THEN "deleteEvents" ELSE "done")
    /\ UNCHANGED <<events, groups, planning, pc, plan, tx, held>>

DeleteEvents(k) ==
    /\ cancel[k].at = "deleteEvents"
    /\ events' = {e \in events : e.group # cancel[k].seat.group}
    /\ CancelGoto(k, "deleteSeats")
    /\ UNCHANGED <<groups, seats, planning, pc, plan, tx, held>>

DeleteSeats(k) ==
    /\ cancel[k].at = "deleteSeats"
    /\ seats' = seats \ SeatsOf(seats, cancel[k].seat.group)
    /\ CancelGoto(k, "deleteGroup")
    /\ UNCHANGED <<events, groups, planning, pc, plan, tx, held>>

\* The DELETE of the group waits for the transactions that refer to it, and
\* fails if a row does (ON DELETE RESTRICT).
DeleteGroup(k) ==
    /\ cancel[k].at = "deleteGroup"
    /\ LET id == cancel[k].seat.group
           referred == \/ SeatsOf(seats, id) # {}
                       \/ \E e \in events : e.group = id
       IN /\ \A r \in Requests : SeatsOf(tx[r].seats, id) = {}
          /\ groups' = IF referred THEN groups ELSE {g \in groups : g.id # id}
    /\ CancelGoto(k, "done")
    /\ UNCHANGED <<events, seats, planning, pc, plan, tx, held>>

CancelStep(k) ==
    \/ CancelRead(k) \/ CancelIndividual(k) \/ CancelSeat(k)
    \/ DeleteEvents(k) \/ DeleteSeats(k) \/ DeleteGroup(k)

Next ==
    \/ \E r \in Requests : RequestStep(r) \/ Abort(r)
    \/ \E k \in Cancels : CancelStep(k)
    \/ HoldExpires

Spec == Init /\ [][Next]_vars

\* A started request runs on, and PostgreSQL grants a free lock.
Fairness == \A r \in Requests : WF_vars(RequestStep(r))

FairSpec == Spec /\ Fairness

-----------------------------------------------------------------------------
CancelState ==
    [at : {"idle", "done"}]
      \union [at : {"seat", "individual", "deleteEvents", "deleteSeats",
                    "deleteGroup", "done"},
              seat : Seat, known : SUBSET Seat]

TypeOK ==
    /\ events \subseteq Event
    /\ groups \subseteq Group
    /\ seats \subseteq Seat
    /\ holds \subseteq Services \X Nat \X Nat
    /\ pc \in [Requests -> {"idle"} \union Planning \union InTx \union Answered]
    /\ input \in [Requests -> Bookings]
    /\ seen \in [Requests -> SUBSET Slot]
    /\ plan \in [Requests -> Seq(Slot)]
    /\ tx \in [Requests -> Tx]
    /\ held \in [Requests -> SUBSET (Users \X Services \X Nat)]
    /\ cancel \in [Cancels -> CancelState]

\* Two events never stand at the same slot, although the lookup and the
\* insertion are separate statements of transactions that do not see each
\* other's rows: "Lock por (pro+servicio+inicio)".
SlotOnce == \A e, f \in events : e.slot = f.slot => e = f

\* A client never holds two seats in one group.
SeatOnce ==
    \A p, q \in seats : p.group = q.group /\ p.client = q.client => p = q

\* "Evitar solape con otros eventos del pro", within what the advisory lock
\* protects: no booking puts a live event over another one of the same professional,
\* service and start, however long each is.  What may bring such an event about is
\* the regrouping: an event of a cancelled booking comes to life when its client,
\* who still has the seat, books its slot again as part of several services.
NoNewOverlap ==
    \A e \in events' \ events : \A f \in events' \ {e} :
        /\ LiveIn(e, groups') /\ LiveIn(f, groups')
        /\ Key(e.slot) = Key(f.slot) /\ Overlap(e.slot, f.slot)
        => \E d \in events \ events' : d.id \in {e.id, f.id}

\* No step of a booking or a cancellation makes such an overlap.
NoOverlapUnderOneLock == [][NoNewOverlap]_vars

\* A seat that another client's cancellation removes was itself cancelled,
\* or was taken after that cancellation had read the class: reading outside
\* a transaction is the only way to lose a seat.
SeatLossIsStaleRead ==
    [][\A p \in seats :
        (\A q \in seats' : ~SameRow(p, q)) =>
            \E k \in Cancels :
                /\ cancel[k].at = "deleteSeats" /\ cancel[k].seat.group = p.group
                /\ \A q \in cancel[k].known :
                    SameRow(p, q) => \/ SameRow(p, cancel[k].seat)
                                     \/ q.status = CancelledByClient]_vars

\* Every request is answered: the transactions never wait for each other's
\* locks in a circle, since each takes its keys in the order of time.
EventuallyAnswered == <>(\A r \in Requests : pc[r] \in Answered)
=============================================================================
