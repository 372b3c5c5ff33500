---------------------------- MODULE EventStatus ----------------------------
(***************************************************************************)
(* The life of one booking: its row in groupEvents, its event and the      *)
(* seats of its clients, under the requests that change their status.      *)
(*                                                                         *)
(* The platform changes the status of the booking by a table of            *)
(* transitions, edits it, clears it or deletes its event; clients confirm  *)
(* and cancel.  Each request reads first, without any lock, and writes     *)
(* later.  A transaction is a list of UPDATE and DELETE statements: each   *)
(* sees the rows committed so far and those of its own transaction, locks  *)
(* the rows it writes until the COMMIT, and waits for rows that another    *)
(* transaction has locked.  PostgreSQL ends a circle of waits by aborting  *)
(* one of its transactions.                                                *)
(***************************************************************************)
EXTENDS Integers, Sequences, FiniteSets

CONSTANTS
    Requests,  \* the requests of platform and clients, each handled once
    Clients,
    Scenes,    \* a booking, its clients, and what each request asks for
    Start,     \* the statuses the booking may be in at first
    Group,     \* the booking's row in groupEvents
    Event,     \* its event's row
    Initially, \* names the seats that are there at first
    NoStatus   \* an edit that leaves the status out

Cancelled == {"CANCELLED", "CANCELLED_BY_CLIENT", "CANCELLED_BY_CLIENT_REMOVED"}

Status == {"PENDING", "ACCEPTED", "CONFIRMED", "COMPLETED", "PAID", "NO_SHOW"}
            \union Cancelled

Job == [kind : {"change"}, status : Status]
         \union [kind : {"confirm", "cancel"}, client : Clients]
         \union [kind : {"edit"}, status : Status \union {NoStatus},
                 clients : SUBSET Clients]
         \union [kind : {"clear", "delete"}]

\* The rows: the booking, its event, and a seat per client and edit.
SeatId == (Requests \union {Initially}) \X Clients
RowId == {Group, Event} \union SeatId

ASSUME RequestsFinite == IsFiniteSet(Requests)

ASSUME StatusAssumption ==
    /\ Scenes \subseteq [several : BOOLEAN, clients : SUBSET Clients,
                         jobs : [Requests -> Job]]
    /\ Start \subseteq Status \ Cancelled
    /\ Initially \notin Requests
    /\ NoStatus \notin Status
    /\ Group # Event /\ {Group, Event} \intersect SeatId = {}

VARIABLES
    several, \* serviceMaxParticipantsSnapshot is above 1: a class
    rows,    \* the committed rows
    writes,  \* the rows each open transaction has written, and so locked
    job,     \* what each request asks for
    pc,      \* where it is: before its read, in its statements, or its answer
    todo,    \* the statements it still has to execute
    seen,    \* what it read
    cache,   \* actionResultCache: the web answers kept for 5 h
    raced    \* history: a status was written by a request that had read another

vars == <<several, rows, writes, job, pc, todo, seen, cache, raced>>

\* deletedDate is null, deletedDate is set, or no such row.  An event has no
\* status of its own: that field stays as it is.
Life == {"live", "deleted", "gone"}
Row == [status : Status, life : Life]

Active(row) == row.life = "live" /\ row.status \notin Cancelled

Web(r) == job[r].kind \in {"confirm", "cancel"}

Target(r) ==
    CASE job[r].kind = "confirm" -> "CONFIRMED"
      [] job[r].kind = "cancel"  -> "CANCELLED_BY_CLIENT"
      [] OTHER -> job[r].status

\* ALLOWED: what changeEventStatus may make of each status
Allowed(s) ==
    CASE s = "PENDING"   -> {"ACCEPTED", "CANCELLED", "CANCELLED_BY_CLIENT"}
      [] s = "ACCEPTED"  -> {"CONFIRMED", "CANCELLED", "CANCELLED_BY_CLIENT"}
      [] s = "CONFIRMED" -> {"COMPLETED", "CANCELLED", "CANCELLED_BY_CLIENT"}
      [] s = "COMPLETED" -> {"PAID", "CANCELLED"}
      [] s = "CANCELLED_BY_CLIENT" -> {"CANCELLED_BY_CLIENT_REMOVED"}
      [] OTHER -> {}

----------------------------------------------------------------------------
(* Statements *)

\* The rows of g, with those of f in their place
Over(f, g) ==
    [x \in DOMAIN f \union DOMAIN g |-> IF x \in DOMAIN f THEN f[x] ELSE g[x]]

\* One row and its new value
Only(x, row) == [y \in {x} |-> row]

\* What r's transaction sees: the committed rows under its own.
View(r) == Over(writes[r], rows)

SeatsIn(view, P(_)) == {x \in SeatId : P(view[x])}

\* Mutant: the participants of a cancelled booking keep their status.
NoCascade(view, status) ==
    [x \in SeatsIn(view, LAMBDA row : row.life # "gone" /\ row.status = "PENDING") |->
        [view[x] EXCEPT !.status = "ACCEPTED"]]

\* The participants that follow the booking: those not yet cancelled when it is
\* cancelled, those still pending when it is accepted.  Deleted rows follow too.
Cascade(view, status) ==
    LET there(row) == row.life # "gone"
        set(ids, s) == [x \in ids |-> [view[x] EXCEPT !.status = s]]
    IN  CASE status \in {"CANCELLED", "CANCELLED_BY_CLIENT_REMOVED"} ->
               set(SeatsIn(view, LAMBDA row : there(row) /\ row.status \notin Cancelled),
                   status)
          [] status \in {"CONFIRMED", "ACCEPTED"} ->
               set(SeatsIn(view, LAMBDA row : there(row) /\ row.status = "PENDING"),
                   "ACCEPTED")
          [] OTHER -> <<>>

SetLife(view, ids, life) == [x \in ids |-> [view[x] EXCEPT !.life = life]]

LiveSeats(view) == SeatsIn(view, LAMBDA row : row.life = "live")

\* _upsertParticipants: the old participants are soft-deleted, and a pending one
\* is created for each client, with an id of its own.
ReplaceSeats(r, view) ==
    Over([x \in {r} \X job[r].clients |-> [status |-> "PENDING", life |-> "live"]],
         SetLife(view, LiveSeats(view), "deleted"))

\* _ensureGroupEvents: the status, if given, is not checked against the table,
\* and deletedDate becomes null.
OpenGroup(r, view) ==
    Only(Group, [status |-> IF job[r].status = NoStatus THEN view[Group].status
                                                          ELSE job[r].status,
                 life   |-> "live"])

\* _upsertServices: the event keeps its deletedDate.
UpsertService(view) == Only(Event, view[Event])

\* The rows that the next statement of r writes, and their new values
Effect(r) ==
    LET view == View(r)
        live(x) == IF view[x].life = "live" THEN {x} ELSE {}
    IN  CASE Head(todo[r]) = "setGroup"  ->
               Only(Group, [view[Group] EXCEPT !.status = Target(r)])
          [] Head(todo[r]) = "setSeat"   ->
               Only(seen[r].seat, [view[seen[r].seat] EXCEPT !.status = Target(r)])
          [] Head(todo[r]) = "cascade"   -> Cascade(view, Target(r))
          [] Head(todo[r]) = "openGroup" -> OpenGroup(r, view)
          [] Head(todo[r]) = "setEvent"  -> UpsertService(view)
          [] Head(todo[r]) = "replaceSeats" -> ReplaceSeats(r, view)
          [] Head(todo[r]) = "dateEvent" -> SetLife(view, live(Event), "deleted")
          [] Head(todo[r]) = "dateSeats" -> SetLife(view, LiveSeats(view), "deleted")
          [] Head(todo[r]) = "dateGroup" -> SetLife(view, live(Group), "deleted")
          [] Head(todo[r]) = "dropEvent" -> SetLife(view, {Event}, "gone")
          [] Head(todo[r]) = "dropSeats" ->
               SetLife(view, SeatsIn(view, LAMBDA row : row.life # "gone"), "gone")
          [] Head(todo[r]) = "dropGroup" -> SetLife(view, {Group}, "gone")

\* An update by id needs its row, and the foreign keys of event and
\* participants protect the booking's row from a deletion.
Fails(r) ==
    LET view == View(r)
        s == Head(todo[r])
    IN  \/ s \in {"setGroup", "openGroup"} /\ view[Group].life = "gone"
        \/ s = "setEvent" /\ view[Event].life = "gone"
        \/ s = "setSeat" /\ view[seen[r].seat].life = "gone"
        \/ /\ s = "dropGroup"
           /\ \/ Web(r) /\ view[Group].life = "gone"
              \/ \E x \in RowId \ {Group} : view[x].life # "gone"

\* The requests whose locks r waits for
WaitsFor(r) ==
    IF pc[r] = "run" /\ todo[r] # <<>>
    THEN {s \in Requests \ {r} : DOMAIN writes[s] \intersect DOMAIN Effect(r) # {}}
    ELSE {}

\* The requests that each one waits for through at most i others, up to n
Reach(waits, n) ==
    LET reach[i \in 0..n] ==
            IF i = 0 THEN waits
            ELSE [r \in Requests |-> LET R == reach[i - 1][r]
                                     IN  R \union UNION {waits[s] : s \in R}]
    IN  reach

Waits == [r \in Requests |-> WaitsFor(r)]
Blocked == {r \in Requests : WaitsFor(r) # {}}

\* Circles of waits: the requests that wait for themselves through others
InCircle ==
    LET n == Cardinality(Blocked)
    IN  IF n < 2 THEN {} ELSE {r \in Blocked : r \in Reach(Waits, n)[n][r]}

\* Each statement of a web request about a class is a transaction of its own.
Autocommit(r) == several /\ Web(r)

----------------------------------------------------------------------------
(* Requests *)

Finish(r, answer) ==
    /\ pc' = [pc EXCEPT ![r] = answer]
    /\ todo' = [todo EXCEPT ![r] = <<>>]

Begin(r, statements, read) ==
    /\ pc' = [pc EXCEPT ![r] = "run"]
    /\ todo' = [todo EXCEPT ![r] = statements]
    /\ seen' = [seen EXCEPT ![r] = read]

\* Mutant: the participants are locked before the booking.
ChangeSeatsFirst(r) ==
    /\ pc[r] = "start" /\ job[r].kind = "change"
    /\ rows[Event].life # "gone"
    /\ Begin(r, <<"cascade", "setGroup">>,
             [group |-> rows[Group].status, seat |-> Initially, status |-> NoStatus])
    /\ UNCHANGED <<several, rows, writes, job, cache, raced>>

\* Mutant: the table is not consulted.
ChangeUnchecked(r) ==
    /\ pc[r] = "start" /\ job[r].kind = "change"
    /\ rows[Event].life # "gone"
    /\ Begin(r, <<"setGroup", "cascade">>,
             [group |-> rows[Group].status, seat |-> Initially, status |-> NoStatus])
    /\ UNCHANGED <<several, rows, writes, job, cache, raced>>

\* changeEventStatus: the event and its booking are read without a lock.
ChangeRead(r) ==
    /\ pc[r] = "start" /\ job[r].kind = "change"
    /\ \/ /\ rows[Event].life = "gone"
          /\ Finish(r, "error")
          /\ UNCHANGED seen
       \/ /\ rows[Event].life # "gone"
          /\ job[r].status \notin Allowed(rows[Group].status)
          /\ Finish(r, "refused")
          /\ UNCHANGED seen
       \/ /\ rows[Event].life # "gone"
          /\ job[r].status \in Allowed(rows[Group].status)
          /\ Begin(r, <<"setGroup", "cascade">>,
                   [group |-> rows[Group].status, seat |-> Initially,
                    status |-> NoStatus])
    /\ UNCHANGED <<several, rows, writes, job, cache, raced>>

Key(r) == <<job[r].kind, job[r].client>>

\* The answer is found in the cache.
WebCached(r) ==
    /\ pc[r] = "start" /\ Web(r) /\ Key(r) \in cache
    /\ Finish(r, "unchanged")
    /\ UNCHANGED <<several, rows, writes, job, seen, cache, raced>>

OwnSeats(r) == {x \in LiveSeats(rows) : x[2] = job[r].client}

WebMissing(r) ==
    /\ pc[r] = "start" /\ Web(r) /\ Key(r) \notin cache
    /\ rows[Event].life # "live" \/ OwnSeats(r) = {}
    /\ Finish(r, "error")
    /\ UNCHANGED <<several, rows, writes, job, seen, cache, raced>>

\* A booking that is not ACCEPTED is not confirmed, one that is cancelled not
\* cancelled; the answer is kept if there was nothing left to do.
Settled(r, status) ==
    IF job[r].kind = "confirm" THEN status # "ACCEPTED" ELSE status \in Cancelled

\* The seat of the client is settled.
SeatSettled(r, status) ==
    IF job[r].kind = "confirm" THEN status # "ACCEPTED"
                               ELSE status = "CANCELLED_BY_CLIENT"

WebSettled(r) ==
    /\ pc[r] = "start" /\ Web(r) /\ Key(r) \notin cache
    /\ rows[Event].life = "live"
    /\ \E x \in OwnSeats(r) :
         /\ \/ Settled(r, rows[Group].status)
            \/ SeatSettled(r, rows[x].status)
         /\ cache' = IF \/ job[r].kind = "cancel"
                        \/ rows[Group].status = "CONFIRMED"
                        \/ /\ rows[Group].status = "ACCEPTED"
                           /\ rows[x].status = "CONFIRMED"
                     THEN cache \union {Key(r)} ELSE cache
    /\ Finish(r, "unchanged")
    /\ UNCHANGED <<several, rows, writes, job, seen, raced>>

\* Nobody else was active in the class: its rows are to be deleted.
LastOne(x) ==
    \A y \in LiveSeats(rows) \ {x} : rows[y].status = "CANCELLED_BY_CLIENT"

\* The statements of a web request that goes ahead with seat x
WebStatements(r, x) ==
    CASE ~several -> <<"setSeat", "setGroup">>
      [] several /\ job[r].kind = "cancel" /\ LastOne(x) ->
           <<"setSeat", "dropEvent", "dropSeats", "dropGroup">>
      [] OTHER -> <<"setSeat">>

WebRead(r) ==
    /\ pc[r] = "start" /\ Web(r) /\ Key(r) \notin cache
    /\ rows[Event].life = "live"
    /\ ~Settled(r, rows[Group].status)
    /\ \E x \in OwnSeats(r) :
         /\ ~SeatSettled(r, rows[x].status)
         /\ Begin(r, WebStatements(r, x), [group |-> rows[Group].status,
                  seat |-> x, status |-> rows[x].status])
    /\ UNCHANGED <<several, rows, writes, job, cache, raced>>

\* upsertEvent with the booking's event as its service
Upsert(r) ==
    /\ pc[r] = "start" /\ job[r].kind = "edit"
    /\ Begin(r, <<"openGroup", "setEvent", "replaceSeats">>, seen[r])
    /\ UNCHANGED <<several, rows, writes, job, cache, raced>>

\* upsertEvent without services
Clear(r) ==
    /\ pc[r] = "start" /\ job[r].kind = "clear"
    /\ Begin(r, <<"dateEvent", "dateSeats", "dateGroup">>, seen[r])
    /\ UNCHANGED <<several, rows, writes, job, cache, raced>>

\* deleteEvent: the event's booking is looked up before the transaction.
DeleteEvent(r) ==
    /\ pc[r] = "start" /\ job[r].kind = "delete"
    /\ Begin(r, IF rows[Event].life = "gone" THEN <<>>
                ELSE <<"dropEvent", "dropSeats", "dropGroup">>, seen[r])
    /\ UNCHANGED <<several, rows, writes, job, cache, raced>>

\* What r relied on has changed since it read it.
Outdated(r) ==
    /\ job[r].kind = "change" \/ Web(r)
    /\ \/ View(r)[Group].status # seen[r].group
       \/ /\ Head(todo[r]) = "setSeat"
          /\ \/ View(r)[seen[r].seat].status # seen[r].status
             \/ View(r)[seen[r].seat].life # "live"

\* A statement, once no other transaction holds its rows
Execute(r) ==
    /\ pc[r] = "run" /\ todo[r] # <<>>
    /\ WaitsFor(r) = {}
    /\ ~Fails(r)
    /\ IF Autocommit(r)
       THEN rows' = Over(Effect(r), rows) /\ UNCHANGED writes
       ELSE writes' = [writes EXCEPT ![r] = Over(Effect(r), @)] /\ UNCHANGED rows
    /\ todo' = [todo EXCEPT ![r] = Tail(@)]
    /\ raced' = (raced \/ (Head(todo[r]) \in {"setGroup", "setSeat"} /\ Outdated(r)))
    /\ UNCHANGED <<several, job, pc, seen, cache>>

Rollback(r) ==
    /\ writes' = [writes EXCEPT ![r] = <<>>]
    /\ Finish(r, "error")
    /\ UNCHANGED <<several, rows, job, seen, cache, raced>>

\* A statement throws: the transaction, if there is one, is rolled back.
Throw(r) ==
    /\ pc[r] = "run" /\ todo[r] # <<>>
    /\ WaitsFor(r) = {}
    /\ Fails(r)
    /\ Rollback(r)

\* PostgreSQL's deadlock check: one transaction of a circle is aborted.
DeadlockDetected(r) ==
    /\ pc[r] = "run" /\ r \in InCircle
    /\ Rollback(r)

\* Mutant: the transaction is left open after its answer.
CommitNever(r) ==
    /\ pc[r] = "run" /\ todo[r] = <<>>
    /\ Finish(r, "changed")
    /\ UNCHANGED <<several, rows, writes, job, seen, cache, raced>>

\* COMMIT, and the answer, which the web keeps
Commit(r) ==
    /\ pc[r] = "run" /\ todo[r] = <<>>
    /\ rows' = View(r)
    /\ writes' = [writes EXCEPT ![r] = <<>>]
    /\ cache' = IF Web(r) THEN cache \union {Key(r)} ELSE cache
    /\ Finish(r, "changed")
    /\ UNCHANGED <<several, job, seen, raced>>

\* The 5 h of an answer end.
CacheExpires ==
    /\ \E key \in cache : cache' = cache \ {key}
    /\ UNCHANGED <<several, rows, writes, job, pc, todo, seen, raced>>

----------------------------------------------------------------------------
(* Specification *)

\* A booking as its creation and the platform's changes leave it
Init ==
    /\ \E scene \in Scenes, s \in Start :
         LET there == {Group, Event} \union ({Initially} \X scene.clients)
         IN  /\ several = scene.several
             /\ job = scene.jobs
             /\ rows = [x \in RowId |->
                         [status |-> IF s = "PENDING" \/ x = Group THEN s ELSE "ACCEPTED",
                          life |-> IF x \in there THEN "live" ELSE "gone"]]
    /\ writes = [r \in Requests |-> <<>>]
    /\ pc = [r \in Requests |-> "start"]
    /\ todo = [r \in Requests |-> <<>>]
    /\ seen = [r \in Requests |-> [group |-> NoStatus, seat |-> Initially,
                                   status |-> NoStatus]]
    /\ cache = {}
    /\ raced = FALSE

Step(r) ==
    \/ ChangeRead(r) \/ WebCached(r) \/ WebMissing(r) \/ WebSettled(r) \/ WebRead(r)
    \/ Upsert(r) \/ Clear(r) \/ DeleteEvent(r) \/ Execute(r) \/ Throw(r) \/ DeadlockDetected(r) \/ Commit(r)

Next == (\E r \in Requests : Step(r)) \/ CacheExpires

\* A request that was begun is gone on with, and PostgreSQL ends every deadlock.
Fairness == \A r \in Requests : WF_vars(Step(r))

Spec == Init /\ [][Next]_vars /\ Fairness

----------------------------------------------------------------------------
(* Properties *)

Answers == {"changed", "unchanged", "refused", "error"}
\* Nobody attends a booking that the platform has cancelled: its participants
\* were cancelled with it, in the same transaction.  What breaks it is a request
\* that writes a status it would have refused had it read again, and an edit,
\* which never looks at the status of what it edits.
CancelledHasNoActiveSeat ==
    /\ rows[Group].status \in {"CANCELLED", "CANCELLED_BY_CLIENT_REMOVED"}
    /\ ~raced
    => \A x \in {Initially} \X Clients : ~Active(rows[x])

\* Deadlocks need two orders of locking: changes and edits lock the booking
\* first, clients' confirmations and cancellations, clearings and deletions lock
\* it last.  No circle of waits is made of requests of one of the two kinds.
CirclesMixLockOrders ==
    LET groupFirst == {r \in Requests : job[r].kind \in {"change", "edit"}}
    IN  InCircle # {} => /\ InCircle \intersect groupFirst # {}
                         /\ InCircle \ groupFirst # {}

\* The status of a booking moves along ALLOWED, unless a request wrote what it
\* had decided on an older status, an edit set it, or a client cancelled it:
\* the table is checked on a row that nobody locks.
FollowsTable ==
    \/ rows'[Group].status = rows[Group].status
    \/ rows'[Group].status \in Allowed(rows[Group].status)
    \/ raced
    \/ \E r \in Requests :
         pc[r] = "run" /\ pc'[r] = "changed" /\ job[r].kind \in {"edit", "cancel"}

\* No request moves the status of a booking otherwise.
TableUnlessRaced == [][FollowsTable]_vars

\* Every request is answered: transactions that wait for each other in a circle
\* are aborted, and all others end.
EventuallyAnswered ==
    \A r \in Requests : <>(pc[r] \in Answers)
=============================================================================
