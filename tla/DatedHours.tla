----------------------------- MODULE DatedHours -----------------------------
(***************************************************************************)
(* Hours of a professional on one date (temporary hours) and absences: the *)
(* rows, the events that block the calendar for them, the groups of those  *)
(* events, and the Redis map of dates the availability code keeps for each *)
(* professional of a workspace.                                            *)
(*                                                                         *)
(* A row and its event are created together and never paired anew, so one  *)
(* id stands for both and for the event's group.  A transaction commits in *)
(* one step; what it read without a lock before is a step of its own.      *)
(* Every awaited call of a request may fail.                               *)
(*                                                                         *)
(* The consumer of the cascading deletion (module Deletion) also marks     *)
(* temporary hours as deleted, touches no key, and deletes the block       *)
(* events of deleted professionals: it is not in this model, so what is    *)
(* said here is said of the operations below alone.                        *)
(***************************************************************************)
EXTENDS Naturals, FiniteSets

CONSTANTS
    Requests,   \* requests that change rows, each used once
    Readers,    \* readers of the cached hours
    Places,     \* workspaces
    Users,      \* professionals
    Days,       \* dates
    Few,        \* missing dates that are read one by one
    Scenes,     \* where the behaviours start: [rows, absences, body]
    MaxFaults   \* bound: calls of PostgreSQL or Redis that fail

\* An update may change each field but the id.
Sound(b) ==
    /\ b.op \in {"add", "put", "drop", "away", "move", "back"}
    /\ b.op = "put" => DOMAIN b.patch \subseteq {"user", "place", "day", "hours"}

\* The tables the behaviours start from have one row of an id.
ASSUME DatedAssumption ==
    \A s \in Scenes :
        /\ s.body = [r \in Requests |-> s.body[r]]
        /\ \A r \in Requests : Sound(s.body[r])
        /\ \A x \in s.rows :
            DOMAIN x = {"id", "user", "place", "day", "hours"}
        /\ \A x \in s.absences : DOMAIN x = {"id", "user", "days"}
        /\ \A x, y \in s.rows : x.id = y.id => x = y
        /\ \A x \in s.rows, y \in s.absences : x.id # y.id
        /\ \A x \in s.rows \cup s.absences : x.id \notin Requests

Key == Places \X Users      \* a key of Redis
NoDays == [d \in {} |-> 0]  \* a map without dates
Empty == [map |-> NoDays, late |-> {}]

\* Spread: the fields of f, and those of g that f does not have.
Over(f, g) ==
    [x \in DOMAIN f \cup DOMAIN g |-> IF x \in DOMAIN f THEN f[x] ELSE g[x]]

VARIABLES
    rows,       \* temporary hours: [id, user, place, day, hours]
    absences,   \* [id, user, days]
    events,     \* [id, kind, user, place, days, hours], the place of the group
    groups,     \* ids of the groups
    cache,      \* what Redis holds under each key: [map, late]
    pc, body,   \* where each request stands, and what it asks (fixed)
    seen,       \* the rows a request has read
    cut,        \* the rows an absence's middleware deleted
    reader,     \* each reader: [pc, key, want, old, patch, late]
    faults,     \* failures so far
    met,        \* history: pairs of requests that were under way together
    touched     \* history: <<key, date>> a request changed, not deleted since

vars == <<rows, absences, events, groups, cache, pc, body, seen, cut, reader,
          faults, met, touched>>
calendar == <<absences, events, groups>>

Answered == {"ok", "failed", "broken"}
UnderWay(r) == pc[r] \notin {"idle"} \cup Answered

KeyOf(x) == <<x.place, x.user>>

\* What a reader may make of a date's rows, which come in any order: a closed
\* row empties what came before, an open row after it starts a new list.
DayViews(table, k, d) ==
    LET mine == {x \in table : KeyOf(x) = k /\ x.day = d}
        open == {x.hours.span : x \in {y \in mine : ~y.hours.closed}}
    IN  IF \A x \in mine : ~x.hours.closed
        THEN {[shut |-> FALSE, open |-> open]}
        ELSE {[shut |-> s = {}, open |-> s] : s \in SUBSET open}

Dated(table, k) == {x.day : x \in {y \in table : KeyOf(y) = k}}

Block(x) == [id |-> x.id, kind |-> "block", user |-> x.user, place |-> x.place,
             days |-> {x.day}, hours |-> x.hours]
Away(id, user, place, days) ==
    [id |-> id, kind |-> "absence", user |-> user, place |-> place,
     days |-> days, hours |-> [closed |-> TRUE, span |-> <<0, 0>>]]

Resting == [pc |-> "idle", key |-> <<>>, want |-> {}, old |-> NoDays,
            patch |-> NoDays, late |-> {}]

Init ==
    /\ \E s \in Scenes :
        /\ rows = s.rows /\ absences = s.absences /\ body = s.body
        /\ events = {Block(x) : x \in s.rows} \cup
               {Away(x.id, x.user, CHOOSE p \in Places : TRUE, x.days) : x \in s.absences}
        /\ groups = {x.id : x \in s.rows \cup s.absences}
    /\ cache = [k \in Key |-> Empty]
    /\ pc = [r \in Requests |-> "idle"]
    /\ seen = [r \in Requests |-> {}]
    /\ cut = [r \in Requests |-> {}]
    /\ reader = [d \in Readers |-> Resting]
    /\ faults = 0
    /\ met = {}
    /\ touched = [r \in Requests |-> {}]

-----------------------------------------------------------------------------
(* Helpers that describe what a step does. *)

Goto(r, label) == pc' = [pc EXCEPT ![r] = label]

Change(r, table) ==
    /\ rows' = table
    /\ touched' = [touched EXCEPT ![r] = @ \cup
           {<<KeyOf(x), x.day>> : x \in (rows \ table) \cup (table \ rows)}]

\* DEL of the keys.  What a reader holds of them was read before.
Delete(keys) ==
    /\ cache' = [k \in Key |-> IF k \in keys THEN Empty ELSE cache[k]]
    /\ reader' = [d \in Readers |->
           IF reader[d].pc # "idle" /\ reader[d].key \in keys
           THEN [reader[d] EXCEPT !.late = @ \cup DOMAIN reader[d].old
                                             \cup DOMAIN reader[d].patch]
           ELSE reader[d]]
    /\ touched' = [r \in Requests |-> {t \in touched[r] : t[1] \notin keys}]

-----------------------------------------------------------------------------
(* Temporary hours. *)

Start(r) ==
    /\ pc[r] = "idle"
    /\ Goto(r, body[r].op)
    /\ met' = met \cup {{r, s} : s \in {q \in Requests : UnderWay(q)}}
    /\ UNCHANGED <<rows, calendar, cache, body, faults, seen, cut, reader, touched>>

\* One transaction creates the group, the event and the row.
Add(r) ==
    /\ pc[r] = "add"
    /\ LET b == body[r]
           x == [id |-> r, user |-> b.user, place |-> b.place,
                 day |-> b.day, hours |-> b.hours]
       IN  /\ Change(r, rows \cup {x})
           /\ events' = events \cup {Block(x)}
           /\ groups' = groups \cup {r}
           /\ seen' = [seen EXCEPT ![r] = {x}]
    /\ Goto(r, "invalidate")
    /\ UNCHANGED <<absences, cache, body, faults, cut, reader, met>>

\* An update reads the row first ...
Read(r) ==
    /\ pc[r] = "put"
    /\ seen' = [seen EXCEPT ![r] = {x \in rows : x.id = body[r].id}]
    /\ Goto(r, IF seen'[r] = {} THEN "failed" ELSE "write")
    /\ UNCHANGED <<rows, calendar, cache, body, faults, cut, reader, met, touched>>

\* Mutant: the event is given the fields of the request only when they are hours.
EffectiveHours(x, b) ==
    [x EXCEPT !.hours = IF "hours" \in DOMAIN b.patch THEN b.patch.hours ELSE @]

\* The event's new fields: those of the request over those read.
Effective(x, b) == Over(b.patch, x)

\* ... and writes the event and its group from what it read, the row from the
\* request's fields alone.  Prisma throws when either is gone.
Write(r) ==
    /\ pc[r] = "write"
    /\ LET b == body[r]
           event == {e \in events : e.id = b.id}
           row == {x \in rows : x.id = b.id}
       IN  IF event = {} \/ row = {}
           THEN /\ Goto(r, "failed")
                /\ UNCHANGED <<rows, calendar, seen, touched>>
           ELSE LET new == {Over(b.patch, x) : x \in row}
                IN  /\ Change(r, (rows \ row) \cup new)
                    /\ events' = (events \ event) \cup
                         {[Block(Effective(x, b)) EXCEPT !.place = e.place] :
                             x \in seen[r], e \in event}
                    /\ seen' = [seen EXCEPT ![r] = new]
                    /\ Goto(r, "invalidate")
                    /\ UNCHANGED <<absences, groups>>
    /\ UNCHANGED <<cache, body, faults, cut, reader, met>>

\* Mutant: the key is deleted only when hours are added.
InvalidateAdded(r) ==
    /\ pc[r] = "invalidate"
    /\ Delete({KeyOf(x) : x \in {y \in seen[r] : body[r].op = "add"}})
    /\ Goto(r, "ok")
    /\ UNCHANGED <<rows, calendar, body, faults, seen, cut, met>>

\* The controller deletes the key of the row as it now is.
Invalidate(r) ==
    /\ pc[r] = "invalidate"
    /\ Delete({KeyOf(x) : x \in seen[r]})
    /\ Goto(r, "ok")
    /\ UNCHANGED <<rows, calendar, body, faults, seen, cut, met>>

\* A deletion takes every row of the professional, workspace and date with it.
Gather(r) ==
    /\ pc[r] = "drop"
    /\ LET base == {x \in rows : x.id = body[r].id /\ x.place = body[r].place}
       IN  seen' = [seen EXCEPT ![r] = {x \in rows :
               \E y \in base : KeyOf(x) = KeyOf(y) /\ x.day = y.day}]
    /\ Goto(r, "forget")
    /\ UNCHANGED <<rows, calendar, cache, body, faults, cut, reader, met, touched>>

\* The keys go first, the transaction comes after.
Forget(r) ==
    /\ pc[r] = "forget"
    /\ Delete({KeyOf(x) : x \in seen[r]})
    /\ Goto(r, "remove")
    /\ UNCHANGED <<rows, calendar, body, faults, seen, cut, met>>

\* deleteTemporaryBlockEvents: the events, then the groups left without one.
WithoutBlocks(ids) ==
    /\ events' = {e \in events : e.id \notin ids}
    /\ groups' = groups \ {e.id : e \in {x \in events : x.id \in ids}}

Remove(r) ==
    /\ pc[r] = "remove"
    /\ LET ids == {x.id : x \in seen[r]}
       IN  /\ Change(r, {x \in rows : x.id \notin ids})
           /\ WithoutBlocks(ids)
    /\ Goto(r, "ok")
    /\ UNCHANGED <<absences, cache, body, faults, seen, cut, reader, met>>

-----------------------------------------------------------------------------
(* Absences. *)

\* cleanExceptionDate: a raw DELETE of the professional's temporary hours of
\* those dates, in every workspace.
Clean(r) ==
    /\ pc[r] \in {"away", "move"}
    /\ LET hit == {x \in rows : x.user = body[r].user /\ x.day \in body[r].days}
       IN  /\ Change(r, rows \ hit)
           /\ cut' = [cut EXCEPT ![r] = hit]
    /\ Goto(r, IF pc[r] = "away" THEN "leave" ELSE "revise")
    /\ UNCHANGED <<calendar, cache, body, faults, seen, reader, met>>

Leave(r) ==
    /\ pc[r] = "leave"
    /\ LET b == body[r]
       IN  /\ absences' = absences \cup {[id |-> r, user |-> b.user, days |-> b.days]}
           /\ events' = events \cup {Away(r, b.user, b.place, b.days)}
           /\ groups' = groups \cup {r}
    /\ Goto(r, "ok")
    /\ UNCHANGED <<rows, cache, body, faults, seen, cut, reader, met, touched>>

\* The event keeps its professional, and its group its dates.
Revise(r) ==
    /\ pc[r] = "revise"
    /\ LET b == body[r]
           old == {x \in absences : x.id = b.id}
           event == {e \in events : e.id = b.id}
       IN  IF old = {} \/ event = {}
           THEN Goto(r, "failed") /\ UNCHANGED calendar
           ELSE /\ absences' = (absences \ old) \cup
                     {[x EXCEPT !.user = b.user, !.days = b.days] : x \in old}
                /\ events' = (events \ event) \cup
                     {[e EXCEPT !.days = b.days] : e \in event}
                /\ UNCHANGED groups
                /\ Goto(r, "ok")
    /\ UNCHANGED <<rows, cache, body, faults, seen, cut, reader, met, touched>>

\* The deletion of an absence leaves the group of its event behind.
Return(r) ==
    /\ pc[r] = "back"
    /\ absences' = {x \in absences : x.id # body[r].id}
    /\ events' = IF \E x \in absences : x.id = body[r].id
                 THEN {e \in events : e.id # body[r].id} ELSE events
    /\ Goto(r, "ok")
    /\ UNCHANGED <<rows, groups, cache, body, faults, seen, cut, reader, met, touched>>

\* The call a request waits for fails: nothing changes, and the catch blocks of
\* the controllers and of the middleware answer with an error.
Fails(r) ==
    /\ UnderWay(r) /\ faults < MaxFaults
    /\ faults' = faults + 1
    /\ Goto(r, "broken")
    /\ UNCHANGED <<rows, calendar, cache, body, seen, cut, reader, met, touched>>

-----------------------------------------------------------------------------
(* The readers, and the expiry of a key. *)

Get(d) ==
    /\ reader[d].pc = "idle"
    /\ \E k \in Key, want \in SUBSET Days \ {{}} :
        LET c == cache[k]
        IN  /\ ~(want \subseteq DOMAIN c.map)
            /\ reader' = [reader EXCEPT ![d] =
                   [Resting EXCEPT !.pc = "missed", !.key = k, !.want = want,
                        !.old = c.map, !.late = c.late]]
    /\ UNCHANGED <<rows, calendar, cache, pc, body, faults, seen, cut, met, touched>>

\* The dates missing are read, or the whole range again when they are not few;
\* without rows for them nothing is saved.
Fetch(d) ==
    /\ reader[d].pc = "missed"
    /\ LET k == reader[d].key
           want == reader[d].want
           missing == want \ DOMAIN reader[d].old
           new == (IF Cardinality(missing) <= Few THEN missing ELSE want)
                  \cap Dated(rows, k)
       IN  IF new = {}
           THEN reader' = [reader EXCEPT ![d] = Resting]
           ELSE \E patch \in [new -> UNION {DayViews(rows, k, x) : x \in new}] :
                    /\ \A x \in new : patch[x] \in DayViews(rows, k, x)
                    /\ reader' = [reader EXCEPT ![d].pc = "filling",
                                                ![d].patch = patch,
                                                ![d].late = @ \ new]
    /\ UNCHANGED <<rows, calendar, cache, pc, body, faults, seen, cut, met, touched>>

\* The whole map is saved, the dates found in Redis before with it.
Save(d) ==
    /\ reader[d].pc = "filling"
    /\ cache' = [cache EXCEPT ![reader[d].key] =
           [map |-> Over(reader[d].patch, reader[d].old), late |-> reader[d].late]]
    /\ reader' = [reader EXCEPT ![d] = Resting]
    /\ UNCHANGED <<rows, calendar, pc, body, faults, seen, cut, met, touched>>

Expire(k) ==
    /\ cache[k] # Empty
    /\ cache' = [cache EXCEPT ![k] = Empty]
    /\ UNCHANGED <<rows, calendar, pc, body, faults, seen, cut, reader, met, touched>>

Next ==
    \/ \E r \in Requests :
        \/ Start(r) \/ Add(r) \/ Read(r) \/ Write(r) \/ Invalidate(r)
        \/ Gather(r) \/ Forget(r) \/ Remove(r)
        \/ Clean(r) \/ Leave(r) \/ Revise(r) \/ Return(r)
        \/ Fails(r)
    \/ \E d \in Readers : Get(d) \/ Fetch(d) \/ Save(d)
    \/ \E k \in Key : Expire(k)

Spec == Init /\ [][Next]_vars

-----------------------------------------------------------------------------
(* Properties. *)

Stale(k, d) ==
    /\ d \in DOMAIN cache[k].map
    /\ cache[k].map[d] \notin DayViews(rows, k, d)

\* Changes no later deletion of the key announces: an absence that clears the
\* dates, a deletion, whose key went before its transaction, an update that takes
\* the row away from another professional or workspace, and a change whose request
\* answered with an error because Redis did not take the DEL.
Unannounced(r, k) ==
    \/ body[r].op \in {"away", "move", "drop"}
    \/ body[r].op = "put" /\ \A x \in seen[r] : KeyOf(x) # k
    \/ pc[r] = "broken"

\* Redis disagrees with the rows of a date only while the request that changed
\* them has yet to delete the key, because a reader saved what it had read (from
\* the rows or from Redis itself) before the key was deleted, or because the
\* change was one of those never announced.
StaleDaysAreExplained ==
    \A k \in Key, d \in Days : Stale(k, d) =>
        \/ d \in cache[k].late
        \/ \E r \in Requests : /\ <<k, d>> \in touched[r]
                               /\ UnderWay(r) \/ Unannounced(r, k)

Edits(id) == {r \in Requests : body[r].op = "put" /\ body[r].id = id}

\* The event of temporary hours blocks the calendar exactly where the hours say,
\* unless two updates of them overlapped (the event is written from what was
\* read before); its group stays in the workspace it was created in.  Of the
\* operations of this module only an absence leaves an event for hours that are
\* gone, or a group without an event: its middleware deletes the rows and not
\* their events, its deletion the event and not its group.
BlocksMatchHours ==
    /\ \A x \in rows : \E e \in events :
         /\ e.id = x.id
         /\ \/ [e EXCEPT !.place = x.place] = Block(x)
            \/ \E r, s \in Edits(x.id) : r # s /\ {r, s} \in met
         /\ \/ e.place = x.place
            \/ \E r \in Edits(x.id) : "place" \in DOMAIN body[r].patch
    /\ \A e \in events : e.kind = "block" =>
         \/ \E x \in rows : x.id = e.id
         \/ \E r \in Requests : \E x \in cut[r] : x.id = e.id
    /\ \A g \in groups :
         \/ \E e \in events : e.id = g
         \/ \E r \in Requests : body[r].op = "back" /\ body[r].id = g
=============================================================================
