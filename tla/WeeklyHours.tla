---------------------------- MODULE WeeklyHours ----------------------------
(***************************************************************************)
(* The weekly opening hours of a workspace and of its professionals, for   *)
(* one day of the week: the rows in PostgreSQL, the middleware every       *)
(* addition or update goes through (delete what the new hours replace,     *)
(* refuse what overlaps), the services that write, the generator other     *)
(* services call, and the Redis keys the availability code fills and the   *)
(* writers delete.                                                         *)
(*                                                                         *)
(* Nothing is locked and no transaction spans two of these steps, so each  *)
(* awaited call is an action, and each may fail.                           *)
(*                                                                         *)
(* The consumer of the cascading deletion (module Deletion) also marks     *)
(* these rows as deleted, and touches no key: it is not in this model, so  *)
(* what is said of the keys is said of the changes of these routes alone.  *)
(***************************************************************************)
EXTENDS Naturals, FiniteSets

CONSTANTS
    Requests,   \* requests that change the hours, each used once
    Readers,    \* readers of the cached hours
    Places,     \* workspaces
    Users,      \* professionals
    shop,       \* owner of the workspace's own hours
    before,     \* who wrote the rows of the initial tables
    none,       \* no workspace, nothing in Redis
    Scenes,     \* where the behaviours start: [table, body]
    MaxFaults   \* bound: calls of PostgreSQL or Redis that fail

\* A professional's rows of every workspace stand together.
SameOwner(x, y) == x.owner = y.owner /\ (x.owner = shop => x.place = y.place)

Clash(s, t) == s[1] < t[2] /\ t[1] < s[2]

Conflict(x, y) ==
    /\ x # y /\ SameOwner(x, y)
    /\ IF x.closed \/ y.closed THEN x.closed # y.closed
       ELSE Clash(x.span, y.span)

\* The front end sends one hour to add or to update, and ids of rows of the
\* owner it writes for; only a workspace's hours are generated.
Sound(b) ==
    /\ b.op \in {"add", "put", "drop", "generate"} /\ b.place \in Places
    /\ \A h \in b.hours : h.closed \in BOOLEAN
    /\ b.op \in {"add", "put"} => \E h \in b.hours : b.hours = {h}
    /\ b.op = "generate" => b.owner = shop

\* The tables the behaviours start from have no conflicts.
ASSUME WeeklyAssumption ==
    /\ none \notin Places
    /\ \A s \in Scenes :
        /\ \A x \in s.table : x.closed \in BOOLEAN /\ x.place \in Places
        /\ \A x, y \in s.table : ~Conflict(x, y)
        /\ s.body = [r \in Requests |-> s.body[r]]
        /\ \A r \in Requests :
            /\ Sound(s.body[r])
            /\ \A x \in s.table :
                x.id = s.body[r].id => SameOwner(x, s.body[r])
            /\ \A q \in Requests :
                s.body[r].id[1] = q \/ s.body[r].id = s.body[q].id
                    => SameOwner(s.body[q], s.body[r])

Owners == Users \cup {shop}
Key == Places \X Owners     \* a key of Redis: workspace and owner

VARIABLES
    rows,       \* the rows: [id, owner, place, closed, span, by]
    cache,      \* what Redis holds under each key
    pc, body,   \* where each request stands, and what it asks (fixed)
    found,      \* the workspace of the row findFirst returned
    purged,     \* the rows the middleware deleted for the request
    reader,     \* each reader: [pc, key, view, late]
    faults,     \* failures so far
    fell,       \* history: the call of each request that failed
    wrote,      \* history: the requests that have written their hours
    met,        \* history: pairs of requests that were under way together
    touched     \* history: keys whose rows a request changed, not deleted since

vars == <<rows, cache, pc, body, found, purged, reader, faults, fell, wrote, met, touched>>
request == <<body, met>>
failures == <<faults, fell>>

Answered == {"ok", "refused", "failed", "broken"}
UnderWay(r) == pc[r] \notin {"idle"} \cup Answered

KeyOf(x) == <<x.place, x.owner>>
Closed(b) == \E h \in b.hours : h.closed
Mixed(hours) == \E g, h \in hours : g.closed /\ ~h.closed

\* The rows a change is weighed against.
Standing(b) == {x \in rows : SameOwner(x, b)}

\* The rows the middleware deletes: all for a closed day, else the closed ones.
Replaced(b) == {x \in Standing(b) : Closed(b) \/ x.closed}

Overlapping(b) ==
    {x \in Standing(b) : /\ ~x.closed
                         /\ b.op = "put" => x.id # b.id
                         /\ \E h \in b.hours : Clash(x.span, h.span)}

\* What a reader may make of the rows, which come in any order.  The workspace
\* skips closed rows.  For a professional a closed row empties what came
\* before it, and an open row that follows starts a new list.
Views(k) ==
    LET mine == {x \in rows : KeyOf(x) = k}
        open == {x.span : x \in {y \in mine : ~y.closed}}
    IN  IF k[2] = shop \/ \A x \in mine : ~x.closed
        THEN {[shut |-> FALSE, open |-> open]}
        ELSE {[shut |-> s = {}, open |-> s] : s \in SUBSET open}

\* Mutant: the hours are saved without a time to live.
SavedForGood(d) ==
    [view |-> reader[d].view, late |-> reader[d].late, lasting |-> TRUE]

Saved(d) == [view |-> reader[d].view, late |-> reader[d].late, lasting |-> FALSE]

Resting == [pc |-> "idle", key |-> <<>>, view |-> <<>>, late |-> FALSE]

Init ==
    /\ \E s \in Scenes : rows = s.table /\ body = s.body
    /\ cache = [k \in Key |-> none]
    /\ pc = [r \in Requests |-> "idle"]
    /\ found = [r \in Requests |-> none]
    /\ purged = [r \in Requests |-> {}]
    /\ reader = [d \in Readers |-> Resting]
    /\ faults = 0
    /\ fell = [r \in Requests |-> none]
    /\ wrote = {}
    /\ met = {}
    /\ touched = [r \in Requests |-> {}]

-----------------------------------------------------------------------------
(* Helpers that describe what a step does. *)

Goto(r, label) == pc' = [pc EXCEPT ![r] = label]

\* The rows become table; the request answers for the keys of those it changed.
Change(r, table) ==
    /\ rows' = table
    /\ touched' = [touched EXCEPT ![r] = @ \cup
           {KeyOf(x) : x \in (rows \ table) \cup (table \ rows)}]

Untouched == UNCHANGED <<rows, touched>>

\* Mutant: the key is left alone.
DeleteNothing(k) == UNCHANGED <<cache, reader, touched>>

\* DEL of a key.  A reader with rows in hand has read them before.
Delete(k) ==
    /\ cache' = [cache EXCEPT ![k] = none]
    /\ reader' = [d \in Readers |->
           IF reader[d].pc = "filling" /\ reader[d].key = k
           THEN [reader[d] EXCEPT !.late = TRUE] ELSE reader[d]]
    /\ touched' = [r \in Requests |-> touched[r] \ {k}]

Row(r, id, h) ==
    [id |-> id, owner |-> body[r].owner, place |-> body[r].place,
     closed |-> h.closed, span |-> h.span, by |-> r]

-----------------------------------------------------------------------------
(* The middleware of the add and update routes. *)

\* A request names rows that it has seen: who creates one has written it.
Seen(id) ==
    \A q \in Requests : id[1] = q =>
        \/ pc[q] \in {"invalidate"} \cup Answered
        \/ pc[q] = "forget" /\ body[q].op = "generate"

Start(r) ==
    /\ pc[r] = "idle" /\ Seen(body[r].id)
    /\ LET b == body[r]
       IN  Goto(r, CASE b.op = "generate" -> "look"
                     [] b.op = "drop" /\ b.owner # shop -> "remove"
                     [] b.op \in {"add", "put"} /\ b.owner = shop -> "purge"
                     [] OTHER -> "find")
    /\ met' = met \cup {{r, s} : s \in {q \in Requests : UnderWay(q)}}
    /\ UNCHANGED <<body, found, purged, cache, reader, failures, wrote>> /\ Untouched

\* findFirst / findMany: the workspace whose key will be deleted.
Find(r) ==
    /\ pc[r] = "find"
    /\ LET b == body[r]
           hit == IF b.op = "drop" THEN {x \in rows : x.id = b.id}
                  ELSE Replaced(b)
       IN  /\ \E p \in IF hit = {} THEN {none} ELSE {x.place : x \in hit} :
                  found' = [found EXCEPT ![r] = p]
           /\ Goto(r, IF b.op = "drop" THEN "remove" ELSE "purge")
    /\ UNCHANGED <<request, purged, cache, reader, failures, wrote>> /\ Untouched

Purge(r) ==
    /\ pc[r] = "purge"
    /\ purged' = [purged EXCEPT ![r] = Replaced(body[r])]
    /\ Change(r, rows \ Replaced(body[r]))
    /\ Goto(r, IF found[r] = none THEN "check" ELSE "forget")
    /\ UNCHANGED <<request, found, cache, reader, failures, wrote>>

\* The key of the workspace found (drop and generate end here).
Forget(r) ==
    /\ pc[r] = "forget"
    /\ Delete(<<found[r], body[r].owner>>)
    /\ Goto(r, IF body[r].op \in {"add", "put"} THEN "check" ELSE "ok")
    /\ UNCHANGED <<request, rows, found, purged, failures, wrote>>

\* Mutant: an update is not checked against the other rows.
CheckAddOnly(r) ==
    /\ pc[r] = "check"
    /\ Goto(r, IF body[r].op = "add"
               THEN IF ~Closed(body[r]) /\ Overlapping(body[r]) # {}
                    THEN "refused" ELSE "create"
               ELSE IF body[r].owner = shop THEN "update" ELSE "count")
    /\ UNCHANGED <<request, found, purged, cache, reader, failures, wrote>> /\ Untouched

Check(r) ==
    /\ pc[r] = "check"
    /\ Goto(r, IF ~Closed(body[r]) /\ Overlapping(body[r]) # {} THEN "refused"
               ELSE IF body[r].op = "add" THEN "create"
               ELSE IF body[r].owner = shop THEN "update" ELSE "count")
    /\ UNCHANGED <<request, found, purged, cache, reader, failures, wrote>> /\ Untouched

-----------------------------------------------------------------------------
(* The services. *)

\* Mutant: an update never creates the row that its own request deleted.
CountNothing(r) ==
    /\ pc[r] = "count"
    /\ Goto(r, "update")
    /\ UNCHANGED <<request, found, purged, cache, reader, failures, wrote>> /\ Untouched

\* updateWorkerBusinessHour counts the professional's rows of the day.
Count(r) ==
    /\ pc[r] = "count"
    /\ Goto(r, IF \E x \in rows : x.owner = body[r].owner
               THEN "update" ELSE "create")
    /\ UNCHANGED <<request, found, purged, cache, reader, failures, wrote>> /\ Untouched

\* An added row gets a new id; one that an update restores keeps its own, and
\* fails when the id is taken.
Create(r) ==
    /\ pc[r] = "create"
    /\ LET id == IF body[r].op = "put" THEN body[r].id ELSE <<r, 0>>
       IN  IF body[r].op = "put" /\ \E x \in rows : x.id = id
           THEN Goto(r, "failed") /\ Untouched /\ UNCHANGED wrote
           ELSE /\ Change(r, rows \cup {Row(r, id, h) : h \in body[r].hours})
                /\ wrote' = wrote \cup {r}
                /\ Goto(r, "invalidate")
    /\ UNCHANGED <<request, found, purged, cache, reader, failures>>

\* prisma.update throws when the row is not there.
Update(r) ==
    /\ pc[r] = "update"
    /\ LET old == {x \in rows : x.id = body[r].id}
       IN  IF old = {}
           THEN Goto(r, "failed") /\ Untouched /\ UNCHANGED wrote
           ELSE /\ Change(r, (rows \ old) \cup
                             {Row(r, body[r].id, h) : h \in body[r].hours})
                /\ wrote' = wrote \cup {r}
                /\ Goto(r, "invalidate")
    /\ UNCHANGED <<request, found, purged, cache, reader, failures>>

\* The controller deletes the key of the row it got back, then answers.
Invalidate(r) ==
    /\ pc[r] = "invalidate"
    /\ Delete(<<body[r].place, body[r].owner>>)
    /\ Goto(r, "ok")
    /\ UNCHANGED <<request, rows, found, purged, failures, wrote>>

\* The delete route: a professional's hours leave their key as it is.
Remove(r) ==
    /\ pc[r] = "remove"
    /\ Change(r, {x \in rows : x.id # body[r].id})
    /\ Goto(r, IF found[r] = none THEN "ok" ELSE "forget")
    /\ UNCHANGED <<request, found, purged, cache, reader, failures, wrote>>

\* The generator: nothing is created for a workspace that has hours, a mix of
\* closed and open is an error, and the key is deleted in every other case.
Look(r) ==
    /\ pc[r] = "look"
    /\ found' = [found EXCEPT ![r] = body[r].place]
    /\ Goto(r, IF Standing(body[r]) # {} THEN "forget"
               ELSE IF Mixed(body[r].hours) THEN "failed" ELSE "insert")
    /\ UNCHANGED <<request, purged, cache, reader, failures, wrote>> /\ Untouched

Insert(r) ==
    /\ pc[r] = "insert"
    /\ Change(r, rows \cup {Row(r, <<r, h.span>>, h) : h \in body[r].hours})
    /\ wrote' = wrote \cup {r}
    /\ Goto(r, "forget")
    /\ UNCHANGED <<request, found, purged, cache, reader, failures>>

\* The call a request waits for fails: nothing changes, and the catch blocks of
\* the middleware and of the controllers answer with an error.  A closed day is
\* checked without a call.
Fails(r) ==
    /\ UnderWay(r) /\ (pc[r] = "check" => ~Closed(body[r]))
    /\ faults < MaxFaults
    /\ faults' = faults + 1
    /\ fell' = [fell EXCEPT ![r] = pc[r]]
    /\ Goto(r, "broken")
    /\ UNCHANGED <<request, found, purged, cache, reader, wrote>> /\ Untouched

-----------------------------------------------------------------------------
(* The readers, and the expiry of a key. *)

\* Bound: only hours that some request may change are read.
Watched ==
    {k \in Key : \E r \in Requests :
        k[2] = body[r].owner /\ (k[2] = shop => k[1] = body[r].place)}

Get(d) ==
    /\ reader[d].pc = "idle"
    /\ \E k \in Watched :
        /\ cache[k] = none
        /\ reader' = [reader EXCEPT ![d].pc = "missed", ![d].key = k]
    /\ UNCHANGED <<rows, cache, pc, request, found, purged, failures, wrote, touched>>

Fetch(d) ==
    /\ reader[d].pc = "missed"
    /\ \E v \in Views(reader[d].key) :
        reader' = [reader EXCEPT ![d].pc = "filling", ![d].view = v]
    /\ UNCHANGED <<rows, cache, pc, request, found, purged, failures, wrote, touched>>

Save(d) ==
    /\ reader[d].pc = "filling"
    /\ cache' = [cache EXCEPT ![reader[d].key] = Saved(d)]
    /\ reader' = [reader EXCEPT ![d] = Resting]
    /\ UNCHANGED <<rows, pc, request, found, purged, failures, wrote, touched>>

Expire(k) ==
    /\ cache[k] # none /\ ~cache[k].lasting
    /\ cache' = [cache EXCEPT ![k] = none]
    /\ UNCHANGED <<rows, pc, request, found, purged, reader, failures, wrote, touched>>

Step(r) ==
    \/ Find(r) \/ Purge(r) \/ Forget(r) \/ Check(r)
    \/ Count(r) \/ Create(r) \/ Update(r) \/ Invalidate(r)
    \/ Remove(r) \/ Look(r) \/ Insert(r)

Next ==
    \/ \E r \in Requests : Start(r) \/ Step(r) \/ Fails(r)
    \/ \E d \in Readers : Get(d) \/ Fetch(d) \/ Save(d)
    \/ \E k \in Key : Expire(k)

\* A request that has started runs on, a reader that has read saves, and a key
\* with a time to live is dropped in time; nothing makes a request or a read come.
Fairness ==
    /\ \A r \in Requests : WF_vars(Step(r))
    /\ \A d \in Readers : WF_vars(Fetch(d)) /\ WF_vars(Save(d))
    /\ \A k \in Key : WF_vars(Expire(k))

Spec == Init /\ [][Next]_vars /\ Fairness

-----------------------------------------------------------------------------
(* Properties. *)

Stale(k) == cache[k] # none /\ cache[k].view \notin Views(k)

\* Changes the code never announces: the deletion of a professional's hours,
\* rows deleted in or moved from another workspace, and an answer of error
\* after a change.
Unannounced(r, k) ==
    \/ body[r].op = "drop" /\ body[r].owner # shop
    \/ k # <<body[r].place, body[r].owner>>
    \/ pc[r] \in {"refused", "failed", "broken"}

\* Redis disagrees with the table only while the request that changed it has yet
\* to delete the key, because a reader saved rows it had read before a deletion
\* of the key (the race of filling a cache), or because of an unannounced change.
StaleHoursAreExplained ==
    \A k \in Key : Stale(k) =>
        \/ cache[k].late
        \/ \E r \in Requests : /\ k \in touched[r]
                               /\ UnderWay(r) \/ Unannounced(r, k)

\* Hours of one owner overlap, or lie on a day that is also closed, only when the
\* two requests that wrote them were under way together, or when the hours given
\* to one call of the generator overlap among themselves.
HoursAgreeUnlessRaced ==
    \A x, y \in rows : Conflict(x, y) =>
        \/ {x.by, y.by} \in met
        \/ x.by = y.by /\ ~x.closed /\ ~y.closed

\* A request that answers with an error has deleted rows and written none only if
\* its deletion of the key, its check, its count or its creation of the row
\* failed, another request came between its steps, one had come between the steps
\* of who wrote such a row, or it updates the workspace's own hours, where the
\* middleware deletes the very row the update then looks for.  A professional's
\* update that has deleted rows and was left alone never gets to the update of a
\* row.
FailureIsClean ==
    \A r \in Requests :
        pc[r] \in {"refused", "failed", "broken"} /\ purged[r] # {} /\ r \notin wrote =>
            \/ fell[r] \in {"forget", "check", "count", "create"}
            \/ body[r].op = "put" /\ body[r].owner = shop
            \/ \E s \in Requests : \/ {r, s} \in met
                                  \/ \E x \in purged[r] : {x.by, s} \in met

\* In the end Redis agrees with the table again.
StaleHoursPass == \A k \in Key : <>[]~Stale(k)
=============================================================================
