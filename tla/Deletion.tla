------------------------------- MODULE Deletion -------------------------------
(***************************************************************************)
(* The consumer of cascading soft deletions.                               *)
(*                                                                         *)
(* A message names a table and ids of another service's records.  The      *)
(* handler deletes what depends on them here, in one READ COMMITTED         *)
(* transaction for each chunk of ids; a message with too many ids is       *)
(* published again in parts.  A failure sends the whole message back with  *)
(* a delay, so the chunks that committed are handled again.                *)
(*                                                                         *)
(* The tables are constant sets of rows.  What changes is which rows are   *)
(* soft-deleted (deletedDate), removed (DELETE) or unlinked from their     *)
(* user; a transaction keeps its own changes until it commits, and each    *)
(* statement is an action.  An UPDATE waits for the transactions that      *)
(* changed its rows.  The in-flight lock and the processed mark are those  *)
(* of ServiceSync; here Redis is enabled and does not fail, and every body *)
(* is JSON (one that is not is in ServiceSync).                            *)
(***************************************************************************)
EXTENDS Integers, Sequences, FiniteSets, Bags

CONSTANTS
    Handlers,   \* deliveries handled at a time (prefetch)
    Groups,     \* rows of groupEvents, the bookings
    Events,     \* rows of events
    Seats,      \* rows of eventParticipants
    Hours,      \* rows of the four tables of working hours and absences
    Attr,       \* what each row refers to
    Other,      \* the events that are not appointments
    Joiners,    \* seats that clients may yet take in existing classes
    Sent,       \* bags: the messages that may be published together
    MaxRetries,
    MaxIds,     \* ids in a message
    Chunk,      \* ids in a transaction
    Budget      \* bounds lock expiries, ends of bookings and joins

Rows == Groups \union Events \union Seats \union Hours

\* The statements of the transaction that takes clients out of their bookings
Leaving == <<"affected", "leave", "emptied", "close", "closeEvents">>

\* The statements for companies and workspaces
Cascade == <<"hours", "groups", "events", "seats">>

\* The statements for each table.  byWorkspace, byWorkspaceHard and byUser
\* are the tables "userWorkspaces-...".
Script ==
    [companies |-> Cascade,
     workspaces |-> Cascade,
     clients |-> Leaving,
     clientWorkspaces |-> Leaving,
     users |-> <<"removeOther", "unlink", "hours">>,
     byWorkspace |-> <<"unlinkFuture", "removeHours">>,
     byWorkspaceHard |-> <<"removeFuture", "removeHours">>,
     byUser |-> <<"removeOtherThere", "removeHours">>,
     usersEventDeleteDefinitive |-> <<"removeEvents", "removeHours">>,
     calendarEvents |-> <<>>]

Tables == DOMAIN Script

\* The columns that the ids of a message, and its idRelation, are values of
IdColumn ==
    [companies |-> "company", workspaces |-> "workspace", clients |-> "client",
     clientWorkspaces |-> "clientWorkspace", users |-> "user",
     byWorkspace |-> "workspace", byWorkspaceHard |-> "workspace",
     byUser |-> "user", usersEventDeleteDefinitive |-> "user"]

RelationColumn ==
    [byWorkspace |-> "user", byWorkspaceHard |-> "user", byUser |-> "workspace"]

OfUsers == {"users", "usersEventDeleteDefinitive"} \union DOMAIN RelationColumn

IsBody(b) ==
    /\ b = [table |-> b.table, ids |-> b.ids, rel |-> b.rel]
    /\ b.ids \in Seq({b.ids[i] : i \in DOMAIN b.ids})

\* Events and participants have the company and the workspace of their booking.
ASSUME DeletionAssumption ==
    /\ DOMAIN Attr = Rows
    /\ Joiners \subseteq Seats /\ Other \subseteq Events
    /\ Groups \intersect (Events \union Seats \union Hours) = {}
    /\ Events \intersect (Seats \union Hours) = {} /\ Seats \intersect Hours = {}
    /\ \A x \in Events \union Seats :
        /\ Attr[x].group \in Groups
        /\ \A c \in {"company", "workspace"} : Attr[x][c] = Attr[Attr[x].group][c]
    /\ \A s \in Sent : IsABag(s) /\ \A b \in BagToSet(s) : IsBody(b)
    /\ Budget \in Nat
    /\ MaxRetries \in Nat /\ MaxIds \in Nat \ {0} /\ Chunk \in Nat \ {0}

VARIABLES
    sent,      \* the messages published, with their duplicates
    queue,     \* a bag of copies in the main queue
    delayed,   \* a bag of copies in the retry queue
    dead,      \* the copies dead-lettered
    locks,     \* bodies whose in-flight key exists
    processed, \* bodies whose processed key exists
    db,        \* the changes committed
    past,      \* the bookings whose end has passed
    pc,        \* where each handler is
    work,      \* the copy it handles
    now,       \* the bookings that had ended when it began
    batches,   \* what it has yet to publish or to delete, the first under way
    todo,      \* the statements its transaction has yet to run
    own,       \* the changes of its transaction
    found,     \* the bookings its transaction has read
    join,      \* where the client of each joining seat is
    raced,     \* history: bookings that lost seats to two open transactions, or
               \* one that its transaction had not read
    budget     \* how many of those steps are left

vars == <<sent, queue, delayed, dead, locks, processed, db, past, pc, work, now,
          batches, todo, own, found, join, raced, budget>>
broker == <<queue, delayed, dead>>
redis == <<locks, processed>>
local == <<now, batches, todo, own, found>>
world == <<sent, past, join, budget>>

Change == [deleted : SUBSET Rows, removed : SUBSET Rows, unlinked : SUBSET Rows]
NoChange == [deleted |-> {}, removed |-> {}, unlinked |-> {}]

Plus(c, d) == [k \in {"deleted", "removed", "unlinked"} |-> c[k] \union d[k]]

Changed(c) == c.deleted \union c.removed \union c.unlinked

Spend == budget > 0 /\ budget' = budget - 1

Label == {"idle", "check", "acquire", "start", "publish", "tx", "mark", "catch",
          "release"}

Goto(h, label) == pc' = [pc EXCEPT ![h] = label]

Ids(b) == {b.ids[i] : i \in DOMAIN b.ids}

\* Mutant: the last, incomplete chunk is forgotten.
ChunksFloor(s, n) ==
    [i \in 1..(Len(s) \div n) |-> SubSeq(s, (i - 1) * n + 1, i * n)]

\* chunkArray
Chunks(s, n) ==
    [i \in 1..((Len(s) + n - 1) \div n) |->
        SubSeq(s, (i - 1) * n + 1, IF i * n < Len(s) THEN i * n ELSE Len(s))]

\* isDeleteRecordsTable and validateIdsAreStrings
Valid(b) == b.table \in Tables /\ b.ids # <<>>

Absent == {s \in Joiners : join[s] # "in"}

GroupOf(x) == Attr[x].group

\* A row that is there and not soft-deleted
ActiveIn(x, view) == x \notin view.deleted \union view.removed \union Absent

EmptyIn(g, view) == \A s \in Seats : GroupOf(s) = g => ~ActiveIn(s, view)

\* The message names the row; an unlinked event names no user.
Names(b, x, view) ==
    /\ b.table \in DOMAIN IdColumn
    /\ Attr[x][IdColumn[b.table]] \in Ids(b)
    /\ b.table \in DOMAIN RelationColumn => Attr[x][RelationColumn[b.table]] = b.rel
    /\ b.table \in OfUsers => x \notin view.unlinked

\* The rows that a statement matches, given what it sees, which bookings
\* have ended, and the bookings that the transaction has read
Match(label, b, view, ended, groups) ==
    LET Named(S) == {x \in S : x \notin view.removed /\ Names(b, x, view)}
        Active(S) == {x \in S : ActiveIn(x, view)}
        Kept(S) == {x \in Active(S) : ActiveIn(GroupOf(x), view)}
        Future(S) == {x \in Kept(S) : GroupOf(x) \notin ended}
    IN CASE label = "hours" -> Active(Named(Hours))
         [] label = "groups" -> Active(Named(Groups))
         [] label = "events" -> Kept(Named(Events))
         [] label = "seats" -> Kept(Named(Seats))
         [] label \in {"affected", "leave"} -> Future(Named(Seats))
         [] label = "emptied" -> {g \in Active(groups) : g \notin ended /\ EmptyIn(g, view)}
         [] label = "close" -> Active(groups)
         [] label = "closeEvents" -> Active({e \in Events : GroupOf(e) \in groups})
         [] label = "removeOther" -> Active(Named(Events)) \intersect Other
         [] label = "removeOtherThere" -> Kept(Named(Events)) \intersect Other
         [] label \in {"unlinkFuture", "removeFuture"} -> Future(Named(Events))
         [] label \in {"unlink", "removeEvents"} -> Named(Events)
         [] label = "removeHours" -> Named(Hours)

Reads == {"affected", "emptied"}
Unlinks == {"unlink", "unlinkFuture"}
Removes == {"removeOther", "removeOtherThere", "removeFuture", "removeEvents", "removeHours"}

\* What a statement does to the rows that it matches
Effect(label, rows) ==
    [deleted |-> IF label \in Unlinks \union Removes THEN {} ELSE rows,
     removed |-> IF label \in Removes THEN rows ELSE {},
     unlinked |-> IF label \in Unlinks THEN rows ELSE {}]

Batch(h) == [work[h].body EXCEPT !.ids = Head(batches[h])]

\* Mutant: the reads run on prisma instead of tx.
MatchedOutsideTx(h) ==
    LET view == IF Head(todo[h]) \in Reads THEN db ELSE Plus(db, own[h])
    IN Match(Head(todo[h]), Batch(h), view, now[h], found[h])

\* The rows that the statement of h matches; it sees its own changes.
Matched(h) == Match(Head(todo[h]), Batch(h), Plus(db, own[h]), now[h], found[h])

NoCopy == [body |-> [table |-> "none", ids |-> <<>>, rel |-> "none"], retries |-> 0]

One(copy) == SetToBag({copy})

\* A handler drops what it has read, and its transaction.
Forget(h) ==
    /\ now' = [now EXCEPT ![h] = {}]
    /\ batches' = [batches EXCEPT ![h] = <<>>]
    /\ todo' = [todo EXCEPT ![h] = <<>>]
    /\ own' = [own EXCEPT ![h] = NoChange]
    /\ found' = [found EXCEPT ![h] = {}]

\* An ack or nack before the try block
Leave(h) == Goto(h, "idle") /\ work' = [work EXCEPT ![h] = NoCopy]

-----------------------------------------------------------------------------
Init ==
    /\ sent \in Sent
    /\ queue = [c \in {[body |-> b, retries |-> 0] : b \in BagToSet(sent)} |-> sent[c.body]]
    /\ delayed = EmptyBag
    /\ dead = {}
    /\ locks = {} /\ processed = {}
    /\ db = NoChange
    /\ past = {}
    /\ pc = [h \in Handlers |-> "idle"]
    /\ work = [h \in Handlers |-> NoCopy]
    /\ now = [h \in Handlers |-> {}]
    /\ batches = [h \in Handlers |-> <<>>]
    /\ todo = [h \in Handlers |-> <<>>]
    /\ own = [h \in Handlers |-> NoChange]
    /\ found = [h \in Handlers |-> {}]
    /\ join = [s \in Joiners |-> "out"]
    /\ raced = {}
    /\ budget = Budget

\* The broker delivers a copy; an invalid one is dead-lettered.
Deliver(h) ==
    /\ pc[h] = "idle"
    /\ \E c \in BagToSet(queue) :
        /\ queue' = queue (-) One(c)
        /\ \/ /\ ~Valid(c.body)
              /\ dead' = dead \union {c}
              /\ UNCHANGED <<pc, work>>
           \/ /\ Valid(c.body)
              /\ work' = [work EXCEPT ![h] = c]
              /\ Goto(h, "check")
              /\ UNCHANGED dead
    /\ UNCHANGED <<delayed, redis, db, local, world, raced>>

\* isMessageProcessed
Check(h) ==
    /\ pc[h] = "check"
    /\ \/ work[h].body \in processed /\ Leave(h)
       \/ work[h].body \notin processed /\ Goto(h, "acquire") /\ UNCHANGED work
    /\ UNCHANGED <<broker, redis, db, local, world, raced>>

\* acquireMessageLock
Acquire(h) ==
    /\ pc[h] = "acquire"
    /\ \/ /\ work[h].body \in locks
          /\ Leave(h)
          /\ UNCHANGED locks
       \/ /\ work[h].body \notin locks
          /\ locks' = locks \union {work[h].body}
          /\ Goto(h, "start")
          /\ UNCHANGED work
    /\ UNCHANGED <<broker, processed, db, local, world, raced>>

\* Too many ids are published again in parts; else each chunk is deleted.
Start(h) ==
    LET b == work[h].body IN
    /\ pc[h] = "start"
    /\ \/ /\ Len(b.ids) > MaxIds
          /\ batches' = [batches EXCEPT ![h] = Chunks(b.ids, MaxIds)]
          /\ Goto(h, "publish")
          /\ UNCHANGED <<now, todo>>
       \/ /\ Len(b.ids) <= MaxIds
          /\ now' = [now EXCEPT ![h] = past]
          /\ batches' = [batches EXCEPT ![h] = Chunks(b.ids, Chunk)]
          /\ todo' = [todo EXCEPT ![h] = Script[b.table]]
          /\ Goto(h, IF Script[b.table] = <<>> THEN "mark" ELSE "tx")
    /\ UNCHANGED <<broker, redis, db, world, work, own, found, raced>>

\* publishToExchange of one part, with the retry count of the whole
PublishPart(h) ==
    /\ pc[h] = "publish"
    /\ queue' = queue (+) One([work[h] EXCEPT !.body = Batch(h)])
    /\ batches' = [batches EXCEPT ![h] = Tail(@)]
    /\ Goto(h, IF Len(batches[h]) = 1 THEN "mark" ELSE "publish")
    /\ UNCHANGED <<delayed, dead, redis, db, world, work, now, todo, own, found, raced>>

InTx(h) == pc[h] = "tx" /\ todo[h] # <<>>

\* findMany: the bookings of the clients, then those now empty.  None ends
\* the transaction.
Read(h) ==
    LET rows == Matched(h)
        groups == IF Head(todo[h]) = "affected" THEN {GroupOf(s) : s \in rows} ELSE rows
    IN
    /\ InTx(h) /\ Head(todo[h]) \in Reads
    /\ found' = [found EXCEPT ![h] = groups]
    /\ todo' = [todo EXCEPT ![h] = IF groups = {} THEN <<>> ELSE Tail(@)]
    /\ UNCHANGED <<broker, redis, db, world, pc, work, now, batches, own, raced>>

\* Another transaction has changed a row that the statement matches.
Blocked(h) ==
    /\ InTx(h) /\ Head(todo[h]) \notin Reads
    /\ \E k \in Handlers \ {h} : Matched(h) \intersect Changed(own[k]) # {}

TakenBy(c) == {GroupOf(s) : s \in Seats \intersect c.deleted}

\* Mutant: the statements run on prisma instead of tx.
WriteOutsideTx(h) ==
    /\ InTx(h) /\ Head(todo[h]) \notin Reads
    /\ ~Blocked(h)
    /\ db' = Plus(db, Effect(Head(todo[h]), Matched(h)))
    /\ todo' = [todo EXCEPT ![h] = Tail(@)]
    /\ UNCHANGED <<broker, redis, world, pc, work, now, batches, own, found, raced>>

\* updateMany or deleteMany
Write(h) ==
    /\ InTx(h) /\ Head(todo[h]) \notin Reads
    /\ ~Blocked(h)
    /\ LET change == Effect(Head(todo[h]), Matched(h)) IN
        /\ own' = [own EXCEPT ![h] = Plus(@, change)]
        /\ raced' = raced \union {g \in TakenBy(change) :
                \/ Head(todo[h]) = "leave" /\ g \notin found[h]
                \/ \E k \in Handlers \ {h} : g \in TakenBy(own[k])}
    /\ todo' = [todo EXCEPT ![h] = Tail(@)]
    /\ UNCHANGED <<broker, redis, db, world, pc, work, now, batches, found>>

\* The chunk's transaction commits, and the next begins.
Commit(h) ==
    /\ pc[h] = "tx" /\ todo[h] = <<>>
    /\ db' = Plus(db, own[h])
    /\ own' = [own EXCEPT ![h] = NoChange]
    /\ found' = [found EXCEPT ![h] = {}]
    /\ batches' = [batches EXCEPT ![h] = Tail(@)]
    /\ \/ /\ Len(batches[h]) > 1
          /\ todo' = [todo EXCEPT ![h] = Script[work[h].body.table]]
          /\ UNCHANGED pc
       \/ /\ Len(batches[h]) = 1
          /\ Goto(h, "mark")
          /\ UNCHANGED todo
    /\ UNCHANGED <<broker, redis, world, work, now, raced>>

\* markMessageProcessed and ack
Mark(h) ==
    /\ pc[h] = "mark"
    /\ processed' = processed \union {work[h].body}
    /\ Goto(h, "release")
    /\ Forget(h)
    /\ UNCHANGED <<broker, locks, db, world, work, raced>>

\* A publication or a transaction fails: roll back, and enter the catch block.
Fail(h) ==
    /\ pc[h] \in {"publish", "tx"}
    /\ Goto(h, "catch")
    /\ Forget(h)
    /\ UNCHANGED <<broker, redis, db, world, work, raced>>

\* A blocked transaction ends at the deadlock check or at Prisma's timeout.
TimeOut(h) == Blocked(h) /\ Fail(h)

\* Mutant: the retry keeps its count.
CatchForever(h) ==
    /\ pc[h] = "catch"
    /\ delayed' = delayed (+) One(work[h])
    /\ Goto(h, "release")
    /\ UNCHANGED <<queue, dead, redis, db, world, work, local, raced>>

\* The copy goes to the retry queue, or to the dead letters when it has been
\* retried enough or cannot be published.
Catch(h) ==
    /\ pc[h] = "catch"
    /\ \/ /\ dead' = dead \union {work[h]}
          /\ UNCHANGED delayed
       \/ /\ work[h].retries < MaxRetries
          /\ delayed' = delayed (+) One([work[h] EXCEPT !.retries = @ + 1])
          /\ UNCHANGED dead
    /\ Goto(h, "release")
    /\ UNCHANGED <<queue, redis, db, world, work, local, raced>>

\* finally: releaseMessageLock, whoever set it
Release(h) ==
    /\ pc[h] = "release"
    /\ locks' = locks \ {work[h].body}
    /\ Leave(h)
    /\ UNCHANGED <<broker, processed, db, world, local, raced>>

Handle(h) ==
    \/ Check(h) \/ Acquire(h) \/ Start(h) \/ PublishPart(h)
    \/ Read(h) \/ Write(h) \/ Commit(h) \/ Mark(h) \/ Catch(h) \/ Release(h)

-----------------------------------------------------------------------------
\* The delay of the retry queue ends, long after the handler's finally.
DelayEnds ==
    /\ \E c \in BagToSet(delayed) :
        /\ \A h \in Handlers : ~(pc[h] = "release" /\ work[h].body = c.body)
        /\ delayed' = delayed (-) One(c)
        /\ queue' = queue (+) One(c)
    /\ UNCHANGED <<dead, redis, db, world, pc, work, local, raced>>

\* The lock outlives its TTL under a slow handler.
LockExpires ==
    /\ \E b \in locks : locks' = locks \ {b}
    /\ Spend
    /\ UNCHANGED <<broker, processed, db, sent, past, join, pc, work, local, raced>>

\* A booking's end passes.
GroupEnds ==
    /\ \E g \in Groups \ past : past' = past \union {g}
    /\ Spend
    /\ UNCHANGED <<sent, broker, redis, db, join, pc, work, local, raced>>

\* A client plans to join a class that is on.
PlanJoin(s) ==
    /\ join[s] = "out"
    /\ ActiveIn(GroupOf(s), db) /\ GroupOf(s) \notin past
    /\ join' = [join EXCEPT ![s] = "planned"]
    /\ Spend
    /\ UNCHANGED <<sent, broker, redis, db, past, pc, work, local, raced>>

\* createOrJoinGroupEvent finds the event, deleted or not, and adds the seat.
Join(s) ==
    /\ join[s] = "planned"
    /\ \E e \in Events : GroupOf(e) = GroupOf(s) /\ e \notin db.removed
    /\ join' = [join EXCEPT ![s] = "in"]
    /\ UNCHANGED <<sent, broker, redis, db, past, budget, pc, work, local, raced>>

Next ==
    \/ \E h \in Handlers : Deliver(h) \/ Handle(h) \/ Fail(h)
    \/ DelayEnds
    \/ LockExpires
    \/ GroupEnds
    \/ \E s \in Joiners : PlanJoin(s) \/ Join(s)

\* The broker delivers and ends delays, a handler goes on, and a blocked
\* transaction is ended.
Fairness ==
    /\ WF_vars(DelayEnds)
    /\ \A h \in Handlers :
        WF_vars(Deliver(h)) /\ WF_vars(Handle(h)) /\ WF_vars(TimeOut(h))

Spec == Init /\ [][Next]_vars /\ Fairness

-----------------------------------------------------------------------------
\* The copies that somebody will still handle, or that are recorded as dead
Pending ==
    BagToSet(queue) \union BagToSet(delayed) \union dead
        \union {work[h] : h \in {k \in Handlers : pc[k] \notin {"idle", "release"}}}

\* What a deletion of one id would still change
Remaining(b) ==
    UNION {Match(label, b, db, past, {}) :
             label \in {Script[b.table][i] : i \in DOMAIN Script[b.table]} \ Reads}

\* No id of a message is forgotten, however the message is split, retried,
\* delivered twice or taken for a duplicate in flight: the deletion still
\* pends, is dead-lettered, or would find nothing to do, but for clients who
\* have joined a class meanwhile.
NoIdLost ==
    \A b \in {c \in BagToSet(sent) : Valid(c)} : \A i \in DOMAIN b.ids :
        \/ \E c \in Pending :
              /\ c.body.table = b.table /\ c.body.rel = b.rel
              /\ b.ids[i] \in Ids(c.body)
        \/ Remaining([b EXCEPT !.ids = <<b.ids[i]>>]) \subseteq Joiners

\* A booking emptied of its clients goes with its events or not at all,
\* although the chunks of a message fail one by one.
DeletedTogether ==
    \A g \in Groups \intersect db.deleted :
        \/ \E b \in BagToSet(sent) : b.table \in {"companies", "workspaces"} /\ Names(b, g, db)
        \/ \A e \in Events : GroupOf(e) = g => e \in db.deleted \union db.removed

\* A booking all of whose clients were deleted is deleted, unless two open
\* transactions each took a seat and neither saw the other's, or one took the
\* seat of a client who joined after it had read which bookings it affects.
StrandedOnlyByRace ==
    \A g \in Groups \ db.deleted :
        EmptyIn(g, db) /\ (\E s \in db.deleted \intersect Seats : GroupOf(s) = g)
            => g \in raced

\* Every message is eventually handled or dead-lettered, although
\* transactions fail, wait for one another and are retried.
EventuallyDrained ==
    <>[](queue = EmptyBag /\ delayed = EmptyBag /\ \A h \in Handlers : pc[h] = "idle")
=============================================================================
