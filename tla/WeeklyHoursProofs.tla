------------------------- MODULE WeeklyHoursProofs -------------------------
(***************************************************************************)
(* Proofs about the weekly hours, for any number of requests, readers,     *)
(* workspaces and professionals, and any tables without conflicts.         *)
(***************************************************************************)
EXTENDS WeeklyHours, TLAPS

USE WeeklyAssumption

IsFunction(f, S) == f = [x \in S |-> f[x]]

Label == {"idle", "find", "purge", "forget", "check", "count", "create", "update",
          "invalidate", "remove", "look", "insert"} \cup Answered

TypeInv ==
    /\ \A x \in rows : x.closed \in BOOLEAN /\ x.place \in Places
    /\ IsFunction(cache, Key)
    /\ pc \in [Requests -> Label]
    /\ IsFunction(body, Requests)
    /\ IsFunction(found, Requests)
    /\ IsFunction(purged, Requests)
    /\ IsFunction(touched, Requests)
    /\ IsFunction(fell, Requests)
    /\ IsFunction(reader, Readers)
    /\ met \subseteq SUBSET Requests

\* What the bodies are, and that the rows they name are of their own owners.
BodyInv ==
    \A r \in Requests :
        /\ Sound(body[r])
        /\ \A q \in Requests :
            body[r].id[1] = q \/ body[r].id = body[q].id
                => SameOwner(body[q], body[r])

\* A step of a request, and a step that leaves the requests and the rows alone.
RequestStep(r) == Start(r) \/ Step(r) \/ Fails(r)

ReaderStep ==
    \/ \E d \in Readers : Get(d) \/ Fetch(d) \/ Save(d)
    \/ \E k \in Key : Expire(k)
    \/ UNCHANGED vars

LEMMA Steps ==
    ASSUME [Next]_vars
    PROVE  ReaderStep \/ \E r \in Requests : RequestStep(r)
BY DEF Next, ReaderStep, RequestStep

LEMMA ReadersAlone ==
    ASSUME ReaderStep
    PROVE  UNCHANGED <<rows, pc, request, found, purged, touched, fell, wrote>>
BY DEF ReaderStep, Get, Fetch, Save, Expire, vars, request, failures

\* What a step of a request changes of the requests: its own state only.
LEMMA OwnState ==
    ASSUME TypeInv, NEW r \in Requests, RequestStep(r)
    PROVE  /\ body' = body
           /\ pc' \in [Requests -> Label]
           /\ IsFunction(found', Requests)
           /\ IsFunction(purged', Requests)
           /\ \A q \in Requests \ {r} : /\ pc'[q] = pc[q]
                                        /\ found'[q] = found[q]
                                        /\ purged'[q] = purged[q]
                                        /\ fell'[q] = fell[q]
           /\ IsFunction(fell', Requests) /\ wrote \subseteq wrote'
           /\ met \subseteq met' /\ met' \subseteq SUBSET Requests
<1>0. /\ \A q \in Requests \ {r} : fell'[q] = fell[q]
      /\ IsFunction(fell', Requests) /\ wrote \subseteq wrote'
  BY DEF RequestStep, Step, Start, Find, Purge, Forget, Check, Count, Create, Update,
     Invalidate, Remove, Look, Insert, Fails, failures, TypeInv, IsFunction
<1>1. CASE Start(r)
  <2>1. met' = met \cup {{r, s} : s \in {q \in Requests : UnderWay(q)}}
    BY <1>1 DEF Start
  <2>2. met \subseteq met' /\ met' \subseteq SUBSET Requests
    BY <2>1 DEF TypeInv
  <2>3. pc' \in [Requests -> Label] /\ \A q \in Requests \ {r} : pc'[q] = pc[q]
    BY <1>1 DEF Start, Goto, TypeInv, Label
  <2> QED
    BY <1>0, <1>1, <2>2, <2>3 DEF Start, TypeInv
<1>2. CASE Find(r)
  BY <1>0, <1>2 DEF Find, Goto, TypeInv, IsFunction, Label, Answered, request
<1>3. CASE Purge(r)
  BY <1>0, <1>3 DEF Purge, Goto, TypeInv, IsFunction, Label, Answered, request
<1>4. CASE Look(r)
  BY <1>0, <1>4 DEF Look, Goto, TypeInv, IsFunction, Label, Answered, request
<1>5. CASE Forget(r) \/ Check(r) \/ Count(r) \/ Create(r) \/ Update(r)
           \/ Invalidate(r) \/ Remove(r) \/ Insert(r) \/ Fails(r)
  BY <1>0, <1>5 DEF Forget, Check, Count, Create, Update, Invalidate, Remove, Insert,
     Fails, Goto, TypeInv, Label, Answered, request
<1> QED
  BY <1>0, <1>1, <1>2, <1>3, <1>4, <1>5 DEF RequestStep, Step
\* A row that a request writes: of its own owner and place, with the id it was
\* given or one that starts with its name.
WrittenBy(r, x) ==
    \E h \in body[r].hours : \E id \in {body[r].id, <<r, 0>>, <<r, h.span>>} :
        x = Row(r, id, h)

Writes(r) == pc[r] \in {"create", "update", "insert"}

\* Which steps change rows: only a request that is under way does, new rows are its
\* own, and it remembers the keys of what it changed.
LEMMA RowsChange ==
    ASSUME TypeInv, NEW r \in Requests, RequestStep(r)
    PROVE  /\ \A x \in rows' \ rows : WrittenBy(r, x) /\ Writes(r)
           /\ rows' # rows => UnderWay(r)
           /\ \A x \in (rows \ rows') \cup (rows' \ rows) : KeyOf(x) \in touched'[r]
<1>1. CASE Start(r) \/ Find(r) \/ Forget(r) \/ Check(r) \/ Count(r) \/ Invalidate(r)
           \/ Look(r) \/ Fails(r)
  BY <1>1 DEF Start, Find, Forget, Check, Count, Invalidate, Look, Fails, Untouched
<1>2. ASSUME NEW table, Change(r, table)
      PROVE  /\ rows' = table
             /\ \A x \in (rows \ rows') \cup (rows' \ rows) : KeyOf(x) \in touched'[r]
  BY <1>2 DEF Change, TypeInv, IsFunction
<1>3. CASE Purge(r) \/ Remove(r)
  BY <1>2, <1>3 DEF Purge, Remove, UnderWay, Answered
<1>4. CASE Create(r)
  <2>1. CASE Untouched
    BY <2>1, <1>4 DEF Untouched
  <2>2. CASE ~Untouched
    <3>1. PICK id \in {body[r].id, <<r, 0>>} :
              Change(r, rows \cup {Row(r, id, h) : h \in body[r].hours})
      BY <1>4, <2>2 DEF Create
    <3>2. \A x \in rows' \ rows : WrittenBy(r, x)
      BY <1>2, <3>1 DEF WrittenBy
    <3> QED
      BY <1>2, <1>4, <3>1, <3>2 DEF Create, Writes, UnderWay, Answered
  <2> QED
    BY <2>1, <2>2
<1>5. CASE Update(r)
  <2>1. CASE Untouched
    BY <2>1, <1>5 DEF Untouched
  <2>2. CASE ~Untouched
    <3> DEFINE old == {x \in rows : x.id = body[r].id}
    <3>1. Change(r, (rows \ old) \cup {Row(r, body[r].id, h) : h \in body[r].hours})
      BY <1>5, <2>2 DEF Update
    <3>2. \A x \in rows' \ rows : WrittenBy(r, x)
      BY <1>2, <3>1 DEF WrittenBy
    <3> QED
      BY <1>2, <1>5, <3>1, <3>2 DEF Update, Writes, UnderWay, Answered
  <2> QED
    BY <2>1, <2>2
<1>6. CASE Insert(r)
  <2>1. Change(r, rows \cup {Row(r, <<r, h.span>>, h) : h \in body[r].hours})
    BY <1>6 DEF Insert
  <2>2. \A x \in rows' \ rows : WrittenBy(r, x)
    BY <1>2, <2>1 DEF WrittenBy
  <2> QED
    BY <1>2, <1>6, <2>1, <2>2 DEF Insert, Writes, UnderWay, Answered
<1> QED
  BY <1>1, <1>3, <1>4, <1>5, <1>6 DEF RequestStep, Step

\* What is known of a row that a request writes.
LEMMA Written ==
    ASSUME BodyInv, NEW r \in Requests, NEW x, WrittenBy(r, x)
    PROVE  /\ x.by = r /\ SameOwner(x, body[r]) /\ KeyOf(x) = <<body[r].place, body[r].owner>>
           /\ x.closed \in BOOLEAN /\ x.place \in Places
           /\ \E h \in body[r].hours : x.closed = h.closed /\ x.span = h.span
           /\ x.id = body[r].id \/ x.id[1] = r
BY DEF WrittenBy, Row, BodyInv, Sound, SameOwner, KeyOf

LEMMA TypeInit == Init => TypeInv /\ BodyInv
<1> SUFFICES ASSUME Init PROVE TypeInv /\ BodyInv
  OBVIOUS
<1>1. PICK s \in Scenes : rows = s.table /\ body = s.body
  BY DEF Init
<1>2. TypeInv
  BY <1>1 DEF Init, TypeInv, IsFunction, Label
<1>3. BodyInv
  BY <1>1 DEF BodyInv
<1> QED
  BY <1>2, <1>3

LEMMA TypeStep == TypeInv /\ BodyInv /\ [Next]_vars => TypeInv' /\ BodyInv'
<1> SUFFICES ASSUME TypeInv, BodyInv, [Next]_vars
             PROVE  TypeInv' /\ BodyInv'
  OBVIOUS
<1>1. CASE ReaderStep
  <2>1. UNCHANGED <<rows, pc, request, found, purged, touched, fell, wrote>>
    BY <1>1, ReadersAlone
  <2>2. IsFunction(cache', Key) /\ IsFunction(reader', Readers)
    BY <1>1 DEF ReaderStep, Get, Fetch, Save, Expire, vars, TypeInv, IsFunction
  <2> QED
    BY <2>1, <2>2 DEF TypeInv, BodyInv, IsFunction, request
<1>2. ASSUME NEW r \in Requests, RequestStep(r)
      PROVE  TypeInv' /\ BodyInv'
  <2>1. \A x \in rows' : x.closed \in BOOLEAN /\ x.place \in Places
    BY <1>2, RowsChange, Written DEF TypeInv
  <2>2. IsFunction(cache', Key) /\ IsFunction(reader', Readers)
        /\ IsFunction(touched', Requests)
    BY <1>2 DEF RequestStep, Step, Start, Find, Purge, Forget, Check, Count, Create,
       Update, Invalidate, Remove, Look, Insert, Fails, Delete, Change, Untouched,
       TypeInv, IsFunction
  <2> QED
    BY <1>2, <2>1, <2>2, OwnState DEF TypeInv, BodyInv
<1> QED
  BY <1>1, <1>2, Steps

-----------------------------------------------------------------------------
(* The path of a request. *)

\* Which requests reach which step, and what the workspace found is.
OnPath(r) ==
    /\ pc[r] \in {"purge", "check", "invalidate"} => body[r].op \in {"add", "put"}
    /\ pc[r] = "count" => body[r].op = "put" /\ body[r].owner # shop
    /\ pc[r] = "create" =>
          body[r].op = "add" \/ (body[r].op = "put" /\ body[r].owner # shop)
    /\ pc[r] = "update" => body[r].op = "put"
    /\ pc[r] = "find" => body[r].op # "generate"
    /\ pc[r] = "remove" => body[r].op = "drop"
    /\ pc[r] = "look" => body[r].op = "generate"
    /\ pc[r] = "insert" =>
          /\ body[r].op = "generate" /\ ~Mixed(body[r].hours)
          /\ found[r] = body[r].place
    /\ body[r].op \notin {"add", "put"} => purged[r] = {}
    /\ body[r].op \in {"drop", "generate"} /\ body[r].owner = shop
          => \/ pc[r] # "forget" /\ found[r] = none
             \/ found[r] = body[r].place

PathInv == \A r \in Requests : OnPath(r)

\* A row is of the owner of whoever names it.
IdInv ==
    \A x \in rows, r \in Requests : x.id = body[r].id => SameOwner(x, body[r])

\* Requests that are under way together have met.
MetInv ==
    \A r, q \in Requests : r # q /\ UnderWay(r) /\ UnderWay(q) => {r, q} \in met

BaseInv == TypeInv /\ BodyInv /\ PathInv /\ IdInv /\ MetInv

LEMMA BaseInit == Init => BaseInv
<1> SUFFICES ASSUME Init PROVE BaseInv
  OBVIOUS
<1>1. TypeInv /\ BodyInv
  BY TypeInit
<1>2. PathInv /\ MetInv
  BY DEF Init, PathInv, OnPath, MetInv, UnderWay
<1>3. IdInv
  <2>1. PICK s \in Scenes : rows = s.table /\ body = s.body
    BY DEF Init
  <2> QED
    BY <2>1 DEF IdInv
<1> QED
  BY <1>1, <1>2, <1>3 DEF BaseInv

LEMMA BaseStep == BaseInv /\ [Next]_vars => BaseInv'
<1> SUFFICES ASSUME BaseInv, [Next]_vars
             PROVE  BaseInv'
  OBVIOUS
<1> USE DEF BaseInv
<1>1. TypeInv' /\ BodyInv'
  BY TypeStep
<1>2. CASE ReaderStep
  <2>1. UNCHANGED <<rows, pc, request, found, purged, touched, fell, wrote>>
    BY <1>2, ReadersAlone
  <2> QED
    BY <1>1, <2>1 DEF PathInv, OnPath, IdInv, MetInv, UnderWay, request
<1>3. ASSUME NEW r \in Requests, RequestStep(r)
      PROVE  PathInv' /\ IdInv' /\ MetInv'
  <2>1. IdInv'
    <3> SUFFICES ASSUME NEW x \in rows', NEW q \in Requests, x.id = body[q].id
                 PROVE  SameOwner(x, body[q])
      BY <1>3, OwnState DEF IdInv
    <3>1. CASE x \in rows
      BY <3>1 DEF IdInv
    <3>2. CASE x \notin rows
      <4>1. SameOwner(x, body[r]) /\ (x.id = body[r].id \/ x.id[1] = r)
        BY <1>3, <3>2, RowsChange, Written
      <4>2. SameOwner(body[r], body[q])
        BY <4>1 DEF BodyInv
      <4> QED
        BY <4>1, <4>2 DEF SameOwner
    <3> QED
      BY <3>1, <3>2
  <2>2. MetInv'
    <3>1. \A q \in Requests : UnderWay(q)' => UnderWay(q) \/ (q = r /\ Start(r))
      <4>1. Start(r) \/ UnderWay(r)
        BY <1>3 DEF RequestStep, Step, Find, Purge, Forget, Check, Count, Create,
           Update, Invalidate, Remove, Look, Insert, Fails, UnderWay, Answered
      <4> QED
        BY <1>3, <4>1, OwnState DEF UnderWay
    <3>2. Start(r) => \A q \in Requests : UnderWay(q) => {r, q} \in met'
      BY DEF Start
    <3>3. Start(r) => ~UnderWay(r)
      BY DEF Start, UnderWay
    <3>4. met \subseteq met'
      BY <1>3, OwnState
    <3> QED
      BY <3>1, <3>2, <3>3, <3>4 DEF MetInv
  <2>3. PathInv'
    <3>1. \A q \in Requests \ {r} : OnPath(q)'
      BY <1>3, OwnState DEF PathInv, OnPath
    <3>2. Sound(body[r]) /\ body' = body
      BY <1>3, OwnState DEF BodyInv
    <3>3. ASSUME Start(r) PROVE OnPath(r)'
      BY <3>2, <3>3 DEF PathInv, OnPath, Start, Goto, TypeInv, Sound
    <3>4. ASSUME Find(r) PROVE OnPath(r)'
      <4> DEFINE hit == IF body[r].op = "drop" THEN {x \in rows : x.id = body[r].id}
                        ELSE Replaced(body[r])
      <4>1. PICK p \in IF hit = {} THEN {none} ELSE {x.place : x \in hit} :
                found' = [found EXCEPT ![r] = p]
        BY <3>4 DEF Find
      <4>2. found'[r] = p
        BY <4>1 DEF TypeInv, IsFunction
      <4>3. body[r].op = "drop" /\ body[r].owner = shop
              => p \in {none, body[r].place}
        BY <4>1 DEF IdInv, SameOwner
      <4>4. pc'[r] = IF body[r].op = "drop" THEN "remove" ELSE "purge"
        BY <3>4 DEF Find, Goto, TypeInv
      <4>5. purged' = purged
        BY <3>4 DEF Find
      <4> HIDE DEF hit
      <4> QED
        BY <3>2, <3>4, <4>2, <4>3, <4>4, <4>5 DEF PathInv, OnPath, Find, Sound
    <3>5. ASSUME Look(r) PROVE OnPath(r)'
      BY <3>2, <3>5 DEF PathInv, OnPath, Look, Goto, TypeInv, IsFunction, Sound
    <3>6. ASSUME Purge(r) \/ Forget(r) PROVE OnPath(r)'
      BY <3>2, <3>6 DEF PathInv, OnPath, Purge, Forget, Goto, TypeInv, IsFunction, Sound
    <3>7. ASSUME Check(r) \/ Count(r) PROVE OnPath(r)'
      BY <3>2, <3>7 DEF PathInv, OnPath, Check, Count, Goto, TypeInv, Sound
    <3>8. ASSUME Create(r) \/ Update(r) PROVE OnPath(r)'
      BY <3>2, <3>8 DEF PathInv, OnPath, Create, Update, Goto, TypeInv, Sound
    <3>9. ASSUME Invalidate(r) \/ Remove(r) \/ Insert(r) \/ Fails(r)
          PROVE OnPath(r)'
      BY <3>2, <3>9 DEF PathInv, OnPath, Invalidate, Remove, Insert, Fails, Goto,
         TypeInv, Sound
    <3> QED
      BY <1>3, <3>1, <3>3, <3>4, <3>5, <3>6, <3>7, <3>8, <3>9 DEF PathInv, RequestStep, Step
  <2> QED
    BY <2>1, <2>2, <2>3
<1> QED
  BY <1>1, <1>2, <1>3, Steps
-----------------------------------------------------------------------------
(* Contradictory hours. *)

\* The middleware has deleted what the request replaces.
Cleared(r) ==
    \/ pc[r] \in {"check", "count", "create", "update"}
    \/ pc[r] = "forget" /\ body[r].op \in {"add", "put"}

\* Who could write a row that contradicts what the request is about to write has
\* met it: the request has deleted the rows it replaces, and found no others.
NoneUnmet(r) ==
    /\ Cleared(r) => \A y \in Replaced(body[r]) : {r, y.by} \in met
    /\ pc[r] \in {"count", "create", "update"} /\ ~Closed(body[r])
          => \A y \in Overlapping(body[r]) : {r, y.by} \in met
    /\ pc[r] = "insert" => \A y \in Standing(body[r]) : {r, y.by} \in met

RaceInv == HoursAgreeUnlessRaced /\ \A r \in Requests : NoneUnmet(r)

LEMMA RaceInit == Init => RaceInv
<1> SUFFICES ASSUME Init PROVE RaceInv
  OBVIOUS
<1>1. \A x, y \in rows : ~Conflict(x, y)
  BY DEF Init
<1> QED
  BY <1>1 DEF Init, RaceInv, HoursAgreeUnlessRaced, NoneUnmet, Cleared

\* A request under way meets whoever writes a row meanwhile.
LEMMA WriterMet ==
    ASSUME BaseInv, NEW r \in Requests, RequestStep(r),
           NEW q \in Requests \ {r}, UnderWay(q), NEW x \in rows' \ rows
    PROVE  {q, x.by} \in met
<1>1. x.by = r
  BY RowsChange, Written DEF BaseInv
<1>2. UnderWay(r)
  BY RowsChange DEF BaseInv
<1> QED
  BY <1>1, <1>2 DEF BaseInv, MetInv

LEMMA NoneUnmetStep ==
    ASSUME BaseInv, RaceInv, NEW r \in Requests, RequestStep(r), NEW q \in Requests
    PROVE  NoneUnmet(q)'
<1> USE DEF BaseInv
<1>1. body' = body /\ met \subseteq met'
  BY OwnState
<1>2. CASE q # r
  <2>1. pc'[q] = pc[q]
    BY <1>2, OwnState
  <2>2. NoneUnmet(q)
    BY DEF RaceInv
  <2>3. UnderWay(q) => \A x \in rows' \ rows : {q, x.by} \in met
    BY <1>2, WriterMet
  <2>4. Cleared(q) \/ pc[q] \in {"count", "create", "update", "insert"} => UnderWay(q)
    BY DEF Cleared, UnderWay, Answered
  <2> QED
    BY <1>1, <2>1, <2>2, <2>3, <2>4
    DEF NoneUnmet, Cleared, Replaced, Overlapping, Standing
<1>3. CASE q = r
  <2>1. NoneUnmet(r) /\ OnPath(r)
    BY DEF RaceInv, PathInv
  <2>2. CASE Purge(r)
    <3>1. rows' = rows \ Replaced(body[r]) /\ pc'[r] \in {"check", "forget"}
      BY <2>2 DEF Purge, Change, Goto, TypeInv
    <3>2. Replaced(body[r])' = {}
      BY <1>1, <3>1 DEF Replaced, Standing
    <3> QED
      BY <1>1, <1>3, <3>1, <3>2 DEF NoneUnmet, Cleared
  <2>3. CASE Forget(r)
    <3>1. rows' = rows /\ pc'[r] \in {"check", "ok"} /\ (pc'[r] = "check" => Cleared(r))
      BY <2>3 DEF Forget, Goto, TypeInv, Cleared
    <3> QED
      BY <1>1, <1>3, <2>1, <3>1 DEF NoneUnmet, Cleared, Replaced, Standing
  <2>4. CASE Check(r)
    <3>1. /\ rows' = rows /\ Cleared(r)
          /\ pc'[r] \in {"refused", "create", "update", "count"}
          /\ pc'[r] # "refused" => Closed(body[r]) \/ Overlapping(body[r]) = {}
      BY <2>4 DEF Check, Goto, TypeInv, Cleared, Untouched
    <3> QED
      BY <1>1, <1>3, <2>1, <3>1
      DEF NoneUnmet, Cleared, Replaced, Standing, Overlapping
  <2>5. CASE Count(r)
    <3>1. rows' = rows /\ pc[r] = "count" /\ pc'[r] \in {"update", "create"}
      BY <2>5 DEF Count, Goto, TypeInv, Untouched
    <3> QED
      BY <1>1, <1>3, <2>1, <3>1
      DEF NoneUnmet, Cleared, Replaced, Standing, Overlapping
  <2>6. CASE Look(r)
    <3>1. /\ rows' = rows /\ pc'[r] \in {"forget", "failed", "insert"}
          /\ body[r].op = "generate"
          /\ pc'[r] = "insert" => Standing(body[r]) = {}
      BY <2>1, <2>6 DEF Look, Goto, TypeInv, Untouched, OnPath
    <3> QED
      BY <1>1, <1>3, <3>1 DEF NoneUnmet, Cleared, Standing
  <2>7. CASE Start(r) \/ Find(r) \/ Create(r) \/ Update(r) \/ Invalidate(r) \/ Remove(r)
             \/ Insert(r) \/ Fails(r)
    <3>1. /\ pc'[r] \notin {"check", "count", "create", "update", "insert"}
          /\ pc'[r] = "forget" => body[r].op \notin {"add", "put"}
      BY <2>1, <2>7 DEF Start, Find, Create, Update, Invalidate, Remove, Insert,
         Fails, Goto, TypeInv, OnPath
    <3> QED
      BY <1>1, <1>3, <3>1 DEF NoneUnmet, Cleared
  <2> QED
    BY <2>2, <2>3, <2>4, <2>5, <2>6, <2>7 DEF RequestStep, Step
<1> QED
  BY <1>2, <1>3

\* A new row contradicts another only if their writers have met, or both are open
\* and of one request.
Explained(x, y) ==
    \/ {x.by, y.by} \in met
    \/ x.by = y.by /\ ~x.closed /\ ~y.closed

LEMMA NewRowAgrees ==
    ASSUME BaseInv, RaceInv, NEW r \in Requests, RequestStep(r),
           NEW x \in rows', NEW y \in rows' \ rows, Conflict(x, y)
    PROVE  Explained(x, y)
<1> USE DEF BaseInv
<1>1. WrittenBy(r, y) /\ Writes(r) /\ OnPath(r) /\ NoneUnmet(r) /\ Sound(body[r])
  BY RowsChange DEF RaceInv, PathInv, BodyInv
<1>2. /\ y.by = r /\ SameOwner(y, body[r]) /\ y.closed \in BOOLEAN
      /\ \E h \in body[r].hours : y.closed = h.closed /\ y.span = h.span
  BY <1>1, Written
<1>3. CASE x \notin rows
  <2>1. /\ x.by = r /\ x.closed \in BOOLEAN
        /\ \E h \in body[r].hours : x.closed = h.closed /\ x.span = h.span
    BY <1>3, RowsChange, Written
  <2>2. \A g, h \in body[r].hours : g.closed = h.closed
    BY <1>1 DEF Writes, OnPath, Sound, Mixed
  <2>3. x.closed = y.closed
    BY <1>2, <2>1, <2>2
  <2> QED
    BY <1>2, <2>1, <2>3 DEF Conflict, Explained
<1>4. CASE x \in rows
  <2>1. x \in Standing(body[r])
    BY <1>2, <1>4 DEF Standing, Conflict, SameOwner
  <2>2. {r, x.by} \in met => Explained(x, y)
    BY <1>2 DEF Explained
  <2>3. CASE pc[r] = "insert"
    BY <1>1, <2>1, <2>2, <2>3 DEF NoneUnmet
  <2>4. CASE pc[r] \in {"create", "update"}
    <3>1. CASE Closed(body[r]) \/ x.closed
      <4>1. x \in Replaced(body[r])
        BY <2>1, <3>1 DEF Replaced
      <4> QED
        BY <1>1, <2>2, <2>4, <4>1 DEF NoneUnmet, Cleared
    <3>2. CASE ~Closed(body[r]) /\ ~x.closed
      <4>1. ~y.closed /\ Clash(x.span, y.span)
        BY <1>2, <3>2 DEF Closed, Conflict
      <4>2. CASE body[r].op = "put" /\ x.id = body[r].id
        <5>1. Update(r)
          BY <1>4, <2>4, <4>2, RowsChange DEF RequestStep, Step, Start, Find, Purge,
             Forget, Check, Count, Create, Invalidate, Remove, Look, Insert, Fails,
             Untouched
        <5>2. x.by = r
          BY <1>4, <4>2, <5>1 DEF Update, Untouched, Change, Row
        <5> QED
          BY <1>2, <3>2, <4>1, <5>2 DEF Explained
      <4>3. CASE ~(body[r].op = "put" /\ x.id = body[r].id)
        <5>1. x \in Overlapping(body[r])
          BY <1>2, <2>1, <3>2, <4>1, <4>3 DEF Overlapping
        <5> QED
          BY <1>1, <2>2, <2>4, <3>2, <5>1 DEF NoneUnmet
      <4> QED
        BY <4>2, <4>3
    <3> QED
      BY <3>1, <3>2
  <2> QED
    BY <1>1, <2>3, <2>4 DEF Writes
<1> QED
  BY <1>3, <1>4

LEMMA RaceStep == BaseInv /\ RaceInv /\ [Next]_vars => RaceInv'
<1> SUFFICES ASSUME BaseInv, RaceInv, [Next]_vars
             PROVE  RaceInv'
  OBVIOUS
<1>1. CASE ReaderStep
  <2>1. UNCHANGED <<rows, pc, request, found, purged, touched, fell, wrote>>
    BY <1>1, ReadersAlone
  <2>2. HoursAgreeUnlessRaced'
    BY <2>1 DEF RaceInv, HoursAgreeUnlessRaced, request
  <2>3. \A r \in Requests : NoneUnmet(r)'
    BY <2>1 DEF RaceInv, NoneUnmet, Cleared, Replaced, Overlapping, Standing, request
  <2> QED
    BY <2>2, <2>3 DEF RaceInv
<1>2. ASSUME NEW r \in Requests, RequestStep(r)
      PROVE  RaceInv'
  <2>1. \A q \in Requests : NoneUnmet(q)'
    BY <1>2, NoneUnmetStep
  <2>2. met \subseteq met'
    BY <1>2, OwnState DEF BaseInv
  <2>3. ASSUME NEW x \in rows', NEW y \in rows', Conflict(x, y)
        PROVE  Explained(x, y)
    <3>1. CASE x \in rows /\ y \in rows
      BY <2>3, <3>1 DEF RaceInv, HoursAgreeUnlessRaced, Explained
    <3>2. CASE y \notin rows
      BY <1>2, <2>3, <3>2, NewRowAgrees
    <3>3. CASE x \notin rows
      <4>1. Conflict(y, x)
        BY <1>2, <2>3, TypeStep DEF Conflict, SameOwner, Clash, BaseInv, TypeInv
      <4>2. Explained(y, x)
        BY <1>2, <3>3, <4>1, NewRowAgrees
      <4> QED
        BY <4>2 DEF Explained
    <3> QED
      BY <3>1, <3>2, <3>3
  <2> QED
    BY <2>1, <2>2, <2>3 DEF RaceInv, HoursAgreeUnlessRaced, Explained
<1> QED
  BY <1>1, <1>2, Steps

\* Rows that contradict each other were written by requests that were under way
\* together, however many requests there are: the checks of the middleware hold
\* for requests that come one after the other.
THEOREM HoursAgree == Spec => []HoursAgreeUnlessRaced
<1>1. RaceInv => HoursAgreeUnlessRaced
  BY DEF RaceInv
<1> QED
  BY <1>1, BaseInit, BaseStep, RaceInit, RaceStep, PTL DEF Spec
-----------------------------------------------------------------------------
(* Requests that fail after a first deletion. *)

\* No other request was under way with this one, nor with who wrote what it deleted.
Calm(r) ==
    \A s \in Requests : {r, s} \notin met /\ \A x \in purged[r] : {x.by, s} \notin met

\* A calm request that has deleted rows has deleted all there were, so that a
\* professional's request creates its row again.
LeftNothing(r) ==
    Calm(r) /\ Cleared(r) /\ purged[r] # {} =>
        /\ Standing(body[r]) = {}
        /\ pc[r] = "update" => body[r].owner = shop

Clean(r) ==
    pc[r] \in {"refused", "failed", "broken"} /\ purged[r] # {} /\ r \notin wrote
    /\ Calm(r) =>
        \/ fell[r] \in {"forget", "check", "count", "create"}
        \/ body[r].op = "put" /\ body[r].owner = shop

\* Nothing is deleted before the deletion, and who deletes the key at the end has
\* written.
Marked(r) ==
    /\ pc[r] \in {"idle", "find", "purge"} => purged[r] = {}
    /\ pc[r] = "invalidate" => r \in wrote

CleanInv == \A r \in Requests : LeftNothing(r) /\ Clean(r) /\ Marked(r)

LEMMA CleanInit == Init => CleanInv
BY DEF Init, CleanInv, LeftNothing, Clean, Marked

\* The deletion: an open hour that stands next to a closed row contradicts it, so the
\* writers of the two had met.
LEMMA PurgeLeavesNothing ==
    ASSUME BaseInv, RaceInv, NEW r \in Requests, Purge(r)
    PROVE  LeftNothing(r)'
<1> USE DEF BaseInv
<1>1. /\ rows' = rows \ Replaced(body[r]) /\ purged'[r] = Replaced(body[r])
      /\ body' = body /\ met' = met
      /\ pc'[r] # "update"
  BY DEF Purge, Change, Goto, TypeInv, IsFunction, request
<1>2. SUFFICES ASSUME Calm(r)', NEW x \in Replaced(body[r]), NEW y \in Standing(body[r])',
                      y \notin Replaced(body[r])
               PROVE  FALSE
  BY <1>1 DEF LeftNothing, Standing
<1>3. x \in rows /\ y \in rows /\ y \in Standing(body[r]) /\ x \in Standing(body[r])
  BY <1>1, <1>2 DEF Standing, Replaced
<1>4. x.closed /\ ~y.closed
  BY <1>2, <1>3 DEF Replaced
<1>5. Conflict(x, y)
  BY <1>2, <1>3, <1>4 DEF Conflict, Standing, SameOwner, TypeInv
<1>6. {x.by, y.by} \in met
  BY <1>3, <1>4, <1>5 DEF RaceInv, HoursAgreeUnlessRaced
<1>7. y.by \in Requests
  BY <1>6 DEF TypeInv
<1> QED
  BY <1>1, <1>2, <1>6, <1>7 DEF Calm

LEMMA CleanStep == BaseInv /\ RaceInv /\ CleanInv /\ [Next]_vars => CleanInv'
<1> SUFFICES ASSUME BaseInv, RaceInv, CleanInv, [Next]_vars
             PROVE  CleanInv'
  OBVIOUS
<1> USE DEF BaseInv
<1>1. CASE ReaderStep
  <2>1. UNCHANGED <<rows, pc, request, found, purged, touched, fell, wrote>>
    BY <1>1, ReadersAlone
  <2> QED
    BY <2>1 DEF CleanInv, LeftNothing, Clean, Marked, Calm, Cleared, Standing, request
<1>2. ASSUME NEW r \in Requests, RequestStep(r), NEW q \in Requests
      PROVE  LeftNothing(q)' /\ Clean(q)' /\ Marked(q)'
  <2>1. /\ body' = body /\ met \subseteq met' /\ wrote \subseteq wrote'
        /\ LeftNothing(q) /\ Clean(q) /\ Marked(q) /\ OnPath(q)
    BY <1>2, OwnState DEF CleanInv, PathInv
  <2>2. CASE q # r
    <3>1. pc'[q] = pc[q] /\ purged'[q] = purged[q] /\ fell'[q] = fell[q]
      BY <1>2, <2>2, OwnState
    <3>2. Calm(q)' => Calm(q)
      BY <2>1, <3>1 DEF Calm
    <3>3. Cleared(q) /\ Calm(q) => rows' = rows
      <4>1. Cleared(q) => UnderWay(q)
        BY DEF Cleared, UnderWay, Answered
      <4>2. rows' # rows => UnderWay(r)
        BY <1>2, RowsChange
      <4> QED
        BY <2>2, <4>1, <4>2 DEF MetInv, Calm
    <3> QED
      BY <2>1, <3>1, <3>2, <3>3 DEF LeftNothing, Clean, Marked, Cleared, Standing
  <2>3. CASE q = r
    <3>1. CASE Purge(r)
      <4>1. pc'[r] \in {"check", "forget"}
        BY <3>1 DEF Purge, Goto, TypeInv
      <4> QED
        BY <2>3, <3>1, <4>1, PurgeLeavesNothing DEF Clean, Marked
    <3>2. CASE ~Purge(r)
      <4>1. purged' = purged
        BY <1>2, <3>2 DEF RequestStep, Step, Start, Find, Forget, Check, Count, Create,
           Update, Invalidate, Remove, Look, Insert, Fails
      <4>2. Calm(r)' => Calm(r)
        BY <2>1, <4>1 DEF Calm
      <4>3. CASE Forget(r) \/ Check(r) \/ Count(r)
        <5>1. /\ rows' = rows
              /\ body[r].op \in {"add", "put"} => Cleared(r)
              /\ Cleared(r)' => Cleared(r)
              /\ pc'[r] = "update" =>
                    body[r].owner = shop \/ \E x \in rows : x.owner = body[r].owner
          BY <2>1, <4>3 DEF Forget, Check, Count, Goto, Untouched, TypeInv, Cleared
        <5>2. pc'[r] \in {"ok", "check", "refused", "count", "create", "update"}
          BY <4>3 DEF Forget, Check, Count, Goto, TypeInv
        <5>3. pc'[r] = "refused" => Overlapping(body[r]) # {} /\ Cleared(r)
          BY <4>3 DEF Forget, Check, Count, Goto, TypeInv, Cleared
        <5>4. /\ pc'[r] = "refused" => Standing(body[r]) # {}
              /\ pc'[r] = "update" => body[r].owner = shop \/ Standing(body[r]) # {}
          BY <5>1, <5>3 DEF Overlapping, Standing, SameOwner
        <5> QED
          BY <2>1, <2>3, <4>1, <4>2, <5>1, <5>2, <5>3, <5>4
          DEF LeftNothing, Clean, Marked, Standing
      <4>4. CASE Create(r) \/ Update(r)
        <5>1. ~Cleared(r)' /\ pc'[r] \in {"failed", "invalidate"} /\ Cleared(r)
          BY <4>4 DEF Create, Update, Goto, TypeInv, Cleared
        <5>2. pc'[r] = "failed" /\ Create(r) => Standing(body[r]) # {}
          BY <2>1, <2>3 DEF Create, Goto, TypeInv, OnPath, IdInv, Standing
        <5>3. pc'[r] = "failed" /\ Update(r) /\ Calm(r) /\ purged[r] # {}
                => body[r].op = "put" /\ body[r].owner = shop
          BY <2>1, <2>3, <5>1 DEF LeftNothing, OnPath, Update
        <5>4. pc'[r] = "invalidate" => r \in wrote'
          BY <4>4 DEF Create, Update, Goto, TypeInv
        <5> QED
          BY <2>1, <2>3, <4>1, <4>2, <4>4, <5>1, <5>2, <5>3, <5>4
          DEF LeftNothing, Clean, Marked
      <4>5. CASE Start(r) \/ Find(r) \/ Invalidate(r) \/ Remove(r) \/ Look(r)
                 \/ Insert(r)
        <5>1. ~Cleared(r)' /\ pc'[r] \notin {"refused", "broken", "invalidate"}
          BY <2>1, <2>3, <4>5 DEF Start, Find, Invalidate, Remove, Look, Insert,
             Goto, TypeInv, Cleared, OnPath
        <5>2. pc'[r] = "failed" => purged[r] = {}
          BY <2>1, <2>3, <4>5 DEF Start, Find, Invalidate, Remove, Look, Insert,
             Goto, TypeInv, OnPath
        <5>3. pc'[r] \in {"idle", "find", "purge"} => purged[r] = {}
          BY <2>1, <2>3, <4>5 DEF Start, Find, Invalidate, Remove, Look, Insert,
             Goto, TypeInv, Marked
        <5> QED
          BY <2>3, <4>1, <5>1, <5>2, <5>3 DEF LeftNothing, Clean, Marked
      <4>6. CASE Fails(r)
        <5>1. pc'[r] = "broken" /\ fell'[r] = pc[r] /\ wrote' = wrote /\ UnderWay(r)
          BY <4>6 DEF Fails, Goto, TypeInv, IsFunction
        <5>2. ~Cleared(r)'
          BY <5>1 DEF Cleared
        <5>3. ASSUME purged[r] # {}, r \notin wrote, Calm(r)
              PROVE  \/ pc[r] \in {"forget", "check", "count", "create"}
                     \/ body[r].op = "put" /\ body[r].owner = shop
          <6>1. pc[r] \in {"forget", "check", "count", "create", "update"}
            BY <2>1, <2>3, <5>1, <5>3 DEF Marked, OnPath, UnderWay, TypeInv, Label
          <6>2. CASE pc[r] = "update"
            BY <2>1, <2>3, <5>3, <6>2 DEF LeftNothing, Cleared, OnPath
          <6> QED
            BY <6>1, <6>2
        <5> QED
          BY <2>1, <2>3, <4>1, <4>2, <5>1, <5>2, <5>3 DEF LeftNothing, Clean, Marked
      <4> QED
        BY <1>2, <3>2, <4>3, <4>4, <4>5, <4>6 DEF RequestStep, Step
    <3> QED
      BY <3>1, <3>2
  <2> QED
    BY <2>2, <2>3
<1> QED
  BY <1>1, <1>2, Steps DEF CleanInv
\* A request that answers with an error after it has deleted hours, and has written
\* none, was raced, or deleted hours of a request that was, or updates a workspace's
\* own hours, or one of its own calls between the deletion and the write failed:
\* in every other case the deletion before the check costs nothing.
THEOREM FailuresAreClean == Spec => []FailureIsClean
<1>1. CleanInv => FailureIsClean
  BY DEF CleanInv, Clean, Calm, FailureIsClean
<1> QED
  BY <1>1, BaseInit, BaseStep, RaceInit, RaceStep, CleanInit, CleanStep, PTL DEF Spec
-----------------------------------------------------------------------------
(* Stale hours. *)

\* A key that some request has changed and nobody deleted since.
Touched(k) == \E r \in Requests : k \in touched[r]

\* A request is under way until it has deleted the keys it touched, or it is one of
\* those that do not delete them; and it touches none before its first change.
Announces(r) ==
    /\ \A k \in touched[r] : UnderWay(r) \/ Unannounced(r, k)
    /\ pc[r] \in {"idle", "find", "remove", "look"} => touched[r] = {}

\* A workspace's row that was not found before it is deleted is not there.
StaysAway(r) ==
    /\ pc[r] # "idle" => Seen(body[r].id)
    /\ body[r].op = "drop" /\ body[r].owner = shop /\ pc[r] = "remove" /\ found[r] = none
          => \A x \in rows : x.id # body[r].id

\* What a reader is about to save is what the table gives, unless a request has
\* touched the key or deleted it since.
FreshReader(d) ==
    /\ reader[d].pc \in {"missed", "filling"} => reader[d].key \in Key
    /\ reader[d].pc = "filling" /\ ~reader[d].late =>
          reader[d].view \in Views(reader[d].key) \/ Touched(reader[d].key)

ReadersFresh == \A d \in Readers : FreshReader(d)

CacheFresh ==
    \A k \in Key : Stale(k) => cache[k].late \/ Touched(k)

StaleInv ==
    /\ ReadersFresh /\ CacheFresh
    /\ \A r \in Requests : Announces(r) /\ StaysAway(r)

LEMMA StaleInit == Init => StaleInv
BY DEF Init, StaleInv, ReadersFresh, FreshReader, CacheFresh, Stale, Announces, StaysAway, Resting

ViewsOf(mine, k) ==
    LET open == {x.span : x \in {y \in mine : ~y.closed}}
    IN  IF k[2] = shop \/ \A x \in mine : ~x.closed
        THEN {[shut |-> FALSE, open |-> open]}
        ELSE {[shut |-> s = {}, open |-> s] : s \in SUBSET open}

\* What a reader may make of a key depends on the rows of that key only.
LEMMA ViewsKept ==
    ASSUME NEW k, \A x \in (rows \ rows') \cup (rows' \ rows) : KeyOf(x) # k
    PROVE  Views(k)' = Views(k)
<1> DEFINE mine == {x \in rows : KeyOf(x) = k}
<1>1. mine' = mine
  OBVIOUS
<1>2. Views(k) = ViewsOf(mine, k) /\ Views(k)' = ViewsOf(mine', k)
  BY DEF Views, ViewsOf
<1> HIDE DEF mine
<1> QED
  BY <1>1, <1>2

LEMMA AnnouncesStep ==
    ASSUME BaseInv, StaleInv, NEW r \in Requests, RequestStep(r), NEW q \in Requests
    PROVE  Announces(q)'
<1> USE DEF BaseInv
<1>1. body' = body /\ Announces(q) /\ OnPath(q) /\ StaysAway(q) /\ Sound(body[q])
  BY OwnState DEF StaleInv, PathInv, BodyInv
<1>2. CASE q # r
  <2>1. pc'[q] = pc[q]
    BY <1>2, OwnState
  <2>2. touched'[q] \subseteq touched[q]
    <3>1. ASSUME NEW table, Change(r, table)
          PROVE  touched'[q] = touched[q]
      BY <1>2, <3>1 DEF Change, TypeInv, IsFunction
    <3>2. CASE Purge(r) \/ Create(r) \/ Update(r) \/ Remove(r) \/ Insert(r)
      BY <3>1, <3>2 DEF Purge, Create, Update, Remove, Insert, Untouched
    <3>3. CASE Forget(r) \/ Invalidate(r)
      BY <3>3 DEF Forget, Invalidate, Delete, Untouched
    <3>4. CASE Start(r) \/ Find(r) \/ Check(r) \/ Count(r) \/ Look(r) \/ Fails(r)
      BY <3>4 DEF Start, Find, Check, Count, Look, Fails, Untouched
    <3> QED
      BY <3>2, <3>3, <3>4 DEF RequestStep, Step
  <2> QED
    BY <1>1, <2>1, <2>2 DEF Announces, UnderWay, Unannounced
<1>3. CASE q = r
  <2>1. CASE Start(r) \/ Find(r) \/ Check(r) \/ Count(r) \/ Look(r) \/ Fails(r)
    <3>1. touched' = touched
      BY <2>1 DEF Start, Find, Check, Count, Look, Fails, Untouched
    <3>2. /\ Start(r) \/ Find(r) \/ Look(r) => touched[r] = {}
          /\ Check(r) \/ Count(r) \/ Fails(r) =>
                pc'[r] \in {"refused", "create", "update", "count", "broken"}
      BY <1>1, <1>3 DEF Announces, Start, Find, Look, Check, Count, Fails, Goto,
         TypeInv
    <3> QED
      BY <1>1, <1>3, <2>1, <3>1, <3>2 DEF Announces, UnderWay, Unannounced, Answered
  <2>2. CASE Purge(r) \/ Insert(r)
    BY <1>3, <2>2 DEF Purge, Insert, Goto, TypeInv, Announces, UnderWay, Answered
  <2>3. CASE Create(r) \/ Update(r)
    BY <1>3, <2>3 DEF Create, Update, Goto, TypeInv, Announces, UnderWay, Unannounced,
       Answered
  <2>4. CASE Forget(r)
    <3>1. CASE body[r].op \in {"add", "put"}
      BY <1>3, <2>4, <3>1 DEF Forget, Goto, TypeInv, Announces, UnderWay, Answered
    <3>2. CASE body[r].op \notin {"add", "put"}
      <4>1. pc'[r] = "ok" /\ touched'[r] = touched[r] \ {<<found[r], body[r].owner>>}
        BY <2>4, <3>2 DEF Forget, Goto, TypeInv, Delete
      <4>2. \/ body[r].op = "drop" /\ body[r].owner # shop
            \/ found[r] = body[r].place
        BY <1>1, <1>3, <2>4, <3>2 DEF Forget, OnPath, Sound
      <4> QED
        BY <1>1, <1>3, <4>1, <4>2 DEF Announces, Unannounced
    <3> QED
      BY <3>1, <3>2
  <2>5. CASE Invalidate(r)
    <3>1. pc'[r] = "ok" /\ touched'[r] = touched[r] \ {<<body[r].place, body[r].owner>>}
      BY <2>5 DEF Invalidate, Goto, TypeInv, Delete
    <3> QED
      BY <1>1, <1>3, <3>1 DEF Announces, Unannounced
  <2>6. CASE Remove(r)
    <3>1. /\ pc'[r] \in {"ok", "forget"}
          /\ pc'[r] = "ok" => found[r] = none
          /\ pc[r] = "remove" /\ touched[r] = {} /\ body[r].op = "drop"
      BY <1>1, <1>3, <2>6 DEF Remove, Goto, TypeInv, Announces, OnPath
    <3>2. CASE body[r].owner # shop \/ pc'[r] = "forget"
      BY <1>1, <1>3, <3>1, <3>2 DEF Announces, UnderWay, Unannounced, Answered
    <3>3. CASE body[r].owner = shop /\ pc'[r] = "ok"
      <4>1. \A x \in rows : x.id # body[r].id
        BY <1>1, <1>3, <3>1, <3>3 DEF StaysAway
      <4>2. touched'[r] = {}
        BY <2>6, <3>1, <4>1 DEF Remove, Change, TypeInv, IsFunction
      <4> QED
        BY <1>3, <4>2 DEF Announces
    <3> QED
      BY <3>1, <3>2, <3>3
  <2> QED
    BY <2>1, <2>2, <2>3, <2>4, <2>5, <2>6 DEF RequestStep, Step
<1> QED
  BY <1>2, <1>3

\* Who writes a row with an id that starts with its own name had not been seen.
LEMMA StaysAwayStep ==
    ASSUME BaseInv, StaleInv, NEW r \in Requests, RequestStep(r), NEW q \in Requests
    PROVE  StaysAway(q)'
<1> USE DEF BaseInv
<1>1. body' = body /\ StaysAway(q) /\ OnPath(q) /\ OnPath(r) /\ OnPath(q)'
  BY OwnState, BaseStep DEF StaleInv, PathInv, RequestStep, Next
<1>2. ASSUME NEW id, Seen(id) PROVE Seen(id)'
  <2>1. \/ pc[r] \notin {"invalidate", "forget"} \cup Answered
        \/ pc'[r] \in {"invalidate"} \cup Answered
        \/ pc[r] = "forget" /\ body[r].op # "generate"
    BY <1>1 DEF RequestStep, Step, Start, Find, Purge, Forget, Check, Count, Create,
       Update, Invalidate, Remove, Look, Insert, Fails, Goto, TypeInv, Answered,
       OnPath
  <2>2. \A s \in Requests : s # r => pc'[s] = pc[s]
    BY OwnState
  <2>3. SUFFICES ASSUME NEW s \in Requests, id[1] = s
                 PROVE  \/ pc'[s] \in {"invalidate"} \cup Answered
                        \/ pc'[s] = "forget" /\ body[s].op = "generate"
    BY <1>1 DEF Seen
  <2>4. \/ pc[s] \in {"invalidate"} \cup Answered
        \/ pc[s] = "forget" /\ body[s].op = "generate"
    BY <1>2, <2>3 DEF Seen
  <2> QED
    BY <2>1, <2>2, <2>4 DEF Answered
<1>3. pc'[q] # "idle" => Seen(body[q].id)
  <2>1. q # r => pc'[q] = pc[q]
    BY OwnState
  <2>2. pc[r] # "idle" \/ Start(r)
    BY DEF RequestStep, Step, Find, Purge, Forget, Check, Count, Create, Update,
       Invalidate, Remove, Look, Insert, Fails, UnderWay, Answered
  <2> QED
    BY <1>1, <2>1, <2>2 DEF StaysAway, Start
<1>4. ASSUME body[q].op = "drop", body[q].owner = shop, pc'[q] = "remove",
             found'[q] = none, NEW x \in rows', x.id = body[q].id
      PROVE  FALSE
  <2>1. CASE q = r
    <3>1. Find(r)
      BY <1>4, <2>1 DEF RequestStep, Step, Start, Find, Purge, Forget, Check, Count,
         Create, Update, Invalidate, Remove, Look, Insert, Fails, Goto, TypeInv
    <3>2. PICK p \in {y.place : y \in {z \in rows : z.id = body[r].id}} :
              found' = [found EXCEPT ![r] = p]
      BY <1>4, <2>1, <3>1 DEF Find, Untouched
    <3> QED
      BY <1>4, <2>1, <3>2, WeeklyAssumption DEF TypeInv, IsFunction
  <2>2. CASE q # r
    <3>1. pc[q] = "remove" /\ found[q] = none
      BY <1>4, <2>2, OwnState
    <3>2. (\A y \in rows : y.id # body[q].id) /\ Seen(body[q].id)
      BY <1>1, <1>4, <3>1 DEF StaysAway
    <3>3. x \notin rows
      BY <1>4, <3>2
    <3>4. Writes(r) /\ (x.id = body[r].id \/ x.id[1] = r)
      BY <3>3, RowsChange, Written
    <3>5. x.id[1] # r
      BY <1>4, <3>2, <3>4 DEF Seen, Writes, Answered
    <3>6. body[r].owner = shop /\ x.id = body[r].id
      BY <1>4, <3>4, <3>5 DEF BodyInv, SameOwner
    <3>7. Update(r) \/ Create(r) \/ Insert(r)
      BY <1>4, <3>3, <3>4 DEF Writes, RequestStep, Step, Start, Find, Purge, Forget,
         Check, Count, Invalidate, Remove, Look, Fails, Untouched
    <3>8. CASE Update(r)
      BY <1>4, <3>2, <3>3, <3>6, <3>8 DEF Update, Untouched
    <3>9. CASE Create(r)
      <4>1. body[r].op = "add"
        BY <1>1, <3>6, <3>9 DEF Create, OnPath
      <4>2. x.id = <<r, 0>>
        BY <3>3, <3>9, <4>1 DEF Create, Change, Untouched, Row
      <4> QED
        BY <3>5, <4>2
    <3>10. CASE Insert(r)
      <4>1. x.id[1] = r
        BY <3>3, <3>10 DEF Insert, Change, Row
      <4> QED
        BY <3>5, <4>1
    <3> QED
      BY <3>7, <3>8, <3>9, <3>10
  <2> QED
    BY <2>1, <2>2
<1> QED
  BY <1>1, <1>2, <1>3, <1>4 DEF StaysAway
\* A step of a request deletes one key, or leaves Redis and the readers alone.
LEMMA Deletion ==
    ASSUME TypeInv, NEW r \in Requests, RequestStep(r)
    PROVE  \/ /\ cache' = cache /\ reader' = reader
              /\ \A q \in Requests : touched[q] \subseteq touched'[q]
           \/ \E key : Delete(key) /\ rows' = rows
<1>1. CASE Forget(r) \/ Invalidate(r)
  BY <1>1 DEF Forget, Invalidate
<1>2. ASSUME NEW table, Change(r, table)
      PROVE  \A q \in Requests : touched[q] \subseteq touched'[q]
  BY <1>2 DEF Change, TypeInv, IsFunction
<1>3. CASE Purge(r) \/ Create(r) \/ Update(r) \/ Remove(r) \/ Insert(r)
  BY <1>2, <1>3 DEF Purge, Create, Update, Remove, Insert, Untouched
<1>4. CASE Start(r) \/ Find(r) \/ Check(r) \/ Count(r) \/ Look(r) \/ Fails(r)
  BY <1>4 DEF Start, Find, Check, Count, Look, Fails, Untouched
<1> QED
  BY <1>1, <1>3, <1>4 DEF RequestStep, Step

LEMMA FreshStep ==
    ASSUME BaseInv, StaleInv, NEW r \in Requests, RequestStep(r)
    PROVE  ReadersFresh' /\ CacheFresh'
<1> USE DEF BaseInv
<1>1. CASE /\ cache' = cache /\ reader' = reader
           /\ \A q \in Requests : touched[q] \subseteq touched'[q]
  <2>1. \A k : Touched(k) => Touched(k)'
    BY <1>1 DEF Touched
  <2>2. ASSUME NEW k PROVE Views(k)' = Views(k) \/ Touched(k)'
    <3>1. CASE k \in touched'[r]
      BY <3>1 DEF Touched
    <3>2. CASE k \notin touched'[r]
      BY <3>2, RowsChange, ViewsKept
    <3> QED
      BY <3>1, <3>2
  <2>3. ReadersFresh'
    BY <1>1, <2>1, <2>2 DEF StaleInv, ReadersFresh, FreshReader
  <2>4. CacheFresh'
    BY <1>1, <2>1, <2>2 DEF StaleInv, CacheFresh, Stale
  <2> QED
    BY <2>3, <2>4
<1>2. ASSUME NEW key, Delete(key), rows' = rows
      PROVE  ReadersFresh' /\ CacheFresh'
  <2>1. \A k : Views(k)' = Views(k)
    BY <1>2 DEF Views, KeyOf
  <2>2. \A k : k # key /\ Touched(k) => Touched(k)'
    BY <1>2 DEF Delete, Touched
  <2>3. ReadersFresh'
    <3> SUFFICES ASSUME NEW d \in Readers PROVE FreshReader(d)'
      BY DEF ReadersFresh
    <3> USE DEF FreshReader
    <3>1. reader'[d] = IF reader[d].pc = "filling" /\ reader[d].key = key
                       THEN [reader[d] EXCEPT !.late = TRUE] ELSE reader[d]
      BY <1>2 DEF Delete
    <3>2. CASE reader[d].pc = "filling" /\ reader[d].key = key
      BY <3>1, <3>2 DEF StaleInv, ReadersFresh, FreshReader
    <3>3. CASE ~(reader[d].pc = "filling" /\ reader[d].key = key)
      BY <2>1, <2>2, <3>1, <3>3 DEF StaleInv, ReadersFresh, FreshReader
    <3> QED
      BY <3>2, <3>3
  <2>4. CacheFresh'
    <3> SUFFICES ASSUME NEW k \in Key, Stale(k)' PROVE cache'[k].late \/ Touched(k)'
      BY DEF CacheFresh
    <3>1. k # key /\ cache'[k] = cache[k]
      BY <1>2 DEF Delete, Stale, TypeInv, IsFunction
    <3> QED
      BY <2>1, <2>2, <3>1 DEF StaleInv, CacheFresh, Stale
  <2> QED
    BY <2>3, <2>4
<1> QED
  BY <1>1, <1>2, Deletion

LEMMA FreshRead ==
    ASSUME BaseInv, StaleInv, ReaderStep
    PROVE  ReadersFresh' /\ CacheFresh'
<1> USE DEF BaseInv
<1>1. UNCHANGED <<rows, touched>>
  BY ReadersAlone
<1>2. \A k : Views(k)' = Views(k) /\ (Touched(k)' <=> Touched(k))
  BY <1>1 DEF Views, KeyOf, Touched
<1>3. ReadersFresh /\ CacheFresh
  BY DEF StaleInv
<1>4. ASSUME NEW d \in Readers, Get(d) PROVE ReadersFresh' /\ CacheFresh'
  BY <1>2, <1>3, <1>4 DEF Get, Watched, ReadersFresh, FreshReader, CacheFresh, Stale, TypeInv, IsFunction
<1>5. ASSUME NEW d \in Readers, Fetch(d) PROVE ReadersFresh' /\ CacheFresh'
  BY <1>2, <1>3, <1>5 DEF Fetch, ReadersFresh, FreshReader, CacheFresh, Stale, TypeInv, IsFunction
<1>6. ASSUME NEW d \in Readers, Save(d) PROVE ReadersFresh' /\ CacheFresh'
  <2>1. ReadersFresh'
    BY <1>2, <1>3, <1>6 DEF Save, Resting, ReadersFresh, FreshReader, TypeInv, IsFunction
  <2>2. CacheFresh'
    BY <1>2, <1>3, <1>6 DEF Save, Saved, ReadersFresh, FreshReader, CacheFresh, Stale, TypeInv,
       IsFunction
  <2> QED
    BY <2>1, <2>2
<1>7. ASSUME NEW k \in Key, Expire(k) PROVE ReadersFresh' /\ CacheFresh'
  BY <1>2, <1>3, <1>7 DEF Expire, ReadersFresh, FreshReader, CacheFresh, Stale, TypeInv, IsFunction
<1>8. CASE UNCHANGED vars
  BY <1>2, <1>3, <1>8 DEF vars, ReadersFresh, FreshReader, CacheFresh, Stale
<1> QED
  BY <1>4, <1>5, <1>6, <1>7, <1>8 DEF ReaderStep

LEMMA StaleStep == BaseInv /\ StaleInv /\ [Next]_vars => StaleInv'
<1> SUFFICES ASSUME BaseInv, StaleInv, [Next]_vars
             PROVE  StaleInv'
  OBVIOUS
<1>1. CASE ReaderStep
  <2>1. UNCHANGED <<rows, pc, request, found, purged, touched, fell, wrote>>
    BY <1>1, ReadersAlone
  <2>2. \A r \in Requests : Announces(r)' /\ StaysAway(r)'
    BY <2>1 DEF StaleInv, Announces, UnderWay, Unannounced, StaysAway, Seen, request
  <2> QED
    BY <1>1, <2>2, FreshRead DEF StaleInv
<1>2. ASSUME NEW r \in Requests, RequestStep(r)
      PROVE  StaleInv'
  BY <1>2, FreshStep, AnnouncesStep, StaysAwayStep DEF StaleInv
<1> QED
  BY <1>1, <1>2, Steps

\* Redis disagrees with the table only before a request has deleted the key, through
\* the race of filling the cache, or after a change that the code never announces,
\* for any number of requests and readers.
THEOREM StaleHoursHaveCauses == Spec => []StaleHoursAreExplained
<1>1. StaleInv => StaleHoursAreExplained
  BY DEF StaleInv, CacheFresh, Touched, Announces, StaleHoursAreExplained
<1> QED
  BY <1>1, BaseInit, BaseStep, StaleInit, StaleStep, PTL DEF Spec
=============================================================================
