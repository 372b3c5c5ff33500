-------------------------- MODULE DatedHoursProofs --------------------------
(***************************************************************************)
(* Proofs about temporary hours and absences, for any number of requests,  *)
(* readers, workspaces, professionals and dates.                           *)
(***************************************************************************)
EXTENDS DatedHours, TLAPS

USE DatedAssumption

IsFunction(f, S) == f = [x \in S |-> f[x]]

Label == {"idle", "add", "put", "drop", "away", "move", "back", "write", "invalidate",
          "forget", "remove", "leave", "revise"} \cup Answered

TypeInv ==
    /\ IsFunction(cache, Key)
    /\ pc \in [Requests -> Label]
    /\ IsFunction(body, Requests)
    /\ IsFunction(seen, Requests)
    /\ IsFunction(cut, Requests)
    /\ IsFunction(touched, Requests)
    /\ IsFunction(reader, Readers)
    /\ \A r \in Requests : Sound(body[r])

\* The steps of a request of each kind.
OnPath(r) ==
    /\ pc[r] = "add" => body[r].op = "add"
    /\ pc[r] \in {"put", "write"} => body[r].op = "put"
    /\ pc[r] = "invalidate" => body[r].op \in {"add", "put"}
    /\ pc[r] \in {"drop", "forget", "remove"} => body[r].op = "drop"
    /\ pc[r] \in {"away", "leave"} => body[r].op = "away"
    /\ pc[r] \in {"move", "revise"} => body[r].op = "move"
    /\ pc[r] = "back" => body[r].op = "back"
    /\ pc[r] \in {"idle", "away", "move"} => cut[r] = {}

\* Requests that are under way together have met.
MetInv ==
    \A r, q \in Requests : r # q /\ UnderWay(r) /\ UnderWay(q) => {r, q} \in met

BaseInv == TypeInv /\ MetInv /\ \A r \in Requests : OnPath(r)

RequestStep(r) ==
    \/ Start(r) \/ Add(r) \/ Read(r) \/ Write(r) \/ Invalidate(r)
    \/ Gather(r) \/ Forget(r) \/ Remove(r)
    \/ Clean(r) \/ Leave(r) \/ Revise(r) \/ Return(r) \/ Fails(r)

ReaderStep ==
    \/ \E d \in Readers : Get(d) \/ Fetch(d) \/ Save(d)
    \/ \E k \in Key : Expire(k)
    \/ UNCHANGED vars

LEMMA Steps ==
    ASSUME [Next]_vars
    PROVE  ReaderStep \/ \E r \in Requests : RequestStep(r)
BY DEF Next, ReaderStep, RequestStep

LEMMA ReadersAlone ==
    ASSUME ReaderStep
    PROVE  UNCHANGED <<rows, absences, events, groups, pc, body, seen, cut, met, touched>>
BY DEF ReaderStep, Get, Fetch, Save, Expire, vars, calendar

\* What a step of a request changes of the requests: its own state only.
LEMMA OwnState ==
    ASSUME TypeInv, NEW r \in Requests, RequestStep(r)
    PROVE  /\ body' = body
           /\ pc' \in [Requests -> Label]
           /\ IsFunction(seen', Requests)
           /\ IsFunction(cut', Requests)
           /\ \A q \in Requests \ {r} : /\ pc'[q] = pc[q]
                                        /\ seen'[q] = seen[q]
                                        /\ cut'[q] = cut[q]
           /\ met \subseteq met'
<1>1. CASE Start(r)
  BY <1>1 DEF Start, Goto, TypeInv, Label, Sound
<1>2. CASE Add(r) \/ Read(r)
  BY <1>2 DEF Add, Read, Goto, TypeInv, IsFunction, Label, Answered
<1>3. CASE Write(r)
  BY <1>3 DEF Write, Goto, TypeInv, IsFunction, Label, Answered
<1>4. CASE Gather(r) \/ Clean(r)
  BY <1>4 DEF Gather, Clean, Goto, TypeInv, IsFunction, Label, Answered
<1>5. CASE Invalidate(r) \/ Forget(r) \/ Remove(r) \/ Leave(r) \/ Revise(r) \/ Return(r) \/ Fails(r)
  BY <1>5 DEF Invalidate, Forget, Remove, Leave, Revise, Return, Fails, Goto, TypeInv, Label,
     Answered
<1> QED
  BY <1>1, <1>2, <1>3, <1>4, <1>5 DEF RequestStep

LEMMA BaseInit == Init => BaseInv
<1> SUFFICES ASSUME Init PROVE BaseInv
  OBVIOUS
<1>1. PICK s \in Scenes : body = s.body
  BY DEF Init
<1>2. TypeInv
  BY <1>1 DEF Init, TypeInv, IsFunction, Label
<1> QED
  BY <1>2 DEF Init, BaseInv, MetInv, UnderWay, OnPath

LEMMA BaseStep == BaseInv /\ [Next]_vars => BaseInv'
<1> SUFFICES ASSUME BaseInv, [Next]_vars
             PROVE  BaseInv'
  OBVIOUS
<1> USE DEF BaseInv
<1>1. CASE ReaderStep
  <2>1. UNCHANGED <<rows, absences, events, groups, pc, body, seen, cut, met, touched>>
    BY <1>1, ReadersAlone
  <2>2. IsFunction(cache', Key) /\ IsFunction(reader', Readers)
    BY <1>1 DEF ReaderStep, Get, Fetch, Save, Expire, vars, TypeInv, IsFunction
  <2> QED
    BY <2>1, <2>2 DEF TypeInv, MetInv, UnderWay, OnPath
<1>2. ASSUME NEW r \in Requests, RequestStep(r)
      PROVE  BaseInv'
  <2>1. IsFunction(cache', Key) /\ IsFunction(reader', Readers)
        /\ IsFunction(touched', Requests)
    <3>1. CASE Invalidate(r) \/ Forget(r)
      BY <3>1 DEF Invalidate, Forget, Delete, IsFunction
    <3>2. CASE Add(r) \/ Write(r) \/ Remove(r) \/ Clean(r)
      BY <3>2 DEF Add, Write, Remove, Clean, Change, TypeInv, IsFunction
    <3>3. CASE Start(r) \/ Read(r) \/ Gather(r) \/ Leave(r) \/ Revise(r) \/ Return(r) \/ Fails(r)
      BY <3>3 DEF Start, Read, Gather, Leave, Revise, Return, Fails, TypeInv
    <3> QED
      BY <1>2, <3>1, <3>2, <3>3 DEF RequestStep
  <2>2. TypeInv'
    BY <1>2, <2>1, OwnState DEF TypeInv
  <2>3. MetInv'
    <3>1. \A q \in Requests : UnderWay(q)' => UnderWay(q) \/ (q = r /\ Start(r))
      <4>1. Start(r) \/ UnderWay(r)
        <5>1. CASE Add(r) \/ Read(r) \/ Write(r) \/ Invalidate(r)
          BY <5>1 DEF Add, Read, Write, Invalidate, UnderWay, Answered
        <5>2. CASE Gather(r) \/ Forget(r) \/ Remove(r) \/ Clean(r)
          BY <5>2 DEF Gather, Forget, Remove, Clean, UnderWay, Answered
        <5>3. CASE Leave(r) \/ Revise(r) \/ Return(r) \/ Fails(r)
          BY <5>3 DEF Leave, Revise, Return, Fails, UnderWay, Answered
        <5> QED
          BY <1>2, <5>1, <5>2, <5>3 DEF RequestStep
      <4> QED
        BY <1>2, <4>1, OwnState DEF UnderWay
    <3>2. Start(r) => ~UnderWay(r) /\ \A q \in Requests : UnderWay(q) => {r, q} \in met'
      BY DEF Start, UnderWay
    <3>3. met \subseteq met'
      BY <1>2, OwnState
    <3> QED
      BY <3>1, <3>2, <3>3 DEF MetInv
  <2>4. ASSUME NEW q \in Requests PROVE OnPath(q)'
    <3>1. CASE q # r
      BY <1>2, <3>1, OwnState DEF OnPath
    <3>2. CASE q = r
      <4>1. OnPath(r) /\ body' = body /\ Sound(body[r])
        BY <1>2, OwnState DEF TypeInv
      <4>2. CASE Start(r) \/ Add(r) \/ Read(r)
        BY <3>2, <4>1, <4>2 DEF Start, Add, Read, Goto, OnPath, TypeInv, Sound
      <4>3. CASE Write(r)
        BY <3>2, <4>1, <4>3 DEF Write, Goto, OnPath, TypeInv
      <4>4. CASE Invalidate(r) \/ Gather(r) \/ Forget(r) \/ Remove(r)
        BY <3>2, <4>1, <4>4 DEF Invalidate, Gather, Forget, Remove, Goto, OnPath, TypeInv
      <4>5. CASE Clean(r)
        BY <3>2, <4>1, <4>5 DEF Clean, Goto, OnPath, TypeInv
      <4>6. CASE Leave(r) \/ Revise(r) \/ Return(r) \/ Fails(r)
        <5>1. pc'[r] \in Answered
          <6>1. CASE Leave(r) \/ Return(r) \/ Fails(r)
            BY <6>1 DEF Leave, Return, Fails, Goto, TypeInv, Answered
          <6>2. CASE Revise(r)
            BY <6>2 DEF Revise, Goto, TypeInv, Answered
          <6> QED
            BY <4>6, <6>1, <6>2
        <5> QED
          BY <3>2, <5>1 DEF OnPath, Answered
      <4> QED
        BY <1>2, <4>2, <4>3, <4>4, <4>5, <4>6 DEF RequestStep
    <3> QED
      BY <3>1, <3>2
  <2> QED
    BY <2>2, <2>3, <2>4
<1> QED
  BY <1>1, <1>2, Steps

-----------------------------------------------------------------------------
(* Stale dates. *)

\* A date of a key that some request has changed and nobody deleted since.
Touched(k, d) == \E r \in Requests : <<k, d>> \in touched[r]

\* A request is under way until it has deleted the keys it touched, or it is one of
\* those that do not delete them; nothing is touched before the first change, and by
\* an addition only the key that it will delete.
Announces(r) ==
    /\ \A k, d : <<k, d>> \in touched[r] => UnderWay(r) \/ Unannounced(r, k)
    /\ pc[r] \in {"idle", "add", "put", "write", "back"} => touched[r] = {}
    /\ pc[r] = "invalidate" /\ body[r].op = "add" =>
          \A k, d : <<k, d>> \in touched[r] => \E x \in seen[r] : KeyOf(x) = k

\* A map of dates agrees with the rows, but for late dates and touched ones.
Agrees(map, late, k) ==
    \A d \in DOMAIN map :
        d \in late \/ map[d] \in DayViews(rows, k, d) \/ Touched(k, d)

FreshReader(d) ==
    reader[d].pc # "idle" =>
        /\ reader[d].key \in Key
        /\ reader[d].pc = "missed" => reader[d].patch = NoDays
        /\ Agrees(Over(reader[d].patch, reader[d].old), reader[d].late, reader[d].key)

StaleInv ==
    /\ \A k \in Key : Agrees(cache[k].map, cache[k].late, k)
    /\ \A d \in Readers : FreshReader(d)
    /\ \A r \in Requests : Announces(r)

LEMMA StaleInit == Init => StaleInv
BY DEF Init, StaleInv, Agrees, Empty, NoDays, FreshReader, Over, Resting, Announces

\* Which steps change rows, and that they remember the dates they change.
LEMMA RowsChange ==
    ASSUME TypeInv, NEW r \in Requests, RequestStep(r)
    PROVE  /\ \A x \in (rows \ rows') \cup (rows' \ rows) :
                  <<KeyOf(x), x.day>> \in touched'[r]
           /\ \A q \in Requests \ {r} : touched'[q] \subseteq touched[q]
<1>1. CASE Start(r) \/ Read(r) \/ Gather(r) \/ Leave(r) \/ Revise(r) \/ Return(r) \/ Fails(r)
  BY <1>1 DEF Start, Read, Gather, Leave, Revise, Return, Fails, calendar
<1>2. CASE Invalidate(r) \/ Forget(r)
  BY <1>2 DEF Invalidate, Forget, Delete
<1>3. ASSUME NEW table, Change(r, table)
      PROVE  /\ rows' = table
             /\ \A x \in (rows \ rows') \cup (rows' \ rows) :
                    <<KeyOf(x), x.day>> \in touched'[r]
             /\ \A q \in Requests \ {r} : touched'[q] \subseteq touched[q]
  BY <1>3 DEF Change, TypeInv, IsFunction
<1>4. CASE Add(r) \/ Remove(r) \/ Clean(r)
  BY <1>3, <1>4 DEF Add, Remove, Clean
<1>5. CASE Write(r)
  BY <1>3, <1>5 DEF Write
<1> QED
  BY <1>1, <1>2, <1>4, <1>5 DEF RequestStep

ViewsOf(mine) ==
    LET open == {x.hours.span : x \in {y \in mine : ~y.hours.closed}}
    IN  IF \A x \in mine : ~x.hours.closed
        THEN {[shut |-> FALSE, open |-> open]}
        ELSE {[shut |-> s = {}, open |-> s] : s \in SUBSET open}

\* What a reader may make of a date depends on the rows of that key and date only.
LEMMA ViewsKept ==
    ASSUME NEW k, NEW d,
           \A x \in (rows \ rows') \cup (rows' \ rows) : <<KeyOf(x), x.day>> # <<k, d>>
    PROVE  DayViews(rows', k, d) = DayViews(rows, k, d)
<1> DEFINE mine == {x \in rows : KeyOf(x) = k /\ x.day = d}
           later == {x \in rows' : KeyOf(x) = k /\ x.day = d}
<1>1. later = mine
  OBVIOUS
<1>2. DayViews(rows, k, d) = ViewsOf(mine) /\ DayViews(rows', k, d) = ViewsOf(later)
  BY DEF DayViews, ViewsOf
<1> HIDE DEF mine, later
<1> QED
  BY <1>1, <1>2
LEMMA AnnouncesStep ==
    ASSUME BaseInv, StaleInv, NEW r \in Requests, RequestStep(r), NEW q \in Requests
    PROVE  Announces(q)'
<1> USE DEF BaseInv
<1>1. body' = body /\ Announces(q) /\ OnPath(q) /\ Sound(body[q])
  BY OwnState DEF StaleInv, TypeInv
<1>2. CASE q # r
  <2>1. pc'[q] = pc[q] /\ seen'[q] = seen[q]
    BY <1>2, OwnState
  <2>2. touched'[q] \subseteq touched[q]
    BY <1>2, RowsChange
  <2> QED
    BY <1>1, <2>1, <2>2 DEF Announces, UnderWay, Unannounced
<1>3. CASE q = r
  <2>1. CASE Start(r) \/ Read(r)
    <3>1. touched'[r] = {}
      BY <1>1, <1>3, <2>1 DEF Start, Read, Announces
    <3> QED
      BY <1>3, <3>1 DEF Announces
  <2>2. CASE Add(r)
    <3> DEFINE x == [id |-> r, user |-> body[r].user, place |-> body[r].place,
                     day |-> body[r].day, hours |-> body[r].hours]
    <3>1. Change(r, rows \cup {x}) /\ seen' = [seen EXCEPT ![r] = {x}]
      BY <2>2 DEF Add
    <3> HIDE DEF x
    <3>2. touched'[r] \subseteq {<<KeyOf(x), x.day>>}
      BY <1>1, <1>3, <2>2, <3>1 DEF Add, Announces, Change, TypeInv, IsFunction
    <3>3. seen'[r] = {x} /\ pc'[r] = "invalidate"
      BY <2>2, <3>1 DEF Add, Goto, TypeInv, IsFunction
    <3> QED
      BY <1>3, <3>2, <3>3 DEF Announces, UnderWay, Answered
  <2>3. CASE Write(r)
    <3>1. \/ pc'[r] = "invalidate"
          \/ pc'[r] = "failed" /\ touched'[r] = {}
      BY <1>1, <1>3, <2>3 DEF Write, Goto, TypeInv, Announces
    <3>2. body[r].op = "put"
      BY <1>1, <1>3, <2>3 DEF Write, OnPath
    <3> QED
      BY <1>1, <1>3, <3>1, <3>2 DEF Announces, UnderWay, Answered
  <2>4. CASE Invalidate(r)
    <3>1. /\ pc'[r] = "ok" /\ seen' = seen
          /\ \A k, d : <<k, d>> \in touched'[r] => \A x \in seen[r] : KeyOf(x) # k
      BY <1>3, <2>4 DEF Invalidate, Goto, TypeInv, Delete
    <3>2. touched'[r] \subseteq touched[r]
      BY <2>4 DEF Invalidate, Delete
    <3>3. body[r].op = "put" \/ \A k, d : <<k, d>> \notin touched'[r]
      BY <1>1, <1>3, <2>4, <3>1, <3>2 DEF Announces, OnPath, Invalidate
    <3> QED
      BY <1>1, <1>3, <3>1, <3>3 DEF Announces, Unannounced
  <2>5. CASE Gather(r) \/ Forget(r) \/ Remove(r) \/ Clean(r) \/ Leave(r) \/ Revise(r)
    <3>1. body[r].op \in {"drop", "away", "move"}
      BY <1>1, <1>3, <2>5 DEF OnPath, Gather, Forget, Remove, Clean, Leave, Revise
    <3>2. pc'[r] \notin {"idle", "add", "put", "write", "back", "invalidate"}
      BY <2>5 DEF Gather, Forget, Remove, Clean, Leave, Revise, Goto, TypeInv
    <3> QED
      BY <1>1, <1>3, <3>1, <3>2 DEF Announces, Unannounced
  <2>6. CASE Return(r)
    BY <1>1, <1>3, <2>6 DEF Return, Announces, Goto, TypeInv
  <2>7. CASE Fails(r)
    BY <1>1, <1>3, <2>7 DEF Fails, Announces, Unannounced, Goto, TypeInv
  <2> QED
    BY <1>3, <2>1, <2>2, <2>3, <2>4, <2>5, <2>6, <2>7 DEF RequestStep
<1> QED
  BY <1>2, <1>3
LEMMA FreshStep ==
    ASSUME BaseInv, StaleInv, NEW r \in Requests, RequestStep(r)
    PROVE  /\ \A k \in Key : Agrees(cache[k].map, cache[k].late, k)'
           /\ \A d \in Readers : FreshReader(d)'
<1> USE DEF BaseInv
<1>1. CASE Invalidate(r) \/ Forget(r)
  <2>1. PICK keys : Delete(keys)
    BY <1>1 DEF Invalidate, Forget
  <2>2. rows' = rows
    BY <1>1 DEF Invalidate, Forget
  <2>3. \A k, d : k \notin keys /\ Touched(k, d) => Touched(k, d)'
    BY <2>1 DEF Delete, Touched
  <2>4. ASSUME NEW k \in Key PROVE Agrees(cache[k].map, cache[k].late, k)'
    <3>1. CASE k \in keys
      <4>1. cache'[k] = Empty
        BY <2>1, <3>1 DEF Delete
      <4> QED
        BY <4>1 DEF Agrees, Empty, NoDays
    <3>2. CASE k \notin keys
      <4>1. cache'[k] = cache[k] /\ Agrees(cache[k].map, cache[k].late, k)
        BY <2>1, <3>2 DEF Delete, StaleInv
      <4> QED
        BY <2>2, <2>3, <3>2, <4>1 DEF Agrees
    <3> QED
      BY <3>1, <3>2
  <2>5. ASSUME NEW d \in Readers PROVE FreshReader(d)'
    <3>1. FreshReader(d)
      BY DEF StaleInv
    <3>2. reader'[d] = IF reader[d].pc # "idle" /\ reader[d].key \in keys
                       THEN [reader[d] EXCEPT !.late = @ \cup DOMAIN reader[d].old
                                                         \cup DOMAIN reader[d].patch]
                       ELSE reader[d]
      BY <2>1 DEF Delete
    <3>3. CASE reader[d].pc # "idle" /\ reader[d].key \in keys
      BY <3>1, <3>2, <3>3 DEF FreshReader, Agrees, Over
    <3>4. CASE ~(reader[d].pc # "idle" /\ reader[d].key \in keys)
      BY <2>2, <2>3, <3>1, <3>2, <3>4 DEF FreshReader, Agrees
    <3> QED
      BY <3>3, <3>4
  <2> QED
    BY <2>4, <2>5
<1>2. CASE ~(Invalidate(r) \/ Forget(r))
  <2>1. cache' = cache /\ reader' = reader
    <3>1. CASE Start(r) \/ Add(r) \/ Read(r) \/ Write(r) \/ Gather(r)
      BY <3>1 DEF Start, Add, Read, Write, Gather
    <3>2. CASE Remove(r) \/ Clean(r) \/ Leave(r) \/ Revise(r) \/ Return(r) \/ Fails(r)
      BY <3>2 DEF Remove, Clean, Leave, Revise, Return, Fails
    <3> QED
      BY <1>2, <3>1, <3>2 DEF RequestStep
  <2>2. \A q \in Requests : touched[q] \subseteq touched'[q]
    <3>1. CASE Add(r) \/ Remove(r) \/ Clean(r)
      BY <3>1 DEF Add, Remove, Clean, Change, TypeInv, IsFunction
    <3>2. CASE Write(r)
      BY <3>2 DEF Write, Change, TypeInv, IsFunction
    <3>3. CASE Start(r) \/ Read(r) \/ Gather(r) \/ Leave(r) \/ Revise(r) \/ Return(r) \/ Fails(r)
      BY <3>3 DEF Start, Read, Gather, Leave, Revise, Return, Fails
    <3> QED
      BY <1>2, <3>1, <3>2, <3>3 DEF RequestStep
  <2>3. \A k, d : Touched(k, d) => Touched(k, d)'
    BY <2>2 DEF Touched
  <2>4. ASSUME NEW k, NEW d
        PROVE  DayViews(rows, k, d)' = DayViews(rows, k, d) \/ Touched(k, d)'
    <3>1. CASE <<k, d>> \in touched'[r]
      BY <3>1 DEF Touched
    <3>2. CASE <<k, d>> \notin touched'[r]
      <4>1. DayViews(rows', k, d) = DayViews(rows, k, d)
        BY <3>2, RowsChange, ViewsKept
      <4> QED
        BY <4>1 DEF DayViews
    <3> QED
      BY <3>1, <3>2
  <2> QED
    BY <2>1, <2>3, <2>4 DEF StaleInv, FreshReader, Agrees
<1> QED
  BY <1>1, <1>2
LEMMA FreshRead ==
    ASSUME BaseInv, StaleInv, ReaderStep
    PROVE  /\ \A k \in Key : Agrees(cache[k].map, cache[k].late, k)'
           /\ \A d \in Readers : FreshReader(d)'
<1> USE DEF BaseInv
<1>1. UNCHANGED <<rows, touched>>
  BY ReadersAlone
<1>2. \A map, late, k : Agrees(map, late, k)' <=> Agrees(map, late, k)
  BY <1>1 DEF Agrees, DayViews, Touched
<1>3. /\ \A k \in Key : Agrees(cache[k].map, cache[k].late, k)
      /\ \A d \in Readers : FreshReader(d)
  BY DEF StaleInv
<1>4. ASSUME NEW d \in Readers, Get(d)
      PROVE  /\ \A k \in Key : Agrees(cache[k].map, cache[k].late, k)'
             /\ \A e \in Readers : FreshReader(e)'
  <2>1. PICK k \in Key, want \in SUBSET Days : reader' = [reader EXCEPT ![d] =
            [Resting EXCEPT !.pc = "missed", !.key = k, !.want = want,
                            !.old = cache[k].map, !.late = cache[k].late]]
    BY <1>4 DEF Get
  <2>2. /\ reader'[d].key = k /\ reader'[d].old = cache[k].map
        /\ reader'[d].late = cache[k].late /\ reader'[d].patch = NoDays
        /\ \A e \in Readers \ {d} : reader'[e] = reader[e]
        /\ cache' = cache
    BY <1>4, <2>1 DEF Get, Resting, TypeInv, IsFunction
  <2>3. Agrees(Over(NoDays, cache[k].map), cache[k].late, k)
    BY <1>3 DEF Agrees, Over, NoDays
  <2> QED
    BY <1>2, <1>3, <2>2, <2>3 DEF FreshReader
<1>5. ASSUME NEW d \in Readers, Fetch(d)
      PROVE  /\ \A k \in Key : Agrees(cache[k].map, cache[k].late, k)'
             /\ \A e \in Readers : FreshReader(e)'
  <2>1. FreshReader(d) /\ reader[d].pc = "missed" /\ cache' = cache
    BY <1>3, <1>5 DEF Fetch
  <2>2. CASE reader' = [reader EXCEPT ![d] = Resting]
    BY <1>2, <1>3, <2>1, <2>2 DEF FreshReader, Resting, TypeInv, IsFunction
  <2>3. CASE reader' # [reader EXCEPT ![d] = Resting]
    <3> DEFINE k == reader[d].key
               want == reader[d].want
               old == reader[d].old
               missing == want \ DOMAIN old
               new == (IF Cardinality(missing) <= Few THEN missing ELSE want)
                      \cap Dated(rows, k)
    <3>1. PICK patch \in [new -> UNION {DayViews(rows, k, x) : x \in new}] :
              /\ \A x \in new : patch[x] \in DayViews(rows, k, x)
              /\ reader' = [reader EXCEPT ![d].pc = "filling", ![d].patch = patch,
                                          ![d].late = @ \ new]
      BY <1>5, <2>3 DEF Fetch
    <3>2. /\ reader'[d] = [reader[d] EXCEPT !.pc = "filling", !.patch = patch,
                                            !.late = @ \ new]
          /\ \A e \in Readers \ {d} : reader'[e] = reader[e]
      BY <3>1 DEF TypeInv, IsFunction
    <3> HIDE DEF new
    <3>3. DOMAIN patch = new
      BY <3>1
    <3>4. Agrees(Over(patch, old), reader[d].late \ new, k)
      <4>1. Agrees(Over(reader[d].patch, old), reader[d].late, k)
        BY <2>1 DEF FreshReader
      <4>2. reader[d].patch = NoDays
        BY <2>1 DEF FreshReader
      <4>3. ASSUME NEW x \in DOMAIN Over(patch, old)
            PROVE  \/ x \in reader[d].late \ new
                   \/ Over(patch, old)[x] \in DayViews(rows, k, x) \/ Touched(k, x)
        <5>1. CASE x \in new
          BY <3>1, <3>3, <5>1 DEF Over
        <5>2. CASE x \notin new
          <6>1. /\ x \in DOMAIN Over(reader[d].patch, old)
                /\ Over(patch, old)[x] = Over(reader[d].patch, old)[x]
            BY <3>3, <4>2, <4>3, <5>2 DEF Over, NoDays
          <6> QED
            BY <4>1, <5>2, <6>1 DEF Agrees
        <5> QED
          BY <5>1, <5>2
      <4> QED
        BY <4>3 DEF Agrees
    <3>5. FreshReader(d)'
      BY <1>2, <2>1, <3>2, <3>4 DEF FreshReader
    <3> QED
      BY <1>2, <1>3, <2>1, <3>2, <3>5 DEF FreshReader
  <2> QED
    BY <2>2, <2>3
<1>6. ASSUME NEW d \in Readers, Save(d)
      PROVE  /\ \A k \in Key : Agrees(cache[k].map, cache[k].late, k)'
             /\ \A e \in Readers : FreshReader(e)'
  <2>1. /\ FreshReader(d) /\ reader[d].pc = "filling"
        /\ cache' = [cache EXCEPT ![reader[d].key] =
               [map |-> Over(reader[d].patch, reader[d].old), late |-> reader[d].late]]
        /\ reader' = [reader EXCEPT ![d] = Resting]
    BY <1>3, <1>6 DEF Save
  <2>2. Agrees(Over(reader[d].patch, reader[d].old), reader[d].late, reader[d].key)
    BY <2>1 DEF FreshReader
  <2>3. \A k \in Key : Agrees(cache[k].map, cache[k].late, k)'
    BY <1>2, <1>3, <2>1, <2>2 DEF TypeInv, IsFunction
  <2>4. \A e \in Readers : FreshReader(e)'
    BY <1>2, <1>3, <2>1 DEF FreshReader, Resting, TypeInv, IsFunction
  <2> QED
    BY <2>3, <2>4
<1>7. ASSUME NEW k \in Key, Expire(k)
      PROVE  /\ \A l \in Key : Agrees(cache[l].map, cache[l].late, l)'
             /\ \A e \in Readers : FreshReader(e)'
  <2>1. /\ \A l \in Key : cache'[l] = IF l = k THEN Empty ELSE cache[l]
        /\ reader' = reader
    BY <1>7 DEF Expire, TypeInv, IsFunction
  <2>2. \A l : Agrees(Empty.map, Empty.late, l)
    BY DEF Agrees, Empty, NoDays
  <2> QED
    BY <1>2, <1>3, <2>1, <2>2 DEF FreshReader
<1>8. CASE UNCHANGED vars
  BY <1>2, <1>3, <1>8 DEF vars, FreshReader
<1> QED
  BY <1>4, <1>5, <1>6, <1>7, <1>8 DEF ReaderStep

LEMMA StaleStep == BaseInv /\ StaleInv /\ [Next]_vars => StaleInv'
<1> SUFFICES ASSUME BaseInv, StaleInv, [Next]_vars
             PROVE  StaleInv'
  OBVIOUS
<1>1. CASE ReaderStep
  <2>1. UNCHANGED <<rows, absences, events, groups, pc, body, seen, cut, met, touched>>
    BY <1>1, ReadersAlone
  <2>2. \A r \in Requests : Announces(r)'
    BY <2>1 DEF StaleInv, Announces, UnderWay, Unannounced
  <2> QED
    BY <1>1, <2>2, FreshRead DEF StaleInv
<1>2. ASSUME NEW r \in Requests, RequestStep(r)
      PROVE  StaleInv'
  BY <1>2, FreshStep, AnnouncesStep DEF StaleInv
<1> QED
  BY <1>1, <1>2, Steps

\* Redis disagrees with the rows of a date only before a request has deleted the key,
\* through a reader that read before a deletion, or after a change that no deletion of
\* the key follows, for any number of requests and readers.
THEOREM StaleDaysHaveCauses == Spec => []StaleDaysAreExplained
<1>1. StaleInv => StaleDaysAreExplained
  BY DEF StaleInv, Stale, Agrees, Touched, Announces, StaleDaysAreExplained
<1> QED
  BY <1>1, BaseInit, BaseStep, StaleInit, StaleStep, PTL DEF Spec
-----------------------------------------------------------------------------
(* Hours and the events that block the calendar for them. *)

IsRow(x) == DOMAIN x = {"id", "user", "place", "day", "hours"}

IsEvent(e) ==
    e = [id |-> e.id, kind |-> e.kind, user |-> e.user, place |-> e.place,
         days |-> e.days, hours |-> e.hours]

\* A patch keeps the id of a row, and its place unless it gives one.
LEMMA Patched ==
    ASSUME NEW x, IsRow(x), NEW b, Sound(b), b.op = "put"
    PROVE  /\ IsRow(Over(b.patch, x)) /\ Over(b.patch, x).id = x.id
           /\ "place" \in DOMAIN b.patch \/ Over(b.patch, x).place = x.place
BY DEF IsRow, Over, Sound

LEMMA Blocks ==
    ASSUME NEW x
    PROVE  /\ IsEvent(Block(x)) /\ Block(x).id = x.id /\ Block(x).kind = "block"
           /\ Block(x).place = x.place /\ [Block(x) EXCEPT !.place = x.place] = Block(x)
BY DEF IsEvent, Block

LEMMA EventFields ==
    ASSUME NEW e, IsEvent(e), NEW v
    PROVE  /\ IsEvent([e EXCEPT !.place = v]) /\ IsEvent([e EXCEPT !.days = v])
           /\ [e EXCEPT !.place = v].id = e.id /\ [e EXCEPT !.place = v].place = v
           /\ [e EXCEPT !.place = v].kind = e.kind
           /\ [e EXCEPT !.days = v].id = e.id /\ [e EXCEPT !.days = v].kind = e.kind
           /\ \A w : [[e EXCEPT !.place = v] EXCEPT !.place = w] = [e EXCEPT !.place = w]
<1>1. PICK i, k, u, p, d, h :
          e = [id |-> i, kind |-> k, user |-> u, place |-> p, days |-> d, hours |-> h]
  BY DEF IsEvent
<1>2. \A w : [e EXCEPT !.place = w] =
          [id |-> i, kind |-> k, user |-> u, place |-> w, days |-> d, hours |-> h]
  BY <1>1
<1>3. [e EXCEPT !.days = v] =
          [id |-> i, kind |-> k, user |-> u, place |-> p, days |-> v, hours |-> h]
  BY <1>1
<1>4. \A w : [[e EXCEPT !.place = v] EXCEPT !.place = w] = [e EXCEPT !.place = w]
  BY <1>2
<1>5. IsEvent([e EXCEPT !.place = v]) /\ IsEvent([e EXCEPT !.days = v])
  BY <1>2, <1>3 DEF IsEvent
<1> QED
  BY <1>1, <1>2, <1>3, <1>4, <1>5

\* The row of an id that a request gives has been added by that request.
Known(id) == id \in Requests => body[id].op = "add" /\ pc[id] \notin {"idle", "add"}

IdInv ==
    /\ \A x \in rows : IsRow(x) /\ Known(x.id)
    /\ \A x, y \in rows : x.id = y.id => x = y
    /\ \A e \in events : IsEvent(e)
    /\ \A a \in absences :
        /\ a.id \in Requests => body[a.id].op = "away"
        /\ \A x \in rows : x.id # a.id
    /\ \A a \in absences : DOMAIN a = {"id", "user", "days"}
    /\ \A r \in Requests : \A x \in seen[r] : IsRow(x) /\ Known(x.id)

\* Another update of the same row was under way.
Raced(r) == \E q \in Edits(body[r].id) : q # r /\ {r, q} \in met

\* The row is still as an update has read it, or gone, or was updated meanwhile.
ReadInv ==
    \A r \in Requests : pc[r] = "write" =>
        /\ seen[r] # {}
        /\ \A s \in seen[r] :
            /\ s.id = body[r].id
            /\ \A x \in rows : x.id = body[r].id => x = s \/ Raced(r)

\* The row's event, as BlocksMatchHours states it
HasBlock(x) ==
    \E e \in events :
        /\ e.id = x.id
        /\ \/ [e EXCEPT !.place = x.place] = Block(x)
           \/ \E r, s \in Edits(x.id) : r # s /\ {r, s} \in met
        /\ \/ e.place = x.place
           \/ \E r \in Edits(x.id) : "place" \in DOMAIN body[r].patch

\* A block event has its row, or an absence has deleted that.
HasRow(e) ==
    \/ \E x \in rows : x.id = e.id
    \/ \E r \in Requests : \E x \in cut[r] : x.id = e.id

HasEvent(g) ==
    \/ \E e \in events : e.id = g
    \/ \E r \in Requests : body[r].op = "back" /\ body[r].id = g

BlockInv ==
    /\ IdInv /\ ReadInv
    /\ \A x \in rows : HasBlock(x)
    /\ \A e \in events : e.kind = "block" => HasRow(e)
    /\ \A g \in groups : HasEvent(g)

LEMMA BlockInit == Init => BlockInv
<1> SUFFICES ASSUME Init PROVE BlockInv
  OBVIOUS
<1>1. PICK s \in Scenes :
        /\ rows = s.rows /\ absences = s.absences /\ body = s.body
        /\ events = {Block(x) : x \in s.rows} \cup
               {Away(x.id, x.user, CHOOSE p \in Places : TRUE, x.days) : x \in s.absences}
        /\ groups = {x.id : x \in s.rows \cup s.absences}
  BY DEF Init
<1>2. \A id, user, place, days : /\ IsEvent(Away(id, user, place, days))
                                 /\ Away(id, user, place, days).id = id
                                 /\ Away(id, user, place, days).kind = "absence"
  BY DEF Away, IsEvent
<1>3. IdInv
  <2>1. \A x \in rows : IsRow(x) /\ Known(x.id)
    BY <1>1 DEF IsRow, Known
  <2>2. \A x, y \in rows : x.id = y.id => x = y
    BY <1>1
  <2>3. \A e \in events : IsEvent(e)
    BY <1>1, <1>2, Blocks
  <2>4. \A a \in absences : /\ a.id \in Requests => body[a.id].op = "away"
                            /\ DOMAIN a = {"id", "user", "days"}
                            /\ \A x \in rows : x.id # a.id
    BY <1>1
  <2>5. \A r \in Requests : seen[r] = {}
    BY DEF Init
  <2> QED
    BY <2>1, <2>2, <2>3, <2>4, <2>5 DEF IdInv
<1>4. ReadInv
  BY DEF Init, ReadInv
<1>5. \A x \in rows : HasBlock(x)
  BY <1>1, Blocks DEF HasBlock
<1>6. \A e \in events : e.kind = "block" => HasRow(e)
  BY <1>1, <1>2, Blocks DEF HasRow
<1>7. \A g \in groups : HasEvent(g)
  <2>1. \A x \in s.rows : Block(x) \in events /\ Block(x).id = x.id
    BY <1>1, Blocks
  <2>2. ASSUME NEW x \in s.absences PROVE \E e \in events : e.id = x.id
    <3> DEFINE e == Away(x.id, x.user, CHOOSE p \in Places : TRUE, x.days)
    <3>1. e \in events
      BY <1>1
    <3>2. e.id = x.id
      BY <1>2
    <3> HIDE DEF e
    <3> QED
      BY <3>1, <3>2
  <2>3. ASSUME NEW g \in groups PROVE \E x \in s.rows \cup s.absences : g = x.id
    BY <1>1
  <2>4. ASSUME NEW g \in groups PROVE \E e \in events : e.id = g
    BY <2>1, <2>2, <2>3
  <2> QED
    BY <2>4 DEF HasEvent
<1> QED
  BY <1>3, <1>4, <1>5, <1>6, <1>7 DEF BlockInv
LEMMA KnownStays ==
    ASSUME BaseInv, NEW r \in Requests, RequestStep(r), NEW id, Known(id)
    PROVE  Known(id)'
<1>1. CASE id \in Requests \ {r}
  BY <1>1, OwnState DEF Known, BaseInv
<1>2. CASE id = r
  <2>1. pc[r] \notin {"idle", "add"} /\ body' = body /\ ~Start(r) /\ ~Add(r)
    BY <1>2, OwnState DEF Known, BaseInv, Start, Add
  <2>2. CASE Read(r) \/ Write(r) \/ Invalidate(r) \/ Gather(r)
    BY <1>2, <2>1, <2>2 DEF Read, Write, Invalidate, Gather, Goto, Known, BaseInv, TypeInv
  <2>3. CASE Forget(r) \/ Remove(r) \/ Clean(r)
    BY <1>2, <2>1, <2>3 DEF Forget, Remove, Clean, Goto, Known, BaseInv, TypeInv
  <2>4. CASE Leave(r) \/ Revise(r) \/ Return(r) \/ Fails(r)
    BY <1>2, <2>1, <2>4 DEF Leave, Revise, Return, Fails, Goto, Known, BaseInv, TypeInv
  <2> QED
    BY <2>1, <2>2, <2>3, <2>4 DEF RequestStep
<1> QED
  BY <1>1, <1>2 DEF Known

\* The row a request adds.
Added(r) == [id |-> r, user |-> body[r].user, place |-> body[r].place,
             day |-> body[r].day, hours |-> body[r].hours]

\* An update that fails writes nothing; one that succeeds writes one row z and the
\* events of its id, each from a row read before.
Writes(r, z) ==
    /\ rows' = (rows \ {z}) \cup {Over(body[r].patch, z)}
    /\ seen'[r] = {Over(body[r].patch, z)}
    /\ groups' = groups
    /\ \A e \in events : e.id # z.id => e \in events'
    /\ \A x \in seen[r], e \in events : e.id = z.id =>
          [Block(Over(body[r].patch, x)) EXCEPT !.place = e.place] \in events'
    /\ \A f \in events' :
          \/ f \in events /\ f.id # z.id
          \/ \E x \in seen[r], e \in events : /\ e.id = z.id
                 /\ f = [Block(Over(body[r].patch, x)) EXCEPT !.place = e.place]

LEMMA WriteShape ==
    ASSUME BaseInv, IdInv, NEW r \in Requests, Write(r)
    PROVE  \/ UNCHANGED <<rows, events, groups, seen>>
           \/ \E z \in rows : z.id = body[r].id /\ Writes(r, z)
<1> DEFINE event == {e \in events : e.id = body[r].id}
           row == {x \in rows : x.id = body[r].id}
<1>1. CASE event = {} \/ row = {}
  BY <1>1 DEF Write, calendar
<1>2. CASE ~(event = {} \/ row = {})
  <2>1. PICK z \in rows : z.id = body[r].id
    BY <1>2
  <2>2. row = {z}
    BY <2>1 DEF IdInv
  <2>3. /\ rows' = (rows \ row) \cup {Over(body[r].patch, x) : x \in row}
        /\ events' = (events \ event) \cup
             {[Block(Effective(x, body[r])) EXCEPT !.place = e.place] :
                 x \in seen[r], e \in event}
        /\ groups' = groups
        /\ seen'[r] = {Over(body[r].patch, x) : x \in row}
    BY <1>2 DEF Write, Change, BaseInv, TypeInv, IsFunction
  <2>4. {Over(body[r].patch, x) : x \in row} = {Over(body[r].patch, z)}
    BY <2>2
  <2>5. \A e \in events : e.id # z.id => e \in events'
    BY <2>1, <2>3
  <2>6. \A x \in seen[r], e \in events : e.id = z.id =>
            [Block(Over(body[r].patch, x)) EXCEPT !.place = e.place] \in events'
    BY <2>1, <2>3 DEF Effective
  <2>7. \A f \in events' :
          \/ f \in events /\ f.id # z.id
          \/ \E x \in seen[r], e \in events : /\ e.id = z.id
                 /\ f = [Block(Over(body[r].patch, x)) EXCEPT !.place = e.place]
    BY <2>1, <2>3 DEF Effective
  <2>8. Writes(r, z)
    BY <2>2, <2>3, <2>4, <2>5, <2>6, <2>7 DEF Writes
  <2> QED
    BY <2>1, <2>8
<1> HIDE DEF event, row
<1> QED
  BY <1>1, <1>2

\* The revision of an absence replaces its row and its event.
LEMMA ReviseShape ==
    ASSUME IdInv, NEW r \in Requests, Revise(r)
    PROVE  /\ \A a \in absences' : a \in absences \/ \E o \in absences :
                 a = [o EXCEPT !.user = body[r].user, !.days = body[r].days]
           /\ \A e \in events' : e \in events \/ \E f \in events :
                 e = [f EXCEPT !.days = body[r].days]
           /\ \A e \in events : (\A a \in absences : a.id # e.id) => e \in events'
           /\ \A e \in events :
                 e \in events' \/ [e EXCEPT !.days = body[r].days] \in events'
           /\ groups' = groups /\ rows' = rows
<1> DEFINE b == body[r]
           old == {x \in absences : x.id = b.id}
           event == {e \in events : e.id = b.id}
<1>1. CASE old = {} \/ event = {}
  BY <1>1 DEF Revise, calendar
<1>2. CASE ~(old = {} \/ event = {})
  <2>1. /\ absences' = (absences \ old) \cup
              {[x EXCEPT !.user = b.user, !.days = b.days] : x \in old}
        /\ events' = (events \ event) \cup {[e EXCEPT !.days = b.days] : e \in event}
        /\ groups' = groups /\ rows' = rows
    BY <1>2 DEF Revise
  <2>2. \E a \in absences : a.id = b.id
    BY <1>2
  <2>3. \A a \in absences' : a \in absences \/ \E o \in absences :
            a = [o EXCEPT !.user = b.user, !.days = b.days]
    BY <2>1
  <2>4. \A e \in events' : e \in events \/ \E f \in events :
            e = [f EXCEPT !.days = b.days]
    BY <2>1
  <2> QED
    BY <2>1, <2>2, <2>3, <2>4
<1> HIDE DEF old, event
<1> QED
  BY <1>1, <1>2

LEMMA RowsStep ==
    ASSUME BaseInv, IdInv, NEW r \in Requests, RequestStep(r)
    PROVE  /\ \A x \in rows' : IsRow(x) /\ Known(x.id)'
           /\ \A x, y \in rows' : x.id = y.id => x = y
           /\ \A q \in Requests : \A x \in seen'[q] : IsRow(x) /\ Known(x.id)'
           /\ \A x \in rows' : \/ \E y \in rows : x.id = y.id
                               \/ Add(r) /\ x = Added(r)
<1>1. \A id : Known(id) => Known(id)'
  BY KnownStays
<1>2. /\ \A x \in rows : IsRow(x) /\ Known(x.id)
      /\ \A x, y \in rows : x.id = y.id => x = y
      /\ \A q \in Requests : \A x \in seen[q] : IsRow(x) /\ Known(x.id)
  BY DEF IdInv
<1>3. \A q \in Requests \ {r} : seen'[q] = seen[q]
  BY OwnState DEF BaseInv
<1>4. CASE Start(r) \/ Invalidate(r) \/ Forget(r) \/ Leave(r) \/ Revise(r) \/ Return(r) \/ Fails(r)
  <2>1. rows' = rows /\ seen' = seen
    BY <1>4 DEF Start, Invalidate, Forget, Leave, Revise, Return, Fails
  <2> QED
    BY <1>1, <1>2, <2>1
<1>5. CASE Read(r) \/ Gather(r)
  <2>1. rows' = rows /\ seen'[r] \subseteq rows
    BY <1>5 DEF Read, Gather, BaseInv, TypeInv, IsFunction
  <2> QED
    BY <1>1, <1>2, <1>3, <2>1
<1>6. CASE Remove(r) \/ Clean(r)
  <2>1. rows' \subseteq rows /\ seen' = seen
    BY <1>6 DEF Remove, Clean, Change
  <2> QED
    BY <1>1, <1>2, <2>1
<1>7. CASE Add(r)
  <2>1. /\ rows' = rows \cup {Added(r)} /\ seen'[r] = {Added(r)}
        /\ pc[r] = "add" /\ pc'[r] = "invalidate" /\ body' = body
    BY <1>7 DEF Add, Added, Change, Goto, BaseInv, TypeInv, IsFunction
  <2>2. IsRow(Added(r)) /\ Added(r).id = r
    BY DEF IsRow, Added
  <2>3. Known(r)' /\ ~Known(r)
    BY <2>1 DEF Known, BaseInv, OnPath
  <2> QED
    BY <1>1, <1>2, <1>3, <1>7, <2>1, <2>2, <2>3
<1>8. CASE Write(r)
  <2>1. CASE UNCHANGED <<rows, events, groups, seen>>
    BY <1>1, <1>2, <2>1
  <2>2. ASSUME NEW z \in rows, Writes(r, z)
        PROVE  /\ \A x \in rows' : IsRow(x) /\ Known(x.id)'
               /\ \A x, y \in rows' : x.id = y.id => x = y
               /\ \A q \in Requests : \A x \in seen'[q] : IsRow(x) /\ Known(x.id)'
               /\ \A x \in rows' : \E y \in rows : x.id = y.id
    <3>1. body[r].op = "put" /\ Sound(body[r])
      BY <1>8 DEF Write, BaseInv, OnPath, TypeInv
    <3>2. IsRow(Over(body[r].patch, z)) /\ Over(body[r].patch, z).id = z.id
      BY <1>2, <3>1, Patched
    <3> QED
      BY <1>1, <1>2, <1>3, <2>2, <3>2 DEF Writes
  <2> QED
    BY <1>8, <2>1, <2>2, WriteShape
<1> QED
  BY <1>4, <1>5, <1>6, <1>7, <1>8 DEF RequestStep

LEMMA IdStep == BaseInv /\ IdInv /\ [Next]_vars => IdInv'
<1> SUFFICES ASSUME BaseInv, IdInv, [Next]_vars
             PROVE  IdInv'
  OBVIOUS
<1>1. CASE ReaderStep
  BY <1>1, ReadersAlone DEF IdInv, Known
<1>2. ASSUME NEW r \in Requests, RequestStep(r)
      PROVE  IdInv'
  <2>1. body' = body
    BY <1>2, OwnState DEF BaseInv
  <2>2. \A e \in events' : IsEvent(e)
    <3>1. \A e \in events : IsEvent(e)
      BY DEF IdInv
    <3>2. CASE Start(r) \/ Read(r) \/ Invalidate(r) \/ Gather(r) \/ Forget(r) \/ Clean(r)
      BY <3>1, <3>2 DEF Start, Read, Invalidate, Gather, Forget, Clean, calendar
    <3>3. CASE Add(r)
      BY <3>1, <3>3, Blocks DEF Add
    <3>4. CASE Write(r)
      <4>1. ASSUME NEW z \in rows, Writes(r, z), NEW f \in events'
            PROVE  IsEvent(f)
        <5>1. CASE f \in events
          BY <3>1, <5>1
        <5>2. CASE f \notin events
          <6>1. PICK x \in seen[r], e \in events :
                    f = [Block(Over(body[r].patch, x)) EXCEPT !.place = e.place]
            BY <4>1, <5>2 DEF Writes
          <6> QED
            BY <6>1, Blocks, EventFields
        <5> QED
          BY <5>1, <5>2
      <4> QED
        BY <3>1, <3>4, <4>1, WriteShape
    <3>5. CASE Remove(r) \/ Return(r) \/ Fails(r)
      BY <3>1, <3>5 DEF Remove, Return, Fails, WithoutBlocks, calendar
    <3>6. CASE Leave(r)
      BY <3>1, <3>6 DEF Leave, Away, IsEvent
    <3>7. CASE Revise(r)
      <4>1. ASSUME NEW e \in events', e \notin events
            PROVE  IsEvent(e)
        <5>1. PICK f \in events : e = [f EXCEPT !.days = body[r].days]
          BY <3>7, <4>1, ReviseShape
        <5> QED
          BY <3>1, <5>1, EventFields
      <4> QED
        BY <3>1, <4>1
    <3> QED
      BY <1>2, <3>2, <3>3, <3>4, <3>5, <3>6, <3>7 DEF RequestStep
  <2>3. \A a \in absences' : /\ DOMAIN a = {"id", "user", "days"}
                             /\ \/ \E o \in absences : a.id = o.id
                                \/ Leave(r) /\ a.id = r
    <3>1. \A a \in absences : DOMAIN a = {"id", "user", "days"}
      BY DEF IdInv
    <3>2. CASE Leave(r)
      BY <3>1, <3>2 DEF Leave
    <3>3. CASE Revise(r)
      <4>1. \A a \in absences' : a \in absences \/ \E o \in absences :
                a = [o EXCEPT !.user = body[r].user, !.days = body[r].days]
        BY <3>3, ReviseShape
      <4>2. ASSUME NEW a \in absences', a \notin absences
            PROVE  DOMAIN a = {"id", "user", "days"} /\ \E o \in absences : a.id = o.id
        <5>1. PICK o \in absences :
                  a = [o EXCEPT !.user = body[r].user, !.days = body[r].days]
          BY <4>1, <4>2
        <5>2. DOMAIN o = {"id", "user", "days"}
          BY <3>1
        <5>3. a.id = o.id /\ DOMAIN a = {"id", "user", "days"}
          BY <5>1, <5>2
        <5> QED
          BY <5>3
      <4> QED
        BY <3>1, <4>2
    <3>4. CASE Return(r) \/ Fails(r)
      BY <3>1, <3>4 DEF Return, Fails, calendar
    <3>5. CASE Start(r) \/ Read(r) \/ Invalidate(r) \/ Gather(r) \/ Forget(r)
      BY <3>1, <3>5 DEF Start, Read, Invalidate, Gather, Forget, calendar
    <3>6. CASE Clean(r) \/ Add(r) \/ Write(r) \/ Remove(r)
      BY <3>1, <3>6 DEF Clean, Add, Write, Remove, calendar
    <3> QED
      BY <1>2, <3>2, <3>3, <3>4, <3>5, <3>6 DEF RequestStep
  <2>4. /\ Leave(r) => body[r].op = "away" /\ rows' = rows
        /\ Add(r) => body[r].op = "add" /\ Added(r).id = r /\ absences' = absences
    BY DEF BaseInv, OnPath, Leave, Add, Added
  <2>5. ~(Leave(r) /\ Add(r))
    BY DEF Leave, Add
  <2>6. \A a \in absences' : /\ a.id \in Requests => body'[a.id].op = "away"
                             /\ \A x \in rows' : x.id # a.id
    BY <1>2, <2>1, <2>3, <2>4, <2>5, RowsStep DEF IdInv, Known
  <2> QED
    BY <1>2, <2>2, <2>3, <2>6, RowsStep DEF IdInv
<1> QED
  BY <1>1, <1>2, Steps
LEMMA ReadStep ==
    ASSUME BaseInv, IdInv, ReadInv, NEW r \in Requests, RequestStep(r)
    PROVE  ReadInv' /\ \A q \in Requests : Raced(q) => Raced(q)'
<1>1. \A q \in Requests : Raced(q) => Raced(q)'
  BY OwnState DEF Raced, Edits, BaseInv
<1>2. body' = body
  BY OwnState DEF BaseInv
<1> SUFFICES ASSUME NEW q \in Requests, pc'[q] = "write"
             PROVE  /\ seen'[q] # {}
                    /\ \A s \in seen'[q] :
                        /\ s.id = body[q].id
                        /\ \A x \in rows' : x.id = body[q].id => x = s \/ Raced(q)'
  BY <1>1, <1>2 DEF ReadInv
<1>3. CASE q = r
  <2>1. Read(r)
    <3>1. CASE Start(r) \/ Add(r) \/ Invalidate(r) \/ Gather(r) \/ Forget(r)
      BY <1>3, <3>1 DEF Start, Sound, Add, Invalidate, Gather, Forget, Goto, BaseInv,
         TypeInv
    <3>2. CASE Write(r) \/ Remove(r)
      BY <1>3, <3>2 DEF Write, Remove, Goto, BaseInv, TypeInv
    <3>3. CASE Clean(r) \/ Leave(r) \/ Revise(r) \/ Return(r) \/ Fails(r)
      BY <1>3, <3>3 DEF Clean, Leave, Revise, Return, Fails, Goto, BaseInv, TypeInv
    <3> QED
      BY <3>1, <3>2, <3>3 DEF RequestStep
  <2>2. /\ rows' = rows /\ seen'[r] = {x \in rows : x.id = body[r].id}
        /\ seen'[r] # {}
    BY <1>3, <2>1 DEF Read, Goto, BaseInv, TypeInv, IsFunction
  <2> QED
    BY <1>3, <2>2 DEF IdInv
<1>4. CASE q # r
  <2>1. /\ pc[q] = "write" /\ seen'[q] = seen[q] /\ seen[q] # {}
        /\ \A s \in seen[q] :
             /\ s.id = body[q].id /\ Known(s.id)
             /\ \A x \in rows : x.id = body[q].id => x = s \/ Raced(q)
    BY <1>4, OwnState DEF BaseInv, ReadInv, IdInv
  <2>2. CASE Write(r)
    <3>1. CASE rows' = rows
      BY <1>1, <2>1, <3>1
    <3>2. ASSUME NEW z \in rows, z.id = body[r].id, Writes(r, z)
          PROVE  \A s \in seen[q] : \A x \in rows' :
                     x.id = body[q].id => x = s \/ Raced(q)'
      <4>1. /\ body[r].op = "put" /\ Sound(body[r]) /\ pc[r] = "write"
            /\ body[q].op = "put" /\ UnderWay(r) /\ UnderWay(q)
        BY <2>1, <2>2 DEF Write, BaseInv, OnPath, TypeInv, UnderWay, Answered
      <4>2. Over(body[r].patch, z).id = body[r].id
        BY <3>2, <4>1, Patched DEF IdInv
      <4>3. body[q].id = body[r].id => Raced(q)
        BY <1>4, <4>1 DEF Raced, Edits, BaseInv, MetInv
      <4> QED
        BY <1>1, <2>1, <3>2, <4>2, <4>3 DEF Writes
    <3> QED
      BY <2>1, <2>2, <3>1, <3>2, WriteShape
  <2>3. CASE Add(r)
    <3>1. rows' = rows \cup {Added(r)} /\ Added(r).id = r /\ ~Known(r)
      BY <2>3 DEF Add, Added, Change, Known
    <3> QED
      BY <1>1, <2>1, <3>1
  <2>4. CASE ~Write(r) /\ ~Add(r)
    <3>1. ASSUME NEW x \in rows'
          PROVE  x \in rows
      <4>1. CASE Start(r) \/ Read(r) \/ Invalidate(r) \/ Gather(r) \/ Forget(r)
        BY <4>1 DEF Start, Read, Invalidate, Gather, Forget
      <4>2. CASE Remove(r) \/ Clean(r)
        BY <4>2 DEF Remove, Clean, Change
      <4>3. CASE Leave(r) \/ Revise(r) \/ Return(r) \/ Fails(r)
        BY <4>3 DEF Leave, Revise, Return, Fails
      <4> QED
        BY <2>4, <4>1, <4>2, <4>3 DEF RequestStep
    <3> QED
      BY <1>1, <2>1, <3>1
  <2> QED
    BY <2>2, <2>3, <2>4
<1> QED
  BY <1>3, <1>4

\* Only an update replaces the events of a row that stays.
LEMMA BlocksKept ==
    ASSUME BaseInv, IdInv, NEW r \in Requests, RequestStep(r), ~Write(r),
           NEW x \in rows, x \in rows', NEW e \in events, e.id = x.id
    PROVE  e \in events'
<1>1. CASE Start(r) \/ Read(r) \/ Invalidate(r) \/ Gather(r) \/ Forget(r) \/ Clean(r)
  BY <1>1 DEF Start, Read, Invalidate, Gather, Forget, Clean, calendar
<1>2. CASE Add(r) \/ Leave(r)
  BY <1>2 DEF Add, Leave
<1>3. CASE Remove(r)
  BY <1>3 DEF Remove, Change, WithoutBlocks
<1>4. CASE Revise(r)
  BY <1>4, ReviseShape DEF IdInv
<1>5. CASE Return(r) \/ Fails(r)
  BY <1>5 DEF Return, Fails, IdInv, calendar
<1> QED
  BY <1>1, <1>2, <1>3, <1>4, <1>5 DEF RequestStep

LEMMA HasBlockStep ==
    ASSUME BaseInv, IdInv, ReadInv, \A x \in rows : HasBlock(x),
           NEW r \in Requests, RequestStep(r)
    PROVE  \A x \in rows' : HasBlock(x)'
<1>1. body' = body /\ met \subseteq met'
  BY OwnState DEF BaseInv
<1>2. ASSUME NEW x \in rows, HasBlock(x), \A e \in events : e.id = x.id => e \in events'
      PROVE  HasBlock(x)'
  BY <1>1, <1>2 DEF HasBlock, Edits
<1>3. CASE Write(r)
  <2>1. CASE UNCHANGED <<rows, events, groups, seen>>
    BY <1>2, <2>1
  <2>2. ASSUME NEW z \in rows, z.id = body[r].id, Writes(r, z)
        PROVE  \A x \in rows' : HasBlock(x)'
    <3>1. PICK n : n = Over(body[r].patch, z)
      OBVIOUS
    <3>2. /\ body[r].op = "put" /\ Sound(body[r]) /\ pc[r] = "write" /\ IsRow(z)
          /\ r \in Edits(z.id)
      BY <1>3, <2>2 DEF Write, BaseInv, OnPath, TypeInv, IdInv, Edits
    <3>3. n.id = z.id /\ ("place" \in DOMAIN body[r].patch \/ n.place = z.place)
      BY <3>2, <3>1, Patched
    <3>4. PICK o \in events :
              /\ o.id = z.id
              /\ \/ o.place = z.place
                 \/ \E q \in Edits(z.id) : "place" \in DOMAIN body[q].patch
      BY DEF HasBlock
    <3>5. PICK s \in seen[r] : s.id = z.id /\ IsRow(s) /\ (z = s \/ Raced(r))
      BY <2>2, <3>2 DEF ReadInv, IdInv
    <3>6. PICK m : m = Over(body[r].patch, s)
      OBVIOUS
    <3>7. PICK e : e = [Block(m) EXCEPT !.place = o.place]
      OBVIOUS
    <3>8. m.id = s.id
      BY <3>2, <3>5, <3>6, Patched
    <3>9. e \in events'
      BY <2>2, <3>4, <3>6, <3>7 DEF Writes
    <3>10. /\ e.id = m.id /\ e.place = o.place
          /\ \A w : [e EXCEPT !.place = w] = [Block(m) EXCEPT !.place = w]
      <4>1. PICK c : c = Block(m) /\ IsEvent(c) /\ c.id = m.id
        BY Blocks
      <4>2. /\ [c EXCEPT !.place = o.place].id = c.id
            /\ [c EXCEPT !.place = o.place].place = o.place
            /\ \A w : [[c EXCEPT !.place = o.place] EXCEPT !.place = w] =
                     [c EXCEPT !.place = w]
        BY <4>1 DEF IsEvent
      <4> QED
        BY <3>7, <4>1, <4>2
    <3>11. z = s => [e EXCEPT !.place = n.place] = Block(n)
      BY <3>10, <3>1, <3>6, Blocks
    <3>12. Raced(r) => \E p, q \in Edits(z.id) : p # q /\ {p, q} \in met
      BY <2>2, <3>2 DEF Raced
    <3>13. e.id = n.id
      BY <3>3, <3>5, <3>8, <3>10
    <3>14. \/ [e EXCEPT !.place = n.place] = Block(n)
           \/ \E p, q \in Edits(n.id) : p # q /\ {p, q} \in met
      BY <3>3, <3>5, <3>11, <3>12
    <3>15. \/ e.place = n.place
           \/ \E q \in Edits(n.id) : "place" \in DOMAIN body[q].patch
      BY <3>2, <3>3, <3>4, <3>10
    <3>16. HasBlock(n)'
      BY <1>1, <3>9, <3>13, <3>14, <3>15 DEF HasBlock, Edits
    <3>17. ASSUME NEW x \in rows, x # z
           PROVE  HasBlock(x)'
      <4>1. x.id # z.id
        BY <3>17 DEF IdInv
      <4> QED
        BY <1>2, <2>2, <4>1 DEF Writes
    <3> QED
      BY <2>2, <3>16, <3>17, <3>1 DEF Writes
  <2> QED
    BY <1>3, <2>1, <2>2, WriteShape
<1>4. CASE Add(r)
  <2>1. PICK x : x = Added(r) /\ rows' = rows \cup {x} /\ events' = events \cup {Block(x)}
    BY <1>4 DEF Add, Added, Change
  <2>2. HasBlock(x)'
    BY <2>1, Blocks DEF HasBlock
  <2> QED
    BY <1>2, <2>1, <2>2
<1>5. CASE ~Write(r) /\ ~Add(r)
  <2>1. ASSUME NEW x \in rows'
        PROVE  x \in rows
    <3>1. CASE Start(r) \/ Read(r) \/ Invalidate(r) \/ Gather(r) \/ Forget(r)
      BY <3>1 DEF Start, Read, Invalidate, Gather, Forget
    <3>2. CASE Remove(r) \/ Clean(r)
      BY <3>2 DEF Remove, Clean, Change
    <3>3. CASE Leave(r) \/ Revise(r) \/ Return(r) \/ Fails(r)
      BY <3>3 DEF Leave, Revise, Return, Fails
    <3> QED
      BY <1>5, <3>1, <3>2, <3>3 DEF RequestStep
  <2> QED
    BY <1>2, <1>5, <2>1, BlocksKept
<1> QED
  BY <1>3, <1>4, <1>5
\* Where the events after a step come from.
LEMMA EventsFrom ==
    ASSUME BaseInv, IdInv, ReadInv, NEW r \in Requests, RequestStep(r), NEW e \in events'
    PROVE  \/ e \in events
           \/ e.kind # "block"
           \/ \E f \in events : e.id = f.id /\ e.kind = f.kind
           \/ \E x \in rows' : e.id = x.id
<1>1. CASE Start(r) \/ Read(r) \/ Invalidate(r) \/ Gather(r) \/ Forget(r) \/ Clean(r)
  BY <1>1 DEF Start, Read, Invalidate, Gather, Forget, Clean, calendar
<1>2. CASE Remove(r) \/ Return(r) \/ Fails(r)
  BY <1>2 DEF Remove, Return, Fails, WithoutBlocks, calendar
<1>3. CASE Add(r)
  <2>1. PICK x : /\ x = Added(r) /\ rows' = rows \cup {x}
                 /\ events' = events \cup {Block(x)}
    BY <1>3 DEF Add, Added, Change
  <2> QED
    BY <2>1, Blocks
<1>4. CASE Leave(r)
  BY <1>4 DEF Leave, Away
<1>5. CASE Revise(r)
  <2>1. CASE e \notin events
    <3>1. PICK f \in events : e = [f EXCEPT !.days = body[r].days]
      BY <1>5, <2>1, ReviseShape
    <3> QED
      BY <3>1 DEF IdInv, IsEvent
  <2> QED
    BY <2>1
<1>6. CASE Write(r)
  <2>1. ASSUME NEW z \in rows, z.id = body[r].id, Writes(r, z), e \notin events
        PROVE  \E x \in rows' : e.id = x.id
    <3>1. body[r].op = "put" /\ Sound(body[r]) /\ IsRow(z)
      BY <1>6 DEF Write, BaseInv, OnPath, TypeInv, IdInv
    <3>2. PICK o \in events :
              o.id = z.id /\ \E x \in seen[r] :
                  e = [Block(Over(body[r].patch, x)) EXCEPT !.place = o.place]
      BY <2>1 DEF Writes
    <3>3. PICK x \in seen[r] :
              e = [Block(Over(body[r].patch, x)) EXCEPT !.place = o.place]
      BY <3>2
    <3>4. x.id = z.id /\ IsRow(x)
      BY <1>6, <2>1 DEF Write, ReadInv, IdInv
    <3>5. /\ Over(body[r].patch, x).id = z.id
          /\ Over(body[r].patch, z).id = z.id
      BY <3>1, <3>4, Patched
    <3>6. e.id = Over(body[r].patch, x).id
      BY <3>3 DEF Block
    <3> QED
      BY <2>1, <3>5, <3>6 DEF Writes
  <2> QED
    BY <1>6, <2>1, WriteShape
<1> QED
  BY <1>1, <1>2, <1>3, <1>4, <1>5, <1>6 DEF RequestStep

LEMMA HasRowStep ==
    ASSUME BaseInv, IdInv, ReadInv, \A e \in events : e.kind = "block" => HasRow(e),
           NEW r \in Requests, RequestStep(r)
    PROVE  \A e \in events' : e.kind = "block" => HasRow(e)'
<1>1. \A q \in Requests : cut[q] \subseteq cut'[q]
  <2>1. CASE Clean(r)
    BY <2>1, OwnState DEF Clean, BaseInv, OnPath
  <2>2. CASE ~Clean(r)
    <3>1. CASE Start(r) \/ Add(r) \/ Read(r) \/ Write(r) \/ Invalidate(r) \/ Gather(r)
      BY <3>1 DEF Start, Add, Read, Write, Invalidate, Gather
    <3>2. CASE Forget(r) \/ Remove(r) \/ Leave(r) \/ Revise(r) \/ Return(r) \/ Fails(r)
      BY <3>2 DEF Forget, Remove, Leave, Revise, Return, Fails
    <3> QED
      BY <2>2, <3>1, <3>2 DEF RequestStep
  <2> QED
    BY <2>1, <2>2
<1>2. ASSUME NEW x \in rows
      PROVE  \/ \E y \in rows' : y.id = x.id
             \/ x \in cut'[r]
             \/ \A e \in events' : e \in events /\ e.id # x.id
  <2>1. CASE Start(r) \/ Read(r) \/ Invalidate(r) \/ Gather(r) \/ Forget(r)
    BY <2>1 DEF Start, Read, Invalidate, Gather, Forget
  <2>2. CASE Leave(r) \/ Revise(r) \/ Return(r) \/ Fails(r)
    BY <2>2 DEF Leave, Revise, Return, Fails
  <2>3. CASE Add(r)
    BY <2>3 DEF Add, Change
  <2>4. CASE Clean(r)
    BY <2>4 DEF Clean, Change, BaseInv, TypeInv, IsFunction
  <2>5. CASE Remove(r)
    BY <2>5 DEF Remove, Change, WithoutBlocks
  <2>6. CASE Write(r)
    <3>1. ASSUME NEW z \in rows, Writes(r, z)
          PROVE  \E y \in rows' : y.id = x.id
      <4>1. Over(body[r].patch, z).id = z.id
        BY <2>6, Patched DEF Write, BaseInv, OnPath, TypeInv, IdInv
      <4> QED
        BY <3>1, <4>1 DEF Writes
    <3> QED
      BY <2>6, <3>1, WriteShape
  <2> QED
    BY <2>1, <2>2, <2>3, <2>4, <2>5, <2>6 DEF RequestStep
<1>3. ASSUME NEW f \in events, HasRow(f), NEW e \in events', e.id = f.id
      PROVE  HasRow(e)'
  BY <1>1, <1>2, <1>3 DEF HasRow
<1> QED
  BY <1>3, EventsFrom DEF HasRow

LEMMA HasEventStep ==
    ASSUME BaseInv, IdInv, ReadInv, \A g \in groups : HasEvent(g),
           NEW r \in Requests, RequestStep(r)
    PROVE  \A g \in groups' : HasEvent(g)'
<1>1. body' = body
  BY OwnState DEF BaseInv
<1>2. ASSUME NEW g \in groups, \A e \in events : e.id = g => \E f \in events' : f.id = g
      PROVE  HasEvent(g)'
  BY <1>1, <1>2 DEF HasEvent
<1>3. CASE Start(r) \/ Read(r) \/ Invalidate(r) \/ Gather(r) \/ Forget(r) \/ Clean(r)
           \/ Fails(r)
  <2>1. events' = events /\ groups' = groups
    BY <1>3 DEF Start, Read, Invalidate, Gather, Forget, Clean, Fails, calendar
  <2> QED
    BY <1>2, <2>1
<1>4. CASE Add(r) \/ Leave(r)
  <2>1. groups' = groups \cup {r} /\ events \subseteq events'
    BY <1>4 DEF Add, Leave
  <2>2. CASE Add(r)
    <3>1. PICK x : x.id = r /\ Block(x) \in events'
      BY <2>2 DEF Add
    <3> QED
      BY <1>2, <2>1, <3>1, Blocks DEF HasEvent
  <2>3. CASE Leave(r)
    <3>1. PICK e : /\ e = Away(r, body[r].user, body[r].place, body[r].days)
                   /\ e \in events'
      BY <2>3 DEF Leave
    <3>2. e.id = r
      BY <3>1 DEF Away
    <3> QED
      BY <1>2, <2>1, <3>1, <3>2 DEF HasEvent
  <2> QED
    BY <1>4, <2>2, <2>3
<1>5. CASE Remove(r)
  BY <1>2, <1>5 DEF Remove, WithoutBlocks
<1>6. CASE Return(r)
  <2>1. body[r].op = "back"
    BY <1>6 DEF Return, BaseInv, OnPath
  <2>2. \A g \in groups : g = body[r].id => HasEvent(g)'
    BY <1>1, <2>1 DEF HasEvent
  <2>3. groups' = groups /\ \A e \in events : e.id # body[r].id => e \in events'
    BY <1>6 DEF Return
  <2> QED
    BY <1>2, <2>2, <2>3
<1>7. CASE Revise(r)
  <2>1. \A e \in events : \E f \in events' : f.id = e.id
    <3>1. ASSUME NEW e \in events
          PROVE  [e EXCEPT !.days = body[r].days].id = e.id
      BY DEF IdInv, IsEvent
    <3> QED
      BY <1>7, <3>1, ReviseShape
  <2> QED
    BY <1>2, <1>7, <2>1, ReviseShape
<1>8. CASE Write(r)
  <2>1. CASE UNCHANGED <<rows, events, groups, seen>>
    BY <1>2, <2>1
  <2>2. ASSUME NEW z \in rows, z.id = body[r].id, Writes(r, z)
        PROVE  \A g \in groups' : HasEvent(g)'
    <3>1. /\ body[r].op = "put" /\ Sound(body[r])
          /\ seen[r] # {} /\ \A x \in seen[r] : x.id = z.id /\ IsRow(x)
      BY <1>8, <2>2 DEF Write, BaseInv, OnPath, TypeInv, ReadInv, IdInv
    <3>2. PICK x \in seen[r] : Over(body[r].patch, x).id = z.id
      BY <3>1, Patched
    <3>3. ASSUME NEW e \in events, e.id = z.id
          PROVE  \E f \in events' : f.id = z.id
      <4>1. PICK f : f = [Block(Over(body[r].patch, x)) EXCEPT !.place = e.place]
        OBVIOUS
      <4>2. f \in events'
        BY <2>2, <3>3, <4>1 DEF Writes
      <4>3. f.id = z.id
        BY <3>2, <4>1 DEF Block
      <4> QED
        BY <4>2, <4>3
    <3> QED
      BY <1>2, <2>2, <3>3 DEF Writes
  <2> QED
    BY <1>8, <2>1, <2>2, WriteShape
<1> QED
  BY <1>3, <1>4, <1>5, <1>6, <1>7, <1>8 DEF RequestStep

LEMMA BlockStep == BaseInv /\ BlockInv /\ [Next]_vars => BlockInv'
<1> SUFFICES ASSUME BaseInv, BlockInv, [Next]_vars
             PROVE  BlockInv'
  OBVIOUS
<1>1. CASE ReaderStep
  <2>1. UNCHANGED <<rows, absences, events, groups, pc, body, seen, cut, met, touched>>
    BY <1>1, ReadersAlone
  <2>2. (\A x \in rows : HasBlock(x))' /\ (\A g \in groups : HasEvent(g))'
    <3>1. /\ \A x : HasBlock(x)' <=> HasBlock(x)
          /\ \A g : HasEvent(g)' <=> HasEvent(g)
      BY <2>1 DEF HasBlock, HasEvent, Edits
    <3> QED
      BY <2>1, <3>1 DEF BlockInv
  <2>3. (\A e \in events : e.kind = "block" => HasRow(e))'
    BY <2>1 DEF BlockInv, HasRow
  <2>4. ReadInv'
    <3>1. \A r : Raced(r)' <=> Raced(r)
      BY <2>1 DEF Raced, Edits
    <3> QED
      BY <2>1, <3>1 DEF BlockInv, ReadInv
  <2> QED
    BY <2>2, <2>3, <2>4, IdStep DEF BlockInv
<1>2. ASSUME NEW r \in Requests, RequestStep(r)
      PROVE  BlockInv'
  BY <1>2, IdStep, ReadStep, HasBlockStep, HasRowStep, HasEventStep DEF BlockInv
<1> QED
  BY <1>1, <1>2, Steps

\* The event of temporary hours blocks the calendar where the hours say unless two
\* updates of them overlapped, and an event without hours or a group without an event
\* is the work of an absence, for any number of requests.
THEOREM BlocksFollowHours == Spec => []BlocksMatchHours
<1>1. BlockInv => BlocksMatchHours
  BY DEF BlockInv, HasBlock, HasRow, HasEvent, BlocksMatchHours
<1> QED
  BY <1>1, BaseInit, BaseStep, BlockInit, BlockStep, PTL DEF Spec
=============================================================================
