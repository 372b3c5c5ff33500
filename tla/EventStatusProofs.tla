------------------------- MODULE EventStatusProofs -------------------------
(***************************************************************************)
(* Why the status of a booking follows the table of transitions while      *)
(* nobody writes what an older status allowed, why nobody attends what the *)
(* platform has cancelled, and why deadlocks need two orders of locking:   *)
(* for any requests, clients and bookings.                                 *)
(*                                                                         *)
(* A transaction that has written the booking keeps its row locked until   *)
(* it ends, so the status that it found there is still the one that its    *)
(* commit replaces.                                                        *)
(***************************************************************************)
EXTENDS EventStatus, FiniteSetTheorems, TLAPS

USE StatusAssumption

\* The statements that a request of each kind may still have to execute
ChangeTodos == {<<>>, <<"setGroup", "cascade">>, <<"cascade">>}
EditTodos ==
    {<<>>, <<"openGroup", "setEvent", "replaceSeats">>, <<"setEvent", "replaceSeats">>,
     <<"replaceSeats">>}
ClearTodos ==
    {<<>>, <<"dateEvent", "dateSeats", "dateGroup">>, <<"dateSeats", "dateGroup">>,
     <<"dateGroup">>}
DropTodos ==
    {<<>>, <<"dropEvent", "dropSeats", "dropGroup">>, <<"dropSeats", "dropGroup">>,
     <<"dropGroup">>}
OneTodos == {<<>>, <<"setSeat", "setGroup">>, <<"setGroup">>}
ClassTodos ==
    DropTodos \union {<<"setSeat">>, <<"setSeat", "dropEvent", "dropSeats", "dropGroup">>}

Todos ==
    ChangeTodos \union EditTodos \union ClearTodos \union OneTodos \union ClassTodos

TodosOf(r) ==
    CASE job[r].kind = "change" -> ChangeTodos
      [] job[r].kind = "edit"   -> EditTodos
      [] job[r].kind = "clear"  -> ClearTodos
      [] job[r].kind = "delete" -> DropTodos
      [] Web(r) /\ ~several     -> OneTodos
      [] Web(r) /\ several      -> ClassTodos

\* Values for some of the rows
IsWritten(f) == DOMAIN f \subseteq RowId /\ f \in [DOMAIN f -> Row]

Seen == [group : Status \union {NoStatus}, seat : SeatId \union {Initially},
         status : Status \union {NoStatus}]

TypeOK ==
    /\ several \in BOOLEAN
    /\ rows \in [RowId -> Row]
    /\ writes = [r \in Requests |-> writes[r]]
    /\ \A r \in Requests : IsWritten(writes[r])
    /\ job \in [Requests -> Job]
    /\ pc \in [Requests -> {"start", "run"} \union Answers]
    /\ todo \in [Requests -> Todos]
    /\ seen \in [Requests -> Seen]
    /\ raced \in BOOLEAN

\* A running request has statements of its kind and, for the web, a seat;
\* one that is not running, or has no transaction, has written nothing.
Running ==
    \A r \in Requests :
        /\ pc[r] = "run" => todo[r] \in TodosOf(r)
        /\ pc[r] = "run" /\ Web(r) => seen[r].seat \in SeatId
        /\ pc[r] # "run" \/ Autocommit(r) => DOMAIN writes[r] = {}

\* Two transactions never have both written a row: the first has it locked.
WritesApart ==
    \A r, s \in Requests : r # s => DOMAIN writes[r] \intersect DOMAIN writes[s] = {}

\* These decide by the status they read whether the booking may have theirs.
Checks(r) == job[r].kind = "change" \/ (job[r].kind = "confirm" /\ ~several)

SetGroupTodos == {<<"setGroup", "cascade">>, <<"setSeat", "setGroup">>, <<"setGroup">>}

Checked ==
    \A r \in Requests : pc[r] = "run" /\ Checks(r) =>
        /\ Target(r) \in Allowed(seen[r].group)
        /\ todo[r] \in SetGroupTodos => Group \notin DOMAIN writes[r]

\* What a transaction has written of the booking, compared to what is there
GroupWritten ==
    \A r \in Requests : Group \in DOMAIN writes[r] =>
        /\ Checks(r) /\ ~raced => writes[r][Group].status \in Allowed(rows[Group].status)
        /\ job[r].kind \in {"clear", "delete"} =>
             writes[r][Group].status = rows[Group].status

TableInv ==
    /\ TypeOK
    /\ Running
    /\ WritesApart
    /\ Checked
    /\ GroupWritten

-----------------------------------------------------------------------------
Statements ==
    {"setGroup", "cascade", "openGroup", "setEvent", "replaceSeats", "dateEvent",
     "dateSeats", "dateGroup", "dropEvent", "dropSeats", "dropGroup", "setSeat"}

WritesGroup == {"setGroup", "openGroup", "dateGroup", "dropGroup"}

LEMMA Tails ==
    /\ \A a : Head(<<a>>) = a /\ Tail(<<a>>) = <<>>
    /\ \A a, b : Head(<<a, b>>) = a /\ Tail(<<a, b>>) = <<b>>
    /\ \A a, b, c : Head(<<a, b, c>>) = a /\ Tail(<<a, b, c>>) = <<b, c>>
    /\ \A a, b, c, d : Head(<<a, b, c, d>>) = a /\ Tail(<<a, b, c, d>>) = <<b, c, d>>
OBVIOUS

\* Three statements, or those of them that are left
LEMMA Three ==
    ASSUME NEW a, NEW b, NEW c, NEW t,
           t \in {<<>>, <<a, b, c>>, <<b, c>>, <<c>>}, t # <<>>
    PROVE  /\ Tail(t) \in {<<>>, <<a, b, c>>, <<b, c>>, <<c>>}
           /\ Head(t) \in {a, b, c}
<1>1. CASE t = <<a, b, c>>
  BY <1>1, Tails
<1>2. CASE t = <<b, c>>
  BY <1>2, Tails
<1>3. CASE t = <<c>>
  BY <1>3, Tails
<1> QED
  BY <1>1, <1>2, <1>3

LEMMA TailStays ==
    ASSUME NEW t, t # <<>>
    PROVE  /\ t \in ChangeTodos => Tail(t) \in ChangeTodos
           /\ t \in EditTodos => Tail(t) \in EditTodos
           /\ t \in ClearTodos => Tail(t) \in ClearTodos
           /\ t \in DropTodos => Tail(t) \in DropTodos
           /\ t \in OneTodos => Tail(t) \in OneTodos
           /\ t \in ClassTodos => Tail(t) \in ClassTodos
           /\ t \in Todos => Tail(t) \in Todos
<1>1. t \in ChangeTodos => Tail(t) \in ChangeTodos
  BY Tails DEF ChangeTodos
<1>2. t \in EditTodos => Tail(t) \in EditTodos
  BY Three DEF EditTodos
<1>3. t \in ClearTodos => Tail(t) \in ClearTodos
  BY Three DEF ClearTodos
<1>4. t \in DropTodos => Tail(t) \in DropTodos
  BY Three DEF DropTodos
<1>5. t \in OneTodos => Tail(t) \in OneTodos
  BY Tails DEF OneTodos
<1>6. t \in ClassTodos => Tail(t) \in ClassTodos
  <2>1. CASE t = <<"setSeat">>
    BY <2>1, Tails DEF ClassTodos, DropTodos
  <2>2. CASE t = <<"setSeat", "dropEvent", "dropSeats", "dropGroup">>
    BY <2>2, Tails DEF ClassTodos, DropTodos
  <2> QED
    BY <1>4, <2>1, <2>2 DEF ClassTodos
<1> QED
  BY <1>1, <1>2, <1>3, <1>4, <1>5, <1>6 DEF Todos

\* The statements that each kind of request executes
LEMMA Heads ==
    ASSUME NEW t, t # <<>>
    PROVE  /\ t \in ChangeTodos => Head(t) \in {"setGroup", "cascade"}
           /\ t \in EditTodos => Head(t) \in {"openGroup", "setEvent", "replaceSeats"}
           /\ t \in ClearTodos => Head(t) \in {"dateEvent", "dateSeats", "dateGroup"}
           /\ t \in DropTodos => Head(t) \in {"dropEvent", "dropSeats", "dropGroup"}
           /\ t \in OneTodos => Head(t) \in {"setSeat", "setGroup"}
           /\ t \in ClassTodos =>
                Head(t) \in {"setSeat", "dropEvent", "dropSeats", "dropGroup"}
<1>1. t \in ChangeTodos => Head(t) \in {"setGroup", "cascade"}
  BY Tails DEF ChangeTodos
<1>2. t \in EditTodos => Head(t) \in {"openGroup", "setEvent", "replaceSeats"}
  BY Three DEF EditTodos
<1>3. t \in ClearTodos => Head(t) \in {"dateEvent", "dateSeats", "dateGroup"}
  BY Three DEF ClearTodos
<1>4. t \in DropTodos => Head(t) \in {"dropEvent", "dropSeats", "dropGroup"}
  BY Three DEF DropTodos
<1>5. t \in OneTodos => Head(t) \in {"setSeat", "setGroup"}
  BY Tails DEF OneTodos
<1>6. t \in ClassTodos => Head(t) \in {"setSeat", "dropEvent", "dropSeats", "dropGroup"}
  <2>1. CASE t = <<"setSeat">>
    BY <2>1, Tails
  <2>2. CASE t = <<"setSeat", "dropEvent", "dropSeats", "dropGroup">>
    BY <2>2, Tails
  <2> QED
    BY <1>4, <2>1, <2>2 DEF ClassTodos
<1> QED
  BY <1>1, <1>2, <1>3, <1>4, <1>5, <1>6

\* Whether the booking's status is still to be written
LEMMA Awaiting ==
    ASSUME NEW t, t # <<>>, t \in ChangeTodos \union OneTodos
    PROVE  /\ Head(t) = "setGroup" => t \in SetGroupTodos /\ Tail(t) \notin SetGroupTodos
           /\ Tail(t) \in SetGroupTodos => t \in SetGroupTodos /\ Head(t) = "setSeat"
<1>1. CASE t = <<"setGroup", "cascade">>
  BY <1>1 DEF SetGroupTodos
<1>2. CASE t = <<"cascade">>
  BY <1>2 DEF SetGroupTodos
<1>3. CASE t = <<"setSeat", "setGroup">>
  BY <1>3 DEF SetGroupTodos
<1>4. CASE t = <<"setGroup">>
  BY <1>4 DEF SetGroupTodos
<1> QED
  BY <1>1, <1>2, <1>3, <1>4 DEF ChangeTodos, OneTodos

LEMMA Statement ==
    ASSUME NEW t, t # <<>>, t \in Todos
    PROVE  Head(t) \in Statements
BY Heads DEF Todos, Statements

-----------------------------------------------------------------------------
LEMMA Merged ==
    ASSUME NEW f, NEW g, IsWritten(f), IsWritten(g)
    PROVE  /\ IsWritten(Over(f, g))
           /\ DOMAIN Over(f, g) = DOMAIN f \union DOMAIN g
           /\ \A x \in DOMAIN f \union DOMAIN g :
                Over(f, g)[x] = IF x \in DOMAIN f THEN f[x] ELSE g[x]
BY DEF IsWritten, Over

LEMMA MergedRows ==
    ASSUME NEW f, NEW g, IsWritten(f), g \in [RowId -> Row]
    PROVE  /\ Over(f, g) \in [RowId -> Row]
           /\ \A x \in RowId : Over(f, g)[x] = IF x \in DOMAIN f THEN f[x] ELSE g[x]
BY DEF IsWritten, Over

LEMMA OneRow ==
    ASSUME NEW x \in RowId, NEW row \in Row
    PROVE  IsWritten(Only(x, row)) /\ DOMAIN Only(x, row) = {x} /\ Only(x, row)[x] = row
BY DEF IsWritten, Only

LEMMA RowIds ==
    /\ Group \in RowId /\ Event \in RowId /\ SeatId \subseteq RowId
    /\ Group # Event /\ Group \notin SeatId
BY DEF RowId

LEMMA RowChanges ==
    ASSUME NEW row \in Row
    PROVE  /\ \A s \in Status : /\ [row EXCEPT !.status = s] \in Row
                                /\ [row EXCEPT !.status = s].status = s
           /\ \A l \in Life : /\ [row EXCEPT !.life = l] \in Row
                              /\ [row EXCEPT !.life = l].status = row.status
BY DEF Row

\* What the statements SetLife, Cascade and ReplaceSeats are made of
LEMMA LifeWritten ==
    ASSUME NEW view \in [RowId -> Row], NEW ids \in SUBSET RowId, NEW life \in Life
    PROVE  /\ IsWritten(SetLife(view, ids, life))
           /\ DOMAIN SetLife(view, ids, life) = ids
           /\ \A x \in ids : SetLife(view, ids, life)[x].status = view[x].status
<1>1. \A x \in ids : view[x] \in Row
  OBVIOUS
<1> QED
  BY <1>1, RowChanges DEF SetLife, IsWritten

LEMMA SeatsWritten ==
    ASSUME NEW view \in [RowId -> Row]
    PROVE  /\ LiveSeats(view) \subseteq SeatId
           /\ SeatsIn(view, LAMBDA row : row.life # "gone") \subseteq SeatId
BY DEF LiveSeats, SeatsIn

LEMMA CascadeWritten ==
    ASSUME NEW view \in [RowId -> Row], NEW status \in Status
    PROVE  IsWritten(Cascade(view, status)) /\ DOMAIN Cascade(view, status) \subseteq SeatId
<1> DEFINE Wrote(ids, s) == [x \in ids |-> [view[x] EXCEPT !.status = s]]
<1>1. ASSUME NEW ids \in SUBSET SeatId, NEW s \in Status
      PROVE  IsWritten(Wrote(ids, s)) /\ DOMAIN Wrote(ids, s) \subseteq SeatId
  BY RowIds, RowChanges DEF IsWritten
<1>2. \E ids \in SUBSET SeatId, s \in Status : Cascade(view, status) \in {Wrote(ids, s), <<>>}
  <2>1. {x \in SeatId : view[x].life # "gone" /\ view[x].status \notin Cancelled} \in SUBSET SeatId
        /\ {x \in SeatId : view[x].life # "gone" /\ view[x].status = "PENDING"} \in SUBSET SeatId
    OBVIOUS
  <2>2. "ACCEPTED" \in Status
    BY DEF Status
  <2> QED
    BY <2>1, <2>2 DEF Cascade, SeatsIn
<1>3. IsWritten(<<>>) /\ DOMAIN <<>> = {}
  BY DEF IsWritten
<1> QED
  BY <1>1, <1>2, <1>3

-----------------------------------------------------------------------------
LEMMA Jobs ==
    ASSUME TypeOK, NEW r \in Requests
    PROVE  /\ job[r].kind \in {"change", "confirm", "cancel", "edit", "clear", "delete"}
           /\ job[r].kind = "change" \/ Web(r) => Target(r) \in Status
           /\ job[r].kind = "edit" =>
                job[r].status \in Status \union {NoStatus} /\ job[r].clients \subseteq Clients
BY DEF TypeOK, Job, Web, Target, Status, Cancelled

LEMMA Views ==
    ASSUME TypeOK, NEW r \in Requests
    PROVE  /\ View(r) \in [RowId -> Row]
           /\ \A x \in RowId : View(r)[x] = IF x \in DOMAIN writes[r] THEN writes[r][x] ELSE rows[x]
BY MergedRows DEF TypeOK, View

\* What each statement writes, and what it makes of the booking's status
LEMMA Effects ==
    ASSUME TypeOK, Running, NEW r \in Requests, pc[r] = "run", todo[r] # <<>>
    PROVE  /\ IsWritten(Effect(r))
           /\ Head(todo[r]) = "setGroup" =>
                DOMAIN Effect(r) = {Group} /\ Effect(r)[Group].status = Target(r)
           /\ Head(todo[r]) \in {"dateGroup", "dropGroup"} /\ Group \in DOMAIN Effect(r) =>
                Effect(r)[Group].status = View(r)[Group].status
           /\ Head(todo[r]) \notin WritesGroup => Group \notin DOMAIN Effect(r)
<1> DEFINE head == Head(todo[r])
           view == View(r)
<1>1. view \in [RowId -> Row]
  BY Views
<1>2. todo[r] \in TodosOf(r)
  BY DEF Running
<1>3. /\ "live" \in Life /\ "deleted" \in Life /\ "gone" \in Life
      /\ \A x \in RowId : view[x] \in Row
  BY <1>1 DEF Life
<1>4. CASE head = "setGroup"
  <2>1. job[r].kind = "change" \/ Web(r)
    BY <1>2, <1>4, Jobs, Heads DEF TodosOf, TypeOK, Web
  <2>2. [view[Group] EXCEPT !.status = Target(r)] \in Row
        /\ [view[Group] EXCEPT !.status = Target(r)].status = Target(r)
    BY <1>3, <2>1, Jobs, RowIds, RowChanges
  <2> DEFINE row == [view[Group] EXCEPT !.status = Target(r)]
  <2>3. Effect(r) = Only(Group, row)
    BY <1>4 DEF Effect
  <2> HIDE DEF row
  <2>4. IsWritten(Only(Group, row)) /\ DOMAIN Only(Group, row) = {Group}
        /\ Only(Group, row)[Group] = row
    BY <2>2, RowIds, OneRow DEF row
  <2> QED
    BY <1>4, <2>2, <2>3, <2>4 DEF WritesGroup, row
<1>5. CASE head = "cascade"
  <2>1. Target(r) \in Status
    BY <1>2, <1>5, Jobs, Heads DEF TodosOf, TypeOK, Web
  <2>2. Effect(r) = Cascade(view, Target(r))
    BY <1>5 DEF Effect
  <2> QED
    BY <1>1, <1>5, <2>1, <2>2, CascadeWritten, RowIds DEF WritesGroup
<1>6. CASE head = "setSeat"
  <2>1. Web(r)
    BY <1>2, <1>6, Jobs, Heads DEF TodosOf, TypeOK, Web
  <2>2. seen[r].seat \in SeatId
    BY <2>1 DEF Running
  <2>3. [view[seen[r].seat] EXCEPT !.status = Target(r)] \in Row
    BY <1>3, <2>1, <2>2, Jobs, RowIds, RowChanges
  <2> DEFINE x == seen[r].seat
             row == [view[seen[r].seat] EXCEPT !.status = Target(r)]
  <2>4. Effect(r) = Only(x, row)
    BY <1>6 DEF Effect
  <2> HIDE DEF row, x
  <2>5. IsWritten(Only(x, row)) /\ DOMAIN Only(x, row) = {x}
    BY <2>2, <2>3, RowIds, OneRow DEF row, x
  <2> QED
    BY <1>6, <2>2, <2>4, <2>5, RowIds DEF WritesGroup, x
<1>7. CASE head = "openGroup"
  <2>1. job[r].kind = "edit"
    BY <1>2, <1>7, Jobs, Heads DEF TodosOf, TypeOK, Web
  <2> DEFINE row == [status |-> IF job[r].status = NoStatus THEN view[Group].status
                                                            ELSE job[r].status,
                     life   |-> "live"]
  <2>2. row \in Row
    BY <1>3, <2>1, Jobs, RowIds DEF Row
  <2>3. Effect(r) = Only(Group, row)
    BY <1>7 DEF Effect, OpenGroup
  <2> HIDE DEF row
  <2>4. IsWritten(Only(Group, row))
    BY <2>2, RowIds, OneRow
  <2> QED
    BY <1>7, <2>3, <2>4 DEF WritesGroup
<1>8. CASE head = "setEvent"
  <2>1. Effect(r) = Only(Event, view[Event])
    BY <1>8 DEF Effect, UpsertService
  <2> DEFINE row == view[Event]
  <2>2. row \in Row
    BY <1>3, RowIds
  <2> HIDE DEF row
  <2>3. IsWritten(Only(Event, row)) /\ DOMAIN Only(Event, row) = {Event}
    BY <2>2, RowIds, OneRow
  <2>4. Effect(r) = Only(Event, row)
    BY <2>1 DEF row
  <2> QED
    BY <1>8, <2>3, <2>4, RowIds DEF WritesGroup
<1>9. CASE head = "replaceSeats"
  <2> DEFINE new == [x \in {r} \X job[r].clients |-> [status |-> "PENDING", life |-> "live"]]
             old == SetLife(view, LiveSeats(view), "deleted")
  <2>1. {r} \X job[r].clients \subseteq SeatId
    <3>1. job[r].kind = "edit"
      BY <1>2, <1>9, Jobs, Heads DEF TodosOf, TypeOK, Web
    <3> QED
      BY <3>1, Jobs DEF SeatId
  <2>2. [status |-> "PENDING", life |-> "live"] \in Row
    BY DEF Row, Status, Life
  <2>3. IsWritten(new) /\ DOMAIN new \subseteq SeatId
    BY <2>1, <2>2, RowIds DEF IsWritten
  <2>4. IsWritten(old) /\ DOMAIN old \subseteq SeatId
    <3> DEFINE ids == LiveSeats(view)
    <3>1. ids \in SUBSET RowId /\ ids \subseteq SeatId
      BY <1>1, SeatsWritten, RowIds
    <3> HIDE DEF ids
    <3>2. IsWritten(SetLife(view, ids, "deleted")) /\ DOMAIN SetLife(view, ids, "deleted") = ids
      BY <1>1, <1>3, <3>1, LifeWritten
    <3> QED
      BY <3>1, <3>2 DEF ids
  <2>5. Effect(r) = Over(new, old)
    <3>1. Effect(r) = ReplaceSeats(r, view)
      BY <1>9 DEF Effect
    <3> QED
      BY <3>1 DEF ReplaceSeats
  <2> HIDE DEF new, old
  <2>6. IsWritten(Over(new, old)) /\ DOMAIN Over(new, old) \subseteq SeatId
    <3>1. IsWritten(new) /\ IsWritten(old)
      BY <2>3, <2>4
    <3>2. IsWritten(Over(new, old))
      BY <3>1, Merged
    <3>3. DOMAIN Over(new, old) = DOMAIN new \union DOMAIN old
      BY <3>1, Merged
    <3> QED
      BY <2>3, <2>4, <3>2, <3>3
  <2> QED
    BY <1>9, <2>5, <2>6, RowIds DEF WritesGroup
<1>10. CASE head \in {"dateEvent", "dateSeats", "dateGroup", "dropEvent", "dropSeats", "dropGroup"}
  <2>1. PICK ids \in SUBSET RowId, life \in Life :
          /\ Effect(r) = SetLife(view, ids, life)
          /\ head \notin WritesGroup => Group \notin ids
    <3>1. CASE head = "dateEvent"
      <4>1. Effect(r) = SetLife(view, IF view[Event].life = "live" THEN {Event} ELSE {}, "deleted")
        BY <3>1 DEF Effect
      <4> DEFINE ids == IF view[Event].life = "live" THEN {Event} ELSE {}
      <4>2. ids \in SUBSET RowId /\ Group \notin ids
        BY RowIds
      <4> QED
        BY <1>3, <4>1, <4>2
    <3>2. CASE head = "dateSeats"
      <4>1. Effect(r) = SetLife(view, LiveSeats(view), "deleted")
        BY <3>2 DEF Effect
      <4> QED
        BY <1>1, <1>3, <4>1, RowIds, SeatsWritten
    <3>3. CASE head = "dateGroup"
      <4>1. Effect(r) = SetLife(view, IF view[Group].life = "live" THEN {Group} ELSE {}, "deleted")
        BY <3>3 DEF Effect
      <4> QED
        BY <1>3, <3>3, <4>1, RowIds DEF WritesGroup
    <3>4. CASE head = "dropEvent"
      <4>1. Effect(r) = SetLife(view, {Event}, "gone")
        BY <3>4 DEF Effect
      <4>2. {Event} \in SUBSET RowId /\ Group \notin {Event}
        BY RowIds
      <4> QED
        BY <1>3, <4>1, <4>2
    <3>5. CASE head = "dropSeats"
      <4>1. Effect(r) = SetLife(view, SeatsIn(view, LAMBDA row : row.life # "gone"), "gone")
        BY <3>5 DEF Effect
      <4> QED
        BY <1>1, <1>3, <4>1, RowIds, SeatsWritten
    <3>6. CASE head = "dropGroup"
      <4>1. Effect(r) = SetLife(view, {Group}, "gone")
        BY <3>6 DEF Effect
      <4> QED
        BY <1>3, <3>6, <4>1, RowIds DEF WritesGroup
    <3> QED
      BY <1>10, <3>1, <3>2, <3>3, <3>4, <3>5, <3>6
  <2>2. head # "setGroup"
    BY <1>10
  <2> QED
    BY <1>1, <2>1, <2>2, LifeWritten
<1>11. head \in Statements
  BY Statement DEF TypeOK
<1> QED
  BY <1>4, <1>5, <1>6, <1>7, <1>8, <1>9, <1>10, <1>11 DEF Statements

-----------------------------------------------------------------------------
LEMMA TodosByKind ==
    ASSUME TypeOK, NEW r \in Requests
    PROVE  /\ job[r].kind = "change" => TodosOf(r) = ChangeTodos
           /\ job[r].kind = "edit" => TodosOf(r) = EditTodos
           /\ job[r].kind = "clear" => TodosOf(r) = ClearTodos
           /\ job[r].kind = "delete" => TodosOf(r) = DropTodos
           /\ job[r].kind \in {"confirm", "cancel"} =>
                TodosOf(r) = IF several THEN ClassTodos ELSE OneTodos
BY DEF TodosOf, Web, TypeOK

LEMMA TodosGoOn ==
    ASSUME TypeOK, NEW r \in Requests, NEW t \in TodosOf(r), t # <<>>
    PROVE  Tail(t) \in TodosOf(r)
BY Jobs, TodosByKind, TailStays DEF TypeOK

LEMMA TodosTyped ==
    ASSUME TypeOK, NEW r \in Requests
    PROVE  TodosOf(r) \subseteq Todos /\ <<>> \in TodosOf(r)
<1>1. /\ <<>> \in ChangeTodos /\ <<>> \in EditTodos /\ <<>> \in ClearTodos
      /\ <<>> \in DropTodos /\ <<>> \in OneTodos /\ <<>> \in ClassTodos
  BY DEF ChangeTodos, EditTodos, ClearTodos, DropTodos, OneTodos, ClassTodos
<1>2. /\ ChangeTodos \subseteq Todos /\ EditTodos \subseteq Todos /\ ClearTodos \subseteq Todos
      /\ DropTodos \subseteq Todos /\ OneTodos \subseteq Todos /\ ClassTodos \subseteq Todos
  BY DEF Todos, ClassTodos
<1> QED
  BY <1>1, <1>2, Jobs, TodosByKind DEF TypeOK

LEMMA Empty == IsWritten(<<>>) /\ DOMAIN <<>> = {}
BY DEF IsWritten

\* A request begins with its statements.
LEMMA TableBegins ==
    ASSUME TableInv, NEW r \in Requests, NEW t \in TodosOf(r), NEW read \in Seen,
           pc[r] = "start", Begin(r, t, read),
           Web(r) => read.seat \in SeatId,
           Checks(r) => Target(r) \in Allowed(read.group),
           UNCHANGED <<several, rows, writes, job, raced>>
    PROVE  TableInv'
<1>1. /\ pc'[r] = "run" /\ todo'[r] = t /\ seen'[r] = read
      /\ \A s \in Requests \ {r} : pc'[s] = pc[s] /\ todo'[s] = todo[s] /\ seen'[s] = seen[s]
  BY DEF TableInv, TypeOK, Begin
<1>2. TypeOK'
  <2>1. t \in Todos
    BY TodosTyped DEF TableInv
  <2>2. pc' \in [Requests -> {"start", "run"} \union Answers] /\ todo' \in [Requests -> Todos]
        /\ seen' \in [Requests -> Seen]
    BY <2>1 DEF TableInv, TypeOK, Begin
  <2> QED
    BY <2>2 DEF TableInv, TypeOK, IsWritten
<1>3. DOMAIN writes[r] = {}
  BY DEF TableInv, Running
<1>4. Running'
  <2>1. \A s \in Requests : TodosOf(s)' = TodosOf(s) /\ Web(s)' = Web(s)
                            /\ Autocommit(s)' = Autocommit(s)
    BY DEF TodosOf, Web, Autocommit
  <2> QED
    BY <1>1, <1>3, <2>1 DEF TableInv, Running
<1>5. WritesApart'
  BY DEF TableInv, WritesApart
<1>6. Checked'
  BY <1>1, <1>3 DEF TableInv, Checked, Checks, Target
<1>7. GroupWritten'
  BY DEF TableInv, GroupWritten, Checks
<1> QED
  BY <1>2, <1>4, <1>5, <1>6, <1>7 DEF TableInv

\* A request ends, and what its transaction has written with it.
LEMMA TableEnds ==
    ASSUME TableInv, NEW r \in Requests, NEW answer \in Answers, Finish(r, answer),
           \/ UNCHANGED writes /\ pc[r] = "start"
           \/ writes' = [writes EXCEPT ![r] = <<>>],
           UNCHANGED <<several, job, seen, raced>>,
           rows' \in [RowId -> Row],
           \A s \in Requests \ {r} :
             Group \in DOMAIN writes[s] => rows'[Group].status = rows[Group].status
    PROVE  TableInv'
<1>1. /\ pc'[r] = answer /\ answer # "run" /\ todo'[r] = <<>>
      /\ \A s \in Requests \ {r} : pc'[s] = pc[s] /\ todo'[s] = todo[s]
      /\ UNCHANGED seen
  BY DEF TableInv, TypeOK, Finish, Answers
<1>2. /\ DOMAIN writes'[r] = {} /\ IsWritten(writes'[r])
      /\ writes' = [s \in Requests |-> writes'[s]]
      /\ \A s \in Requests \ {r} : writes'[s] = writes[s]
  <2>1. writes = [s \in Requests |-> writes[s]]
    BY DEF TableInv, TypeOK
  <2>2. CASE UNCHANGED writes /\ pc[r] = "start"
    BY <2>1, <2>2 DEF TableInv, Running, TypeOK
  <2>3. CASE writes' = [writes EXCEPT ![r] = <<>>]
    BY <2>1, <2>3, Empty
  <2> QED
    BY <2>2, <2>3
<1>3. TypeOK'
  <2>1. <<>> \in Todos
    BY TodosTyped DEF TableInv
  <2>2. pc' \in [Requests -> {"start", "run"} \union Answers] /\ todo' \in [Requests -> Todos]
    BY <2>1 DEF TableInv, TypeOK, Finish
  <2>3. \A s \in Requests : IsWritten(writes'[s])
    BY <1>2 DEF TableInv, TypeOK
  <2> QED
    BY <1>2, <2>2, <2>3 DEF TableInv, TypeOK, IsWritten
<1>4. Running'
  <2>1. \A s \in Requests : TodosOf(s)' = TodosOf(s) /\ Web(s)' = Web(s)
                            /\ Autocommit(s)' = Autocommit(s)
    BY DEF TodosOf, Web, Autocommit
  <2> QED
    BY <1>1, <1>2, <2>1 DEF TableInv, Running
<1>5. WritesApart'
  BY <1>2 DEF TableInv, WritesApart
<1>6. Checked'
  BY <1>1, <1>2 DEF TableInv, Checked, Checks, Target
<1>7. GroupWritten'
  BY <1>2 DEF TableInv, GroupWritten, Checks
<1> QED
  BY <1>3, <1>4, <1>5, <1>6, <1>7 DEF TableInv

\* A statement that is its own transaction leaves the booking's status alone.
LEMMA ClassKeepsStatus ==
    ASSUME TypeOK, Running, NEW r \in Requests, pc[r] = "run", todo[r] # <<>>,
           Autocommit(r), rows' = Over(Effect(r), rows)
    PROVE  rows' \in [RowId -> Row] /\ rows'[Group].status = rows[Group].status
<1>1. Head(todo[r]) \in {"setSeat", "dropEvent", "dropSeats", "dropGroup"}
  <2>1. TodosOf(r) = ClassTodos
    BY TodosByKind DEF Autocommit, Web
  <2>2. todo[r] \in ClassTodos
    BY <2>1 DEF Running
  <2> QED
    BY <2>2, Heads
<1>2. View(r)[Group] = rows[Group]
  BY Views, RowIds DEF Running
<1> DEFINE effect == Effect(r)
<1>3. IsWritten(effect) /\ (Group \in DOMAIN effect => effect[Group].status = rows[Group].status)
  BY <1>1, <1>2, Effects DEF WritesGroup
<1> HIDE DEF effect
<1>4. /\ Over(effect, rows) \in [RowId -> Row]
      /\ \A x \in RowId : Over(effect, rows)[x] = IF x \in DOMAIN effect THEN effect[x] ELSE rows[x]
  BY <1>3, MergedRows DEF TypeOK
<1>5. rows' = Over(effect, rows)
  BY DEF effect
<1> QED
  BY <1>3, <1>4, <1>5, RowIds

\* A transaction's statement locks its rows, which no other one has written.
LEMMA StatementWrites ==
    ASSUME TypeOK, Running, WritesApart, NEW r \in Requests, pc[r] = "run", todo[r] # <<>>,
           WaitsFor(r) = {}, writes' = [writes EXCEPT ![r] = Over(Effect(r), @)]
    PROVE  /\ writes' = [s \in Requests |-> writes'[s]]
           /\ IsWritten(writes'[r])
           /\ DOMAIN writes'[r] = DOMAIN writes[r] \union DOMAIN Effect(r)
           /\ \A x \in DOMAIN writes'[r] :
                writes'[r][x] = IF x \in DOMAIN Effect(r) THEN Effect(r)[x] ELSE writes[r][x]
           /\ \A s \in Requests \ {r} : writes'[s] = writes[s]
           /\ WritesApart'
<1> DEFINE effect == Effect(r)
<1>1. IsWritten(effect) /\ IsWritten(writes[r])
  BY Effects DEF TypeOK
<1>2. \A s \in Requests \ {r} : DOMAIN writes[s] \intersect DOMAIN effect = {}
  BY DEF WaitsFor
<1>3. writes = [s \in Requests |-> writes[s]] /\ writes' = [writes EXCEPT ![r] = Over(effect, writes[r])]
  BY DEF TypeOK
<1> HIDE DEF effect
<1>4. /\ IsWritten(Over(effect, writes[r]))
      /\ DOMAIN Over(effect, writes[r]) = DOMAIN writes[r] \union DOMAIN effect
      /\ \A x \in DOMAIN writes[r] \union DOMAIN effect :
           Over(effect, writes[r])[x] = IF x \in DOMAIN effect THEN effect[x] ELSE writes[r][x]
  <2> DEFINE own == writes[r]
  <2>1. IsWritten(own)
    BY <1>1
  <2> HIDE DEF own
  <2>2. IsWritten(Over(effect, own))
    BY <1>1, <2>1, Merged
  <2>3. DOMAIN Over(effect, own) = DOMAIN own \union DOMAIN effect
    BY DEF Over
  <2>4. \A x \in DOMAIN effect \union DOMAIN own :
          Over(effect, own)[x] = IF x \in DOMAIN effect THEN effect[x] ELSE own[x]
    BY DEF Over
  <2> QED
    BY <2>2, <2>3, <2>4 DEF own
<1>5. /\ writes' = [s \in Requests |-> writes'[s]]
      /\ writes'[r] = Over(effect, writes[r])
      /\ \A s \in Requests \ {r} : writes'[s] = writes[s]
  BY <1>3
<1>6. WritesApart'
  <2> SUFFICES ASSUME NEW s \in Requests, NEW u \in Requests, s # u
               PROVE  DOMAIN writes'[s] \intersect DOMAIN writes'[u] = {}
    BY DEF WritesApart
  <2>1. \A v \in Requests \ {r} : DOMAIN writes'[v] \intersect DOMAIN writes'[r] = {}
    BY <1>2, <1>4, <1>5 DEF WritesApart
  <2>2. CASE s # r /\ u # r
    BY <1>5, <2>2 DEF WritesApart
  <2> QED
    BY <2>1, <2>2
<1> QED
  BY <1>4, <1>5, <1>6 DEF effect

\* What a transaction's statement makes of the booking's status, if it writes it
LEMMA GroupWrites ==
    ASSUME TableInv, NEW r \in Requests, pc[r] = "run", todo[r] # <<>>,
           Group \in DOMAIN Effect(r)
    PROVE  /\ Checks(r) /\ ~Outdated(r) =>
                /\ Head(todo[r]) = "setGroup"
                /\ Effect(r)[Group].status \in Allowed(rows[Group].status)
           /\ job[r].kind \in {"clear", "delete"} =>
                Effect(r)[Group].status = rows[Group].status
<1>1. todo[r] \in TodosOf(r) /\ TypeOK /\ Running
  BY DEF TableInv, Running
<1>2. Head(todo[r]) \in WritesGroup
  BY <1>1, Effects
<1>3. ASSUME Checks(r), ~Outdated(r)
      PROVE  /\ Head(todo[r]) = "setGroup"
             /\ Effect(r)[Group].status \in Allowed(rows[Group].status)
  <2>1. todo[r] \in ChangeTodos \union OneTodos
    BY <1>1, <1>3, TodosByKind DEF Checks
  <2>2. Head(todo[r]) = "setGroup"
    BY <1>2, <2>1, Heads DEF WritesGroup
  <2>3. Effect(r)[Group].status = Target(r)
    BY <1>1, <2>2, Effects
  <2>4. todo[r] \in SetGroupTodos
    BY <2>1, <2>2, Awaiting
  <2>5. Target(r) \in Allowed(seen[r].group) /\ Group \notin DOMAIN writes[r]
    BY <1>3, <2>4 DEF TableInv, Checked
  <2>6. seen[r].group = rows[Group].status
    <3>1. View(r)[Group].status = seen[r].group
      BY <1>3 DEF Outdated, Checks, Web
    <3> QED
      BY <1>1, <2>5, <3>1, Views, RowIds
  <2> QED
    BY <2>2, <2>3, <2>5, <2>6
<1>4. ASSUME job[r].kind \in {"clear", "delete"}
      PROVE  Effect(r)[Group].status = rows[Group].status
  <2>1. todo[r] \in ClearTodos \union DropTodos
    BY <1>1, <1>4, TodosByKind
  <2>2. Head(todo[r]) \in {"dateGroup", "dropGroup"}
    BY <1>2, <2>1, Heads DEF WritesGroup
  <2>3. Effect(r)[Group].status = View(r)[Group].status
    BY <1>1, <2>2, Effects
  <2>4. View(r)[Group].status = rows[Group].status
    BY <1>1, <1>4, Views, RowIds DEF TableInv, GroupWritten
  <2> QED
    BY <2>3, <2>4
<1> QED
  BY <1>3, <1>4

LEMMA TableExecute ==
    ASSUME TableInv, NEW r \in Requests, Execute(r)
    PROVE  TableInv'
<1> DEFINE effect == Effect(r)
<1>1. /\ pc[r] = "run" /\ todo[r] # <<>> /\ WaitsFor(r) = {}
      /\ UNCHANGED <<several, job, pc, seen>>
      /\ todo' = [todo EXCEPT ![r] = Tail(@)]
      /\ raced' = (raced \/ (Head(todo[r]) \in {"setGroup", "setSeat"} /\ Outdated(r)))
  BY DEF Execute
<1>2. /\ todo' \in [Requests -> Todos] /\ todo'[r] = Tail(todo[r]) /\ todo'[r] \in TodosOf(r)
      /\ \A s \in Requests \ {r} : todo'[s] = todo[s]
  <2>1. Tail(todo[r]) \in TodosOf(r) /\ Tail(todo[r]) \in Todos
    BY <1>1, TodosGoOn, TodosTyped DEF TableInv, Running
  <2> QED
    BY <1>1, <2>1 DEF TableInv, TypeOK
<1>3. \A s \in Requests : /\ TodosOf(s)' = TodosOf(s) /\ Web(s)' = Web(s)
                          /\ Autocommit(s)' = Autocommit(s) /\ Checks(s)' = Checks(s)
                          /\ Target(s)' = Target(s)
  BY <1>1 DEF TodosOf, Web, Autocommit, Checks, Target
<1>4. CASE Autocommit(r)
  <2>1. rows' = Over(Effect(r), rows) /\ UNCHANGED writes
    BY <1>4 DEF Execute
  <2>2. rows' \in [RowId -> Row] /\ rows'[Group].status = rows[Group].status
    BY <1>1, <1>4, <2>1, ClassKeepsStatus DEF TableInv
  <2>3. TypeOK'
    BY <1>1, <1>2, <2>1, <2>2 DEF TableInv, TypeOK, IsWritten
  <2>4. Running'
    BY <1>1, <1>2, <1>3, <2>1 DEF TableInv, Running
  <2>5. WritesApart'
    BY <2>1 DEF TableInv, WritesApart
  <2>6. Checked'
    BY <1>1, <1>2, <1>3, <1>4, <2>1 DEF TableInv, Checked, Checks, Running
  <2>7. GroupWritten'
    BY <1>1, <1>3, <2>1, <2>2 DEF TableInv, GroupWritten
  <2> QED
    BY <2>3, <2>4, <2>5, <2>6, <2>7 DEF TableInv
<1>5. CASE ~Autocommit(r)
  <2>1. /\ rows' = rows
        /\ writes' = [s \in Requests |-> writes'[s]]
        /\ IsWritten(writes'[r])
        /\ DOMAIN writes'[r] = DOMAIN writes[r] \union DOMAIN effect
        /\ \A x \in DOMAIN writes'[r] :
             writes'[r][x] = IF x \in DOMAIN effect THEN effect[x] ELSE writes[r][x]
        /\ \A s \in Requests \ {r} : writes'[s] = writes[s]
        /\ WritesApart'
    <3>1. rows' = rows /\ writes' = [writes EXCEPT ![r] = Over(Effect(r), @)]
      BY <1>5 DEF Execute
    <3> QED
      BY <1>1, <3>1, StatementWrites DEF TableInv
  <2>2. TypeOK'
    <3>1. \A s \in Requests : IsWritten(writes'[s])
      BY <2>1 DEF TableInv, TypeOK
    <3> QED
      BY <1>1, <1>2, <2>1, <3>1 DEF TableInv, TypeOK, IsWritten
  <2>3. Running'
    BY <1>1, <1>2, <1>3, <1>5, <2>1 DEF TableInv, Running
  <2>4. Checked'
    <3>1. ASSUME Checks(r), todo'[r] \in SetGroupTodos
          PROVE  Group \notin DOMAIN writes'[r]
      <4>1. todo[r] \in ChangeTodos \union OneTodos
        BY <1>1, <3>1, TodosByKind DEF Checks, TableInv, Running
      <4>2. todo[r] \in SetGroupTodos /\ Head(todo[r]) = "setSeat"
        BY <1>1, <1>2, <3>1, <4>1, Awaiting
      <4>3. Group \notin DOMAIN writes[r]
        BY <1>1, <3>1, <4>2 DEF TableInv, Checked
      <4>4. Group \notin DOMAIN effect
        BY <1>1, <4>2, Effects DEF WritesGroup, TableInv
      <4> QED
        BY <2>1, <4>3, <4>4
    <3> QED
      BY <1>1, <1>2, <1>3, <2>1, <3>1 DEF TableInv, Checked
  <2>5. GroupWritten'
    <3> SUFFICES ASSUME NEW s \in Requests, Group \in DOMAIN writes'[s]
                 PROVE  /\ Checks(s) /\ ~raced' =>
                             writes'[s][Group].status \in Allowed(rows[Group].status)
                        /\ job[s].kind \in {"clear", "delete"} =>
                             writes'[s][Group].status = rows[Group].status
      BY <1>1, <1>3, <2>1 DEF GroupWritten
    <3>1. CASE s # r
      BY <1>1, <2>1, <3>1 DEF TableInv, GroupWritten
    <3>2. CASE s = r /\ Group \notin DOMAIN effect
      BY <1>1, <2>1, <3>2 DEF TableInv, GroupWritten
    <3>3. CASE s = r /\ Group \in DOMAIN effect
      <4>1. writes'[r][Group] = effect[Group]
        BY <2>1, <3>3
      <4>2. Checks(r) /\ ~raced' => ~Outdated(r)
        <5>1. ASSUME Checks(r), ~raced', Outdated(r)
              PROVE  FALSE
          <6>1. todo[r] \in ChangeTodos \union OneTodos
            BY <1>1, <5>1, TodosByKind DEF Checks, TableInv, Running
          <6>2. Head(todo[r]) = "setGroup"
            BY <1>1, <3>3, <6>1, Heads, Effects DEF WritesGroup, TableInv
          <6> QED
            BY <1>1, <5>1, <6>2
        <5> QED
          BY <5>1
      <4> QED
        BY <1>1, <3>3, <4>1, <4>2, GroupWrites
    <3> QED
      BY <3>1, <3>2, <3>3
  <2> QED
    BY <2>1, <2>2, <2>3, <2>4, <2>5 DEF TableInv
<1> QED
  BY <1>4, <1>5

LEMMA TableCommit ==
    ASSUME TableInv, NEW r \in Requests, Commit(r)
    PROVE  TableInv' /\ FollowsTable
<1>1. /\ rows' = View(r) /\ pc[r] = "run"
      /\ writes' = [writes EXCEPT ![r] = <<>>]
      /\ Finish(r, "changed") /\ UNCHANGED <<several, job, seen, raced>>
  BY DEF Commit
<1>2. /\ View(r) \in [RowId -> Row]
      /\ View(r)[Group] = IF Group \in DOMAIN writes[r] THEN writes[r][Group] ELSE rows[Group]
  BY Views, RowIds DEF TableInv
<1>3. TableInv'
  <2>1. \A s \in Requests \ {r} :
          Group \in DOMAIN writes[s] => rows'[Group].status = rows[Group].status
    BY <1>1, <1>2 DEF TableInv, WritesApart
  <2>2. "changed" \in Answers
    BY DEF Answers
  <2> QED
    BY <1>1, <1>2, <2>1, <2>2, TableEnds
<1>4. FollowsTable
  <2>1. CASE Group \notin DOMAIN writes[r]
    BY <1>1, <1>2, <2>1 DEF FollowsTable
  <2>2. CASE Group \in DOMAIN writes[r] /\ job[r].kind \in {"edit", "cancel"}
    <3>1. pc'[r] = "changed"
      BY <1>1 DEF Finish, TableInv, TypeOK
    <3> QED
      BY <1>1, <2>2, <3>1 DEF FollowsTable
  <2>3. CASE Group \in DOMAIN writes[r] /\ job[r].kind \in {"clear", "delete"}
    BY <1>1, <1>2, <2>3 DEF FollowsTable, TableInv, GroupWritten
  <2>4. CASE Group \in DOMAIN writes[r] /\ job[r].kind \in {"change", "confirm"}
    <3>1. ~Autocommit(r)
      BY <2>4 DEF TableInv, Running
    <3>2. Checks(r)
      BY <2>4, <3>1 DEF Checks, Autocommit, Web
    <3> QED
      BY <1>1, <1>2, <2>4, <3>2 DEF FollowsTable, TableInv, GroupWritten
  <2> QED
    BY <2>1, <2>2, <2>3, <2>4, Jobs DEF TableInv
<1> QED
  BY <1>3, <1>4

LEMMA TableRollback ==
    ASSUME TableInv, NEW r \in Requests, Rollback(r)
    PROVE  TableInv'
<1>1. "error" \in Answers
  BY DEF Answers
<1> QED
  BY <1>1, TableEnds DEF Rollback, TableInv, TypeOK

\* An answer without a transaction
LEMMA TableAnswers ==
    ASSUME TableInv, NEW r \in Requests, NEW answer \in Answers, Finish(r, answer),
           pc[r] = "start", UNCHANGED <<several, rows, writes, job, seen, raced>>
    PROVE  TableInv'
BY TableEnds DEF TableInv, TypeOK

LEMMA TableChangeRead ==
    ASSUME TableInv, NEW r \in Requests, ChangeRead(r)
    PROVE  TableInv'
<1> DEFINE read == [group |-> rows[Group].status, seat |-> Initially, status |-> NoStatus]
           list == <<"setGroup", "cascade">>
<1>1. /\ pc[r] = "start" /\ job[r].kind = "change"
      /\ UNCHANGED <<several, rows, writes, job, raced>>
  BY DEF ChangeRead
<1>2. CASE \E answer \in Answers : Finish(r, answer) /\ UNCHANGED seen
  BY <1>1, <1>2, TableAnswers
<1>3. CASE job[r].status \in Allowed(rows[Group].status) /\ Begin(r, list, read)
  <2>1. read \in Seen
    <3>1. rows[Group].status \in Status
      BY RowIds DEF TableInv, TypeOK, Row
    <3> QED
      BY <3>1 DEF Seen
  <2>2. list \in TodosOf(r)
    BY <1>1, TodosByKind DEF TableInv, ChangeTodos
  <2>3. ~Web(r) /\ Target(r) = job[r].status /\ read.group = rows[Group].status
    BY <1>1 DEF Web, Target
  <2> HIDE DEF read, list
  <2> QED
    BY <1>1, <1>3, <2>1, <2>2, <2>3, TableBegins
<1> QED
  BY <1>2, <1>3 DEF ChangeRead, Answers

LEMMA TableWebRead ==
    ASSUME TableInv, NEW r \in Requests, WebRead(r)
    PROVE  TableInv'
<1>1. /\ pc[r] = "start" /\ Web(r) /\ ~Settled(r, rows[Group].status)
      /\ UNCHANGED <<several, rows, writes, job, raced>>
  BY DEF WebRead
<1>2. PICK x \in OwnSeats(r) :
        Begin(r, WebStatements(r, x),
              [group |-> rows[Group].status, seat |-> x, status |-> rows[x].status])
  BY DEF WebRead
<1> DEFINE read == [group |-> rows[Group].status, seat |-> x, status |-> rows[x].status]
           list == WebStatements(r, x)
<1>3. x \in SeatId
  BY SeatsWritten DEF OwnSeats, TableInv, TypeOK
<1>4. read \in Seen
  <2>1. rows[Group].status \in Status /\ rows[x].status \in Status
    BY <1>3, RowIds DEF TableInv, TypeOK, Row
  <2> QED
    BY <1>3, <2>1 DEF Seen
<1>5. list \in TodosOf(r)
  <2>1. job[r].kind \in {"confirm", "cancel"}
    BY <1>1 DEF Web
  <2>2. CASE ~several
    BY <2>1, <2>2, TodosByKind DEF TableInv, OneTodos, WebStatements
  <2>3. CASE several
    <3>1. list \in {<<"setSeat">>, <<"setSeat", "dropEvent", "dropSeats", "dropGroup">>}
      BY <2>3 DEF WebStatements
    <3>2. TodosOf(r) = ClassTodos
      BY <2>1, <2>3, TodosByKind DEF TableInv
    <3> QED
      BY <3>1, <3>2 DEF ClassTodos
  <2> QED
    BY <2>2, <2>3 DEF TableInv, TypeOK
<1>6. Checks(r) => Target(r) \in Allowed(read.group)
  <2> SUFFICES ASSUME Checks(r) PROVE "CONFIRMED" \in Allowed(rows[Group].status)
                                      /\ Target(r) = "CONFIRMED"
    OBVIOUS
  <2>1. job[r].kind = "confirm"
    BY <1>1 DEF Checks, Web
  <2>2. rows[Group].status = "ACCEPTED"
    BY <1>1, <2>1 DEF Settled
  <2> QED
    BY <2>1, <2>2 DEF Allowed, Target
<1>7. read.seat = x
  OBVIOUS
<1> HIDE DEF read, list
<1>8. Begin(r, list, read)
  BY <1>2 DEF read, list
<1> QED
  BY <1>1, <1>3, <1>4, <1>5, <1>6, <1>7, <1>8, TableBegins

LEMMA TablePlatform ==
    ASSUME TableInv, NEW r \in Requests, Upsert(r) \/ Clear(r) \/ DeleteEvent(r)
    PROVE  TableInv'
<1>1. /\ pc[r] = "start" /\ job[r].kind \in {"edit", "clear", "delete"}
      /\ UNCHANGED <<several, rows, writes, job, raced>>
  BY DEF Upsert, Clear, DeleteEvent
<1>2. PICK list \in TodosOf(r) : Begin(r, list, seen[r])
  <2>1. CASE Upsert(r)
    <3>1. <<"openGroup", "setEvent", "replaceSeats">> \in TodosOf(r)
      BY <2>1, TodosByKind DEF TableInv, EditTodos, Upsert
    <3> QED
      BY <2>1, <3>1 DEF Upsert
  <2>2. CASE Clear(r)
    <3>1. <<"dateEvent", "dateSeats", "dateGroup">> \in TodosOf(r)
      BY <2>2, TodosByKind DEF TableInv, ClearTodos, Clear
    <3> QED
      BY <2>2, <3>1 DEF Clear
  <2>3. CASE DeleteEvent(r)
    <3>1. <<"dropEvent", "dropSeats", "dropGroup">> \in TodosOf(r) /\ <<>> \in TodosOf(r)
      BY <2>3, TodosByKind DEF TableInv, DropTodos, DeleteEvent
    <3> QED
      BY <2>3, <3>1 DEF DeleteEvent
  <2> QED
    BY <2>1, <2>2, <2>3
<1>3. seen[r] \in Seen /\ ~Web(r) /\ ~Checks(r)
  BY <1>1 DEF TableInv, TypeOK, Web, Checks
<1> QED
  BY <1>1, <1>2, <1>3, TableBegins

LEMMA TableStays ==
    ASSUME TableInv, UNCHANGED <<several, rows, writes, job, pc, todo, seen, raced>>
    PROVE  TableInv'
<1>1. TypeOK' /\ WritesApart'
  BY DEF TableInv, TypeOK, WritesApart, IsWritten
<1>2. Running'
  BY DEF TableInv, Running, TodosOf, Web, Autocommit
<1>3. Checked' /\ GroupWritten'
  BY DEF TableInv, Checked, GroupWritten, Checks, Target
<1> QED
  BY <1>1, <1>2, <1>3 DEF TableInv

LEMMA TableInit == Init => TableInv
<1> SUFFICES ASSUME Init PROVE TableInv
  OBVIOUS
<1>1. PICK scene \in Scenes, s \in Start :
        /\ several = scene.several
        /\ job = scene.jobs
        /\ rows = [x \in RowId |->
             [status |-> IF s = "PENDING" \/ x = Group THEN s ELSE "ACCEPTED",
              life |-> IF x \in {Group, Event} \union ({Initially} \X scene.clients)
                       THEN "live" ELSE "gone"]]
  BY DEF Init
<1>2. /\ writes = [r \in Requests |-> <<>>] /\ pc = [r \in Requests |-> "start"]
      /\ todo = [r \in Requests |-> <<>>] /\ raced = FALSE
      /\ seen = [r \in Requests |-> [group |-> NoStatus, seat |-> Initially, status |-> NoStatus]]
  BY DEF Init
<1>3. rows \in [RowId -> Row]
  BY <1>1 DEF Row, Life, Status, Cancelled
<1>4. several \in BOOLEAN /\ job \in [Requests -> Job]
  BY <1>1
<1>5. \A r \in Requests : IsWritten(writes[r]) /\ DOMAIN writes[r] = {}
  BY <1>2, Empty
<1>6. TypeOK
  <2>1. <<>> \in Todos
    BY DEF Todos, ChangeTodos
  <2> QED
    BY <1>2, <1>3, <1>4, <1>5, <2>1 DEF TypeOK, Seen
<1>7. Running /\ WritesApart /\ Checked /\ GroupWritten
  BY <1>2, <1>5 DEF Running, WritesApart, Checked, GroupWritten
<1> QED
  BY <1>6, <1>7 DEF TableInv

\* Every step keeps the invariant and, if it changes the status, follows the table.
LEMMA TableStep == TableInv /\ [Next]_vars => TableInv' /\ [FollowsTable]_vars
<1> SUFFICES ASSUME TableInv, [Next]_vars PROVE TableInv' /\ [FollowsTable]_vars
  OBVIOUS
<1>1. CASE UNCHANGED rows /\ TableInv'
  BY <1>1 DEF FollowsTable
<1>2. ASSUME NEW r \in Requests, Step(r)
      PROVE  TableInv' /\ FollowsTable
  <2>1. CASE ChangeRead(r)
    BY <2>1, TableChangeRead DEF ChangeRead, FollowsTable
  <2>2. CASE WebRead(r)
    BY <2>2, TableWebRead DEF WebRead, FollowsTable
  <2>3. CASE Upsert(r) \/ Clear(r) \/ DeleteEvent(r)
    BY <2>3, TablePlatform DEF Upsert, Clear, DeleteEvent, FollowsTable
  <2>4. CASE WebCached(r) \/ WebMissing(r) \/ WebSettled(r)
    BY <2>4, TableAnswers DEF WebCached, WebMissing, WebSettled, FollowsTable, Answers
  <2>5. CASE Throw(r) \/ DeadlockDetected(r)
    BY <2>5, TableRollback DEF Throw, DeadlockDetected, Rollback, FollowsTable
  <2>6. CASE Commit(r)
    BY <2>6, TableCommit
  <2>7. CASE Execute(r)
    <3>1. rows'[Group].status = rows[Group].status
      BY <2>7, ClassKeepsStatus DEF Execute, TableInv
    <3> QED
      BY <2>7, <3>1, TableExecute DEF FollowsTable
  <2> QED
    BY <1>2, <2>1, <2>2, <2>3, <2>4, <2>5, <2>6, <2>7 DEF Step
<1>3. CASE CacheExpires \/ UNCHANGED vars
  BY <1>1, <1>3, TableStays DEF CacheExpires, vars
<1> QED
  BY <1>2, <1>3 DEF Next

\* Rows, transactions and requests keep their types: what a transaction has
\* written are rows of the booking, and a running request has statements of its
\* own kind to execute.
THEOREM TypeCorrect == Spec => []TypeOK
BY TableInit, TableStep, PTL DEF Spec, TableInv

\* Whatever is asked for a booking and however the transactions interleave, its
\* status moves along ALLOWED until a request writes what it decided on an older
\* status; edits and cancellations by clients aside.
THEOREM StatusFollowsTable == Spec => TableUnlessRaced
BY TableInit, TableStep, PTL DEF Spec, TableUnlessRaced

-----------------------------------------------------------------------------
(***************************************************************************)
(* Why nobody attends a booking that the platform has cancelled, for any   *)
(* requests, clients and bookings.                                         *)
(*                                                                         *)
(* As long as nobody writes what an older status allowed, the seats that   *)
(* were there at first are only ever left: no statement makes one of them  *)
(* active again.  A transaction that cancels the booking leaves none of    *)
(* them active, neither of those it writes nor of those it passes over.    *)
(***************************************************************************)

InitialSeats == {Initially} \X Clients

PlatformCancelled == {"CANCELLED", "CANCELLED_BY_CLIENT_REMOVED"}

\* These leave no active seat, or none that was there at first.
Clears(r) ==
    \/ job[r].kind = "edit"
    \/ job[r].kind = "change" /\ Target(r) \in PlatformCancelled

\* The row x, in the eyes of r
Sees(r, x) == IF x \in DOMAIN writes[r] THEN writes[r][x] ELSE rows[x]

\* What a request has read and written of the seats
SeatsOf(r) ==
    /\ pc[r] = "run" /\ job[r].kind = "confirm" => seen[r].status = "ACCEPTED"
    /\ job[r].kind \in {"change", "confirm", "cancel"} /\ Group \in DOMAIN writes[r] =>
         writes[r][Group].status = Target(r)
    /\ ~raced => \A x \in InitialSeats \intersect DOMAIN writes[r] :
         Active(writes[r][x]) => Active(rows[x])
    /\ ~raced /\ pc[r] = "run" /\ todo[r] = <<>> /\ Clears(r) =>
         \A x \in InitialSeats : ~Active(Sees(r, x))

SeatsInv == (\A r \in Requests : SeatsOf(r)) /\ CancelledHasNoActiveSeat

-----------------------------------------------------------------------------
LEMMA Seats ==
    /\ InitialSeats \subseteq SeatId /\ InitialSeats \subseteq RowId
    /\ Group \notin InitialSeats /\ Event \notin InitialSeats
    /\ \A r \in Requests, c \in Clients : <<r, c>> \notin InitialSeats
BY DEF InitialSeats, SeatId, RowId

LEMMA SeesView ==
    ASSUME TypeOK, NEW r \in Requests, NEW x \in RowId
    PROVE  View(r)[x] = Sees(r, x) /\ View(r)[x] \in Row
<1>1. View(r) \in [RowId -> Row] /\ View(r)[x] = Sees(r, x)
  BY Views DEF Sees
<1> QED
  BY <1>1

LEMMA LifeSet ==
    ASSUME NEW view \in [RowId -> Row], NEW ids \in SUBSET RowId, NEW life \in {"deleted", "gone"}
    PROVE  \A x \in ids : ~Active(SetLife(view, ids, life)[x])
<1> SUFFICES ASSUME NEW x \in ids PROVE SetLife(view, ids, life)[x].life = life
  BY DEF Active
<1>1. view[x] \in Row
  OBVIOUS
<1>2. [view[x] EXCEPT !.life = life].life = life
  BY <1>1 DEF Row
<1> QED
  BY <1>2 DEF SetLife

\* A cascade makes no seat active, and one that cancels leaves none active.
LEMMA CascadeSeats ==
    ASSUME NEW view \in [RowId -> Row], NEW status \in Status
    PROVE  /\ \A x \in DOMAIN Cascade(view, status) :
                Active(Cascade(view, status)[x]) => Active(view[x])
           /\ status \in PlatformCancelled =>
                \A x \in SeatId :
                  /\ x \in DOMAIN Cascade(view, status) => ~Active(Cascade(view, status)[x])
                  /\ x \notin DOMAIN Cascade(view, status) => ~Active(view[x])
<1> DEFINE Set(ids, s) == [x \in ids |-> [view[x] EXCEPT !.status = s]]
<1>1. \A x \in SeatId : view[x] \in Row
  BY RowIds
<1>2. CASE status \in PlatformCancelled
  <2> DEFINE ids == {x \in SeatId : view[x].life # "gone" /\ view[x].status \notin Cancelled}
  <2>1. Cascade(view, status) = Set(ids, status)
    BY <1>2 DEF Cascade, SeatsIn, PlatformCancelled
  <2>2. \A x \in ids : Set(ids, status)[x].status = status
    BY <1>1 DEF Row
  <2>3. status \in Cancelled
    BY <1>2 DEF PlatformCancelled, Cancelled
  <2>4. DOMAIN Set(ids, status) = ids
    OBVIOUS
  <2>5. \A x \in SeatId \ ids : ~Active(view[x])
    BY DEF Active
  <2> HIDE DEF Set, ids
  <2>6. ids \subseteq SeatId
    BY DEF ids
  <2> QED
    BY <2>1, <2>2, <2>3, <2>4, <2>5, <2>6 DEF Active
<1>3. CASE status \in {"CONFIRMED", "ACCEPTED"}
  <2> DEFINE ids == {x \in SeatId : view[x].life # "gone" /\ view[x].status = "PENDING"}
  <2>1. Cascade(view, status) = Set(ids, "ACCEPTED")
    BY <1>3 DEF Cascade, SeatsIn
  <2>2. \A x \in ids : Set(ids, "ACCEPTED")[x].life = view[x].life
    BY <1>1 DEF Row
  <2>3. \A x \in ids : view[x].status \notin Cancelled
    BY DEF Cancelled
  <2>4. DOMAIN Set(ids, "ACCEPTED") = ids
    OBVIOUS
  <2>5. status \notin PlatformCancelled
    BY <1>3 DEF PlatformCancelled
  <2> HIDE DEF Set, ids
  <2> QED
    BY <2>1, <2>2, <2>3, <2>4, <2>5 DEF Active
<1>4. CASE status \notin PlatformCancelled \union {"CONFIRMED", "ACCEPTED"}
  <2>1. Cascade(view, status) = <<>>
    BY <1>4 DEF Cascade, PlatformCancelled
  <2> QED
    BY <1>4, <2>1, Empty
<1> QED
  BY <1>2, <1>3, <1>4

\* No statement makes a seat that was there at first active again, unless it
\* writes what an older status allowed.
LEMMA SeatEffects ==
    ASSUME TypeOK, Running, NEW r \in Requests, pc[r] = "run", todo[r] # <<>>, SeatsOf(r),
           Head(todo[r]) = "setSeat" => ~Outdated(r),
           NEW x \in InitialSeats, x \in DOMAIN Effect(r), Active(Effect(r)[x])
    PROVE  Active(View(r)[x])
<1> DEFINE head == Head(todo[r])
           view == View(r)
<1>1. view \in [RowId -> Row] /\ view[x] \in Row /\ x \in SeatId
  BY Views, Seats
<1>2. todo[r] \in TodosOf(r) /\ head \in Statements
  BY Statement DEF Running, TypeOK
<1>3. CASE head \in {"setGroup", "openGroup", "setEvent"}
  <2>1. Effect(r) \in {Only(Group, [view[Group] EXCEPT !.status = Target(r)]),
                       OpenGroup(r, view), UpsertService(view)}
    BY <1>3 DEF Effect
  <2>2. DOMAIN Effect(r) \subseteq {Group, Event}
    BY <2>1 DEF Only, OpenGroup, UpsertService
  <2> QED
    BY <2>2, Seats
<1>4. CASE head = "setSeat"
  <2>1. Effect(r) = Only(seen[r].seat, [view[seen[r].seat] EXCEPT !.status = Target(r)])
    BY <1>4 DEF Effect
  <2>2. x = seen[r].seat /\ Effect(r)[x] = [view[x] EXCEPT !.status = Target(r)]
    BY <2>1 DEF Only
  <2>3. job[r].kind \in {"confirm", "cancel"}
    BY <1>2, <1>4, Jobs, Heads DEF TodosOf, TypeOK, Web
  <2>4. view[x].status = seen[r].status /\ view[x].life = "live"
    BY <1>4, <2>2, <2>3 DEF Outdated, Web
  <2>5. CASE job[r].kind = "confirm"
    <3>1. view[x].status = "ACCEPTED"
      BY <2>4, <2>5 DEF SeatsOf
    <3> QED
      BY <2>4, <3>1 DEF Active, Cancelled
  <2>6. CASE job[r].kind = "cancel"
    <3>1. Target(r) = "CANCELLED_BY_CLIENT"
      BY <2>6 DEF Target
    <3>2. Effect(r)[x].status = Target(r)
      BY <1>1, <2>2 DEF Row
    <3> QED
      BY <3>1, <3>2 DEF Active, Cancelled
  <2> QED
    BY <2>3, <2>5, <2>6
<1>5. CASE head = "cascade"
  <2>1. Target(r) \in Status
    BY <1>2, <1>5, Jobs, Heads DEF TodosOf, TypeOK, Web
  <2>2. Effect(r) = Cascade(view, Target(r))
    BY <1>5 DEF Effect
  <2> QED
    BY <1>1, <2>1, <2>2, CascadeSeats
<1>6. CASE head = "replaceSeats"
  <2> DEFINE new == [y \in {r} \X job[r].clients |-> [status |-> "PENDING", life |-> "live"]]
             old == SetLife(view, LiveSeats(view), "deleted")
  <2>1. Effect(r) = Over(new, old)
    BY <1>6 DEF Effect, ReplaceSeats
  <2>2. x \notin DOMAIN new
    <3>1. job[r].kind = "edit"
      BY <1>2, <1>6, Jobs, Heads DEF TodosOf, TypeOK, Web
    <3> QED
      BY <3>1, Jobs, Seats
  <2> HIDE DEF new
  <2>3. x \in DOMAIN old /\ Effect(r)[x] = old[x]
    BY <2>1, <2>2 DEF Over
  <2>4. x \in LiveSeats(view) /\ LiveSeats(view) \in SUBSET RowId
    BY <1>1, <2>3, SeatsWritten, RowIds DEF SetLife
  <2> QED
    BY <1>1, <2>3, <2>4, LifeSet
<1>7. CASE head \in {"dateEvent", "dateSeats", "dateGroup", "dropEvent", "dropSeats", "dropGroup"}
  <2>1. PICK ids \in SUBSET RowId, life \in {"deleted", "gone"} : Effect(r) = SetLife(view, ids, life)
    <3>1. CASE head = "dateEvent"
      <4>1. Effect(r) = SetLife(view, IF view[Event].life = "live" THEN {Event} ELSE {}, "deleted")
        BY <3>1 DEF Effect
      <4> QED
        BY <1>1, <4>1, RowIds, SeatsWritten
    <3>2. CASE head = "dateSeats"
      <4>1. Effect(r) = SetLife(view, LiveSeats(view), "deleted")
        BY <3>2 DEF Effect
      <4> QED
        BY <1>1, <4>1, RowIds, SeatsWritten
    <3>3. CASE head = "dateGroup"
      <4>1. Effect(r) = SetLife(view, IF view[Group].life = "live" THEN {Group} ELSE {}, "deleted")
        BY <3>3 DEF Effect
      <4> QED
        BY <1>1, <4>1, RowIds, SeatsWritten
    <3>4. CASE head = "dropEvent"
      <4>1. Effect(r) = SetLife(view, {Event}, "gone")
        BY <3>4 DEF Effect
      <4> QED
        BY <1>1, <4>1, RowIds, SeatsWritten
    <3>5. CASE head = "dropSeats"
      <4>1. Effect(r) = SetLife(view, SeatsIn(view, LAMBDA row : row.life # "gone"), "gone")
        BY <3>5 DEF Effect
      <4> QED
        BY <1>1, <4>1, RowIds, SeatsWritten
    <3>6. CASE head = "dropGroup"
      <4>1. Effect(r) = SetLife(view, {Group}, "gone")
        BY <3>6 DEF Effect
      <4> QED
        BY <1>1, <4>1, RowIds, SeatsWritten
    <3> QED
      BY <1>7, <3>1, <3>2, <3>3, <3>4, <3>5, <3>6
  <2>2. x \in ids /\ Effect(r)[x] = [view[x] EXCEPT !.life = life]
    BY <2>1 DEF SetLife
  <2>3. Effect(r)[x].life = life
    BY <1>1, <2>2 DEF Row
  <2> QED
    BY <2>3 DEF Active
<1> QED
  BY <1>2, <1>3, <1>4, <1>5, <1>6, <1>7 DEF Statements

LEMMA Last ==
    ASSUME NEW t, t # <<>>, Tail(t) = <<>>
    PROVE  /\ t \in ChangeTodos => Head(t) = "cascade"
           /\ t \in EditTodos => Head(t) = "replaceSeats"
<1>1. \A a, b : t # <<a, b>>
  <2> SUFFICES ASSUME NEW a, NEW b, t = <<a, b>> PROVE FALSE
    OBVIOUS
  <2>1. Tail(t) = <<b>> /\ <<b>> # <<>>
    BY Tails
  <2> QED
    BY <2>1
<1>2. \A a, b, c : t # <<a, b, c>>
  <2> SUFFICES ASSUME NEW a, NEW b, NEW c, t = <<a, b, c>> PROVE FALSE
    OBVIOUS
  <2>1. Tail(t) = <<b, c>> /\ <<b, c>> # <<>>
    BY Tails
  <2> QED
    BY <2>1
<1>3. t \in ChangeTodos => t = <<"cascade">>
  BY <1>1, <1>2 DEF ChangeTodos
<1>4. t \in EditTodos => t = <<"replaceSeats">>
  BY <1>1, <1>2 DEF EditTodos
<1> QED
  BY <1>3, <1>4, Tails

\* The last statement of a transaction that clears the seats
LEMMA SeatsCleared ==
    ASSUME TypeOK, Running, NEW r \in Requests, pc[r] = "run", todo[r] # <<>>,
           Tail(todo[r]) = <<>>, Clears(r), NEW x \in InitialSeats
    PROVE  /\ x \in DOMAIN Effect(r) => ~Active(Effect(r)[x])
           /\ x \notin DOMAIN Effect(r) => ~Active(View(r)[x])
<1> DEFINE view == View(r)
<1>1. view \in [RowId -> Row] /\ x \in SeatId
  BY Views, Seats
<1>2. todo[r] \in TodosOf(r)
  BY DEF Running
<1>3. CASE job[r].kind = "edit"
  <2>1. Head(todo[r]) = "replaceSeats"
    <3>1. todo[r] \in EditTodos
      BY <1>2, <1>3, TodosByKind
    <3> QED
      BY <3>1, Last
  <2> DEFINE new == [y \in {r} \X job[r].clients |-> [status |-> "PENDING", life |-> "live"]]
             old == SetLife(view, LiveSeats(view), "deleted")
  <2>2. Effect(r) = Over(new, old)
    BY <2>1 DEF Effect, ReplaceSeats
  <2>3. x \notin DOMAIN new
    BY <1>3, Jobs, Seats
  <2>4. DOMAIN old = LiveSeats(view) /\ LiveSeats(view) \in SUBSET RowId
    BY <1>1, SeatsWritten, RowIds DEF SetLife
  <2>5. \A y \in LiveSeats(view) : ~Active(old[y])
    BY <1>1, <2>4, LifeSet
  <2>6. x \notin LiveSeats(view) => ~Active(view[x])
    BY <1>1 DEF LiveSeats, SeatsIn, Active
  <2> HIDE DEF new, old
  <2>7. x \in DOMAIN Effect(r) <=> x \in DOMAIN old
    BY <2>2, <2>3 DEF Over
  <2>8. x \in DOMAIN old => Effect(r)[x] = old[x]
    BY <2>2, <2>3 DEF Over
  <2> QED
    BY <2>4, <2>5, <2>6, <2>7, <2>8
<1>4. CASE job[r].kind = "change" /\ Target(r) \in PlatformCancelled
  <2>1. Head(todo[r]) = "cascade"
    <3>1. todo[r] \in ChangeTodos
      BY <1>2, <1>4, TodosByKind
    <3> QED
      BY <3>1, Last
  <2>2. Effect(r) = Cascade(view, Target(r)) /\ Target(r) \in Status
    BY <1>4, <2>1, Jobs DEF Effect
  <2> QED
    BY <1>1, <1>4, <2>2, CascadeSeats
<1> QED
  BY <1>3, <1>4 DEF Clears

-----------------------------------------------------------------------------
\* The seats that were there at first are only left, and stay as s has them.
SeatsLeft(s) ==
    ~raced' => \A x \in InitialSeats :
        /\ Active(rows'[x]) => Active(rows[x])
        /\ x \in DOMAIN writes[s] => rows'[x] = rows[x]

\* What the step of another request does to a request
LEMMA OthersStay ==
    ASSUME NEW s \in Requests, SeatsOf(s), SeatsLeft(s), raced => raced', UNCHANGED job,
           writes'[s] = writes[s], pc'[s] = pc[s], todo'[s] = todo[s], seen'[s] = seen[s]
    PROVE  SeatsOf(s)'
<1>1. Target(s)' = Target(s) /\ (Clears(s)' <=> Clears(s))
  BY DEF Target, Clears
<1>2. ASSUME ~raced', NEW x \in InitialSeats \intersect DOMAIN writes[s], Active(writes[s][x])
      PROVE  Active(rows'[x])
  BY <1>2 DEF SeatsOf, SeatsLeft
<1>3. ASSUME ~raced', pc[s] = "run", todo[s] = <<>>, Clears(s), NEW x \in InitialSeats
      PROVE  ~Active(Sees(s, x)')
  BY <1>3 DEF SeatsOf, SeatsLeft, Sees
<1>4. SeatsOf(s)' <=>
        /\ pc[s] = "run" /\ job[s].kind = "confirm" => seen[s].status = "ACCEPTED"
        /\ job[s].kind \in {"change", "confirm", "cancel"} /\ Group \in DOMAIN writes[s] =>
             writes[s][Group].status = Target(s)
        /\ ~raced' => \A x \in InitialSeats \intersect DOMAIN writes[s] :
             Active(writes[s][x]) => Active(rows'[x])
        /\ ~raced' /\ pc[s] = "run" /\ todo[s] = <<>> /\ Clears(s) =>
             \A x \in InitialSeats : ~Active(Sees(s, x)')
  BY <1>1 DEF SeatsOf, Active
<1> QED
  BY <1>2, <1>3, <1>4 DEF SeatsOf

LEMMA SeatsBegin ==
    ASSUME TableInv, SeatsInv, NEW r \in Requests, NEW t, NEW read, pc[r] = "start",
           Begin(r, t, read), UNCHANGED <<several, rows, writes, job, raced>>,
           job[r].kind = "confirm" => read.status = "ACCEPTED",
           Clears(r) => t # <<>>
    PROVE  SeatsInv'
<1>1. /\ pc'[r] = "run" /\ todo'[r] = t /\ seen'[r] = read
      /\ \A s \in Requests \ {r} : pc'[s] = pc[s] /\ todo'[s] = todo[s] /\ seen'[s] = seen[s]
  BY DEF TableInv, TypeOK, Begin
<1>2. DOMAIN writes'[r] = {} /\ (Clears(r)' <=> Clears(r))
  BY DEF TableInv, Running, Clears, Target
<1>3. SeatsOf(r)'
  BY <1>1, <1>2 DEF SeatsOf
<1>4. \A s \in Requests \ {r} : SeatsOf(s)'
  BY <1>1, OthersStay DEF SeatsInv, SeatsLeft
<1>5. CancelledHasNoActiveSeat'
  BY DEF SeatsInv, CancelledHasNoActiveSeat
<1> QED
  BY <1>3, <1>4, <1>5 DEF SeatsInv

LEMMA SeatsEnd ==
    ASSUME TableInv, SeatsInv, NEW r \in Requests, NEW answer \in Answers, Finish(r, answer),
           \/ UNCHANGED writes /\ pc[r] = "start"
           \/ writes' = [writes EXCEPT ![r] = <<>>],
           UNCHANGED <<job, seen, raced>>,
           \A s \in Requests \ {r} : SeatsLeft(s),
           CancelledHasNoActiveSeat'
    PROVE  SeatsInv'
<1>1. /\ pc'[r] = answer /\ answer # "run"
      /\ \A s \in Requests \ {r} : pc'[s] = pc[s] /\ todo'[s] = todo[s]
  BY DEF TableInv, TypeOK, Finish, Answers
<1>2. DOMAIN writes'[r] = {} /\ \A s \in Requests \ {r} : writes'[s] = writes[s]
  <2>1. writes = [s \in Requests |-> writes[s]]
    BY DEF TableInv, TypeOK
  <2>2. CASE UNCHANGED writes /\ pc[r] = "start"
    BY <2>2 DEF TableInv, Running
  <2>3. CASE writes' = [writes EXCEPT ![r] = <<>>]
    BY <2>1, <2>3, Empty
  <2> QED
    BY <2>2, <2>3
<1>3. SeatsOf(r)'
  BY <1>1, <1>2 DEF SeatsOf
<1>4. \A s \in Requests \ {r} : SeatsOf(s)'
  BY <1>1, <1>2, OthersStay DEF SeatsInv
<1> QED
  BY <1>3, <1>4 DEF SeatsInv

\* An answer or a rollback leaves the rows alone.
LEMMA SeatsAnswer ==
    ASSUME TableInv, SeatsInv, NEW r \in Requests, NEW answer \in Answers, Finish(r, answer),
           \/ UNCHANGED writes /\ pc[r] = "start"
           \/ writes' = [writes EXCEPT ![r] = <<>>],
           UNCHANGED <<rows, job, seen, raced>>
    PROVE  SeatsInv'
<1>1. \A s \in Requests : SeatsLeft(s)
  BY DEF SeatsLeft
<1>2. CancelledHasNoActiveSeat'
  BY DEF SeatsInv, CancelledHasNoActiveSeat
<1> QED
  BY <1>1, <1>2, SeatsEnd

LEMMA SeatsCommit ==
    ASSUME TableInv, SeatsInv, NEW r \in Requests, Commit(r)
    PROVE  SeatsInv'
<1>1. /\ rows' = View(r) /\ pc[r] = "run" /\ todo[r] = <<>>
      /\ writes' = [writes EXCEPT ![r] = <<>>]
      /\ Finish(r, "changed") /\ UNCHANGED <<several, job, seen, raced>>
  BY DEF Commit
<1>2. \A x \in RowId : rows'[x] = Sees(r, x)
  BY <1>1, SeesView DEF TableInv
<1>3. ASSUME ~raced, NEW x \in InitialSeats, Active(rows'[x])
      PROVE  Active(rows[x])
  <2>1. rows'[x] = Sees(r, x)
    BY <1>2, Seats
  <2> QED
    BY <1>3, <2>1 DEF Sees, SeatsInv, SeatsOf
<1>4. ASSUME NEW s \in Requests \ {r}
      PROVE  SeatsLeft(s)
  <2>1. \A x \in InitialSeats : x \in DOMAIN writes[s] => rows'[x] = rows[x]
    <3>1. DOMAIN writes[r] \intersect DOMAIN writes[s] = {}
      BY DEF TableInv, WritesApart
    <3> QED
      BY <1>2, <3>1, Seats DEF Sees
  <2> QED
    BY <1>1, <1>3, <2>1 DEF SeatsLeft
<1>5. CancelledHasNoActiveSeat'
  <2> SUFFICES ASSUME rows'[Group].status \in PlatformCancelled, ~raced, NEW x \in InitialSeats
               PROVE  ~Active(rows'[x])
    BY <1>1 DEF CancelledHasNoActiveSeat, InitialSeats, PlatformCancelled
  <2>1. rows'[Group] = Sees(r, Group) /\ rows'[x] = Sees(r, x)
    BY <1>2, Seats, RowIds
  <2>2. CASE rows'[Group].status = rows[Group].status
    <3>1. ~Active(rows[x])
      BY <2>2 DEF SeatsInv, CancelledHasNoActiveSeat, InitialSeats, PlatformCancelled
    <3> QED
      BY <1>3, <3>1
  <2>3. CASE Clears(r)
    BY <1>1, <2>1, <2>3 DEF SeatsInv, SeatsOf
  <2>4. CASE Group \in DOMAIN writes[r] /\ ~Clears(r)
    <3>1. job[r].kind \in {"clear", "delete"}
      <4>1. SUFFICES ASSUME job[r].kind \in {"change", "confirm", "cancel"} PROVE FALSE
        BY <2>4, Jobs DEF TableInv, Clears
      <4>2. Target(r) \in PlatformCancelled
        BY <2>1, <2>4, <4>1 DEF Sees, SeatsInv, SeatsOf
      <4> QED
        BY <2>4, <4>1, <4>2 DEF Clears, Target, PlatformCancelled
    <3>2. rows'[Group].status = rows[Group].status
      BY <2>1, <2>4, <3>1 DEF Sees, TableInv, GroupWritten
    <3> QED
      BY <2>2, <3>2
  <2> QED
    BY <2>1, <2>2, <2>3, <2>4 DEF Sees
<1>6. "changed" \in Answers
  BY DEF Answers
<1> QED
  BY <1>1, <1>4, <1>5, <1>6, SeatsEnd

\* A statement that is its own transaction
LEMMA SeatsExecuteClass ==
    ASSUME TableInv, SeatsInv, NEW r \in Requests, Execute(r), Autocommit(r)
    PROVE  SeatsInv'
<1>1. /\ pc[r] = "run" /\ todo[r] # <<>> /\ WaitsFor(r) = {}
      /\ UNCHANGED <<several, job, pc, seen, writes>>
      /\ rows' = Over(Effect(r), rows)
      /\ todo' = [todo EXCEPT ![r] = Tail(@)]
      /\ raced' = (raced \/ (Head(todo[r]) \in {"setGroup", "setSeat"} /\ Outdated(r)))
  BY DEF Execute
<1>2. DOMAIN writes[r] = {} /\ Web(r)
  BY DEF TableInv, Running, Autocommit
<1>3. \A x \in RowId : rows'[x] = IF x \in DOMAIN Effect(r) THEN Effect(r)[x] ELSE rows[x]
  <2> DEFINE effect == Effect(r)
  <2>1. IsWritten(effect) /\ rows \in [RowId -> Row]
    BY <1>1, Effects DEF TableInv, TypeOK
  <2>2. rows' = Over(effect, rows)
    BY <1>1
  <2> HIDE DEF effect
  <2>3. \A x \in RowId : rows'[x] = IF x \in DOMAIN effect THEN effect[x] ELSE rows[x]
    BY <2>1, <2>2, MergedRows
  <2> QED
    BY <2>3 DEF effect
<1>4. ASSUME ~raced', NEW x \in InitialSeats, Active(rows'[x])
      PROVE  Active(rows[x])
  <2>1. x \in RowId
    BY Seats
  <2>2. CASE x \in DOMAIN Effect(r)
    <3>1. Active(Effect(r)[x])
      BY <1>3, <1>4, <2>1, <2>2
    <3>2. Active(View(r)[x])
      BY <1>1, <1>4, <2>2, <3>1, SeatEffects DEF TableInv, SeatsInv
    <3>3. View(r)[x] = rows[x]
      BY <1>2, <2>1, SeesView DEF TableInv, Sees
    <3> QED
      BY <3>2, <3>3
  <2>3. CASE x \notin DOMAIN Effect(r)
    BY <1>3, <1>4, <2>1, <2>3
  <2> QED
    BY <2>2, <2>3
<1>5. ASSUME NEW s \in Requests
      PROVE  SeatsLeft(s)
  <2>1. DOMAIN writes[s] \intersect DOMAIN Effect(r) = {}
    BY <1>1, <1>2 DEF WaitsFor
  <2>2. \A x \in InitialSeats : x \in DOMAIN writes[s] => rows'[x] = rows[x]
    BY <1>3, <2>1, Seats
  <2> QED
    BY <1>4, <2>2 DEF SeatsLeft
<1>6. \A s \in Requests \ {r} : SeatsOf(s)'
  <2>1. \A s \in Requests \ {r} : todo'[s] = todo[s]
    BY <1>1 DEF TableInv, TypeOK
  <2> QED
    BY <1>1, <1>5, <2>1, OthersStay DEF SeatsInv
<1>7. SeatsOf(r)'
  <2>1. ~Clears(r)' /\ DOMAIN writes'[r] = {}
    BY <1>1, <1>2 DEF Clears, Web
  <2>2. pc'[r] = "run" /\ job'[r].kind = "confirm" => seen'[r].status = "ACCEPTED"
    BY <1>1 DEF SeatsInv, SeatsOf
  <2> QED
    BY <2>1, <2>2 DEF SeatsOf
<1>8. CancelledHasNoActiveSeat'
  <2>1. rows'[Group].status = rows[Group].status
    BY <1>1, ClassKeepsStatus DEF TableInv
  <2>2. ~raced' => ~raced
    BY <1>1
  <2> QED
    BY <1>4, <2>1, <2>2 DEF SeatsInv, CancelledHasNoActiveSeat, InitialSeats
<1> QED
  BY <1>6, <1>7, <1>8 DEF SeatsInv

\* A statement of a transaction
LEMMA SeatsExecute ==
    ASSUME TableInv, SeatsInv, NEW r \in Requests, Execute(r), ~Autocommit(r)
    PROVE  SeatsInv'
<1>1. /\ pc[r] = "run" /\ todo[r] # <<>> /\ WaitsFor(r) = {}
      /\ UNCHANGED <<several, job, pc, seen, rows>>
      /\ writes' = [writes EXCEPT ![r] = Over(Effect(r), @)]
      /\ todo' = [todo EXCEPT ![r] = Tail(@)]
      /\ raced' = (raced \/ (Head(todo[r]) \in {"setGroup", "setSeat"} /\ Outdated(r)))
  BY DEF Execute
<1>2. /\ DOMAIN writes'[r] = DOMAIN writes[r] \union DOMAIN Effect(r)
      /\ \A x \in DOMAIN writes'[r] :
           writes'[r][x] = IF x \in DOMAIN Effect(r) THEN Effect(r)[x] ELSE writes[r][x]
      /\ \A s \in Requests \ {r} : writes'[s] = writes[s]
  BY <1>1, StatementWrites DEF TableInv
<1>3. /\ todo'[r] = Tail(todo[r])
      /\ \A s \in Requests \ {r} : todo'[s] = todo[s]
  BY <1>1 DEF TableInv, TypeOK
<1>4. SeatsOf(r) /\ (Clears(r)' <=> Clears(r)) /\ Target(r)' = Target(r) /\ (~raced' => ~raced)
  BY <1>1 DEF SeatsInv, Clears, Target
<1>5. ASSUME job[r].kind \in {"change", "confirm", "cancel"}, Group \in DOMAIN writes'[r]
      PROVE  writes'[r][Group].status = Target(r)
  <2>1. CASE Group \in DOMAIN Effect(r)
    <3>1. todo[r] \in ChangeTodos \union OneTodos
      BY <1>1, <1>5, TodosByKind DEF TableInv, Running, Autocommit, Web
    <3>2. Head(todo[r]) = "setGroup"
      BY <1>1, <2>1, <3>1, Heads, Effects DEF WritesGroup, TableInv
    <3>3. Effect(r)[Group].status = Target(r)
      BY <1>1, <3>2, Effects DEF TableInv
    <3> QED
      BY <1>2, <1>5, <2>1, <3>3
  <2>2. CASE Group \notin DOMAIN Effect(r)
    BY <1>2, <1>4, <1>5, <2>2 DEF SeatsOf
  <2> QED
    BY <2>1, <2>2
<1>6. ASSUME ~raced', NEW x \in InitialSeats, x \in DOMAIN writes'[r], Active(writes'[r][x])
      PROVE  Active(rows[x])
  <2>1. CASE x \in DOMAIN Effect(r)
    <3>1. Active(View(r)[x])
      <4>1. Active(Effect(r)[x])
        BY <1>2, <1>6, <2>1
      <4> QED
        BY <1>1, <1>4, <1>6, <2>1, <4>1, SeatEffects DEF TableInv
    <3>2. Active(Sees(r, x))
      BY <3>1, SeesView, Seats DEF TableInv
    <3> QED
      BY <1>4, <1>6, <3>2 DEF SeatsOf, Sees
  <2>2. CASE x \notin DOMAIN Effect(r)
    BY <1>2, <1>4, <1>6, <2>2 DEF SeatsOf
  <2> QED
    BY <2>1, <2>2
<1>7. ASSUME todo'[r] = <<>>, Clears(r), NEW x \in InitialSeats
      PROVE  ~Active(Sees(r, x)')
  <2>1. /\ x \in DOMAIN Effect(r) => ~Active(Effect(r)[x])
        /\ x \notin DOMAIN Effect(r) => ~Active(View(r)[x])
    BY <1>1, <1>3, <1>7, SeatsCleared DEF TableInv
  <2>2. View(r)[x] = Sees(r, x)
    BY SeesView, Seats DEF TableInv
  <2>3. Sees(r, x)' = IF x \in DOMAIN Effect(r) THEN Effect(r)[x] ELSE Sees(r, x)
    BY <1>1, <1>2 DEF Sees
  <2> QED
    BY <2>1, <2>2, <2>3
<1>8. SeatsOf(r)'
  <2>1. SeatsOf(r)' <=>
          /\ pc[r] = "run" /\ job[r].kind = "confirm" => seen[r].status = "ACCEPTED"
          /\ job[r].kind \in {"change", "confirm", "cancel"} /\ Group \in DOMAIN writes'[r] =>
               writes'[r][Group].status = Target(r)
          /\ ~raced' => \A x \in InitialSeats \intersect DOMAIN writes'[r] :
               Active(writes'[r][x]) => Active(rows[x])
          /\ ~raced' /\ pc[r] = "run" /\ todo'[r] = <<>> /\ Clears(r) =>
               \A x \in InitialSeats : ~Active(Sees(r, x)')
    BY <1>1, <1>4 DEF SeatsOf, Active
  <2>2. pc[r] = "run" /\ job[r].kind = "confirm" => seen[r].status = "ACCEPTED"
    BY <1>4 DEF SeatsOf
  <2> QED
    BY <1>5, <1>6, <1>7, <2>1, <2>2
<1>9. \A s \in Requests \ {r} : SeatsOf(s)'
  BY <1>1, <1>2, <1>3, <1>4, OthersStay DEF SeatsInv, SeatsLeft
<1>10. CancelledHasNoActiveSeat'
  BY <1>1, <1>4 DEF SeatsInv, CancelledHasNoActiveSeat
<1> QED
  BY <1>8, <1>9, <1>10 DEF SeatsInv

-----------------------------------------------------------------------------
LEMMA SeatsInit == Init => SeatsInv
<1> SUFFICES ASSUME Init PROVE SeatsInv
  OBVIOUS
<1>1. \A r \in Requests : DOMAIN writes[r] = {} /\ pc[r] # "run"
  BY Empty DEF Init
<1>2. rows[Group].status \notin PlatformCancelled
  <2>1. rows[Group].status \in Start
    BY RowIds DEF Init
  <2> QED
    BY <2>1 DEF PlatformCancelled, Cancelled
<1> QED
  BY <1>1, <1>2 DEF SeatsInv, SeatsOf, CancelledHasNoActiveSeat, PlatformCancelled

LEMMA SeatsReads ==
    ASSUME TableInv, SeatsInv, NEW r \in Requests,
           ChangeRead(r) \/ WebRead(r) \/ Upsert(r) \/ Clear(r) \/ DeleteEvent(r)
    PROVE  SeatsInv'
<1>1. CASE \E answer \in Answers : Finish(r, answer) /\ UNCHANGED <<rows, writes, job, seen, raced>>
           /\ pc[r] = "start"
  BY <1>1, SeatsAnswer
<1>2. ASSUME NEW t, NEW read, pc[r] = "start", Begin(r, t, read),
             UNCHANGED <<several, rows, writes, job, raced>>,
             job[r].kind = "confirm" => read.status = "ACCEPTED", Clears(r) => t # <<>>
      PROVE  SeatsInv'
  BY <1>2, SeatsBegin
<1>3. CASE ChangeRead(r)
  <2>1. pc[r] = "start" /\ job[r].kind = "change"
        /\ UNCHANGED <<several, rows, writes, job, raced>>
    BY <1>3 DEF ChangeRead
  <2>2. CASE Begin(r, <<"setGroup", "cascade">>,
                   [group |-> rows[Group].status, seat |-> Initially, status |-> NoStatus])
    <3>1. <<"setGroup", "cascade">> # <<>>
      OBVIOUS
    <3> QED
      BY <1>2, <2>1, <2>2, <3>1
  <2> QED
    BY <1>1, <1>3, <2>1, <2>2 DEF ChangeRead, Answers
<1>4. CASE WebRead(r)
  <2>1. pc[r] = "start" /\ Web(r) /\ UNCHANGED <<several, rows, writes, job, raced>>
    BY <1>4 DEF WebRead
  <2>2. PICK x \in OwnSeats(r) :
          /\ ~SeatSettled(r, rows[x].status)
          /\ Begin(r, WebStatements(r, x),
                   [group |-> rows[Group].status, seat |-> x, status |-> rows[x].status])
    BY <1>4 DEF WebRead
  <2>3. job[r].kind = "confirm" => rows[x].status = "ACCEPTED"
    BY <2>2 DEF SeatSettled
  <2>4. ~Clears(r)
    BY <2>1 DEF Web, Clears
  <2> QED
    BY <1>2, <2>1, <2>2, <2>3, <2>4
<1>5. CASE Upsert(r)
  <2>1. <<"openGroup", "setEvent", "replaceSeats">> # <<>>
    OBVIOUS
  <2> QED
    BY <1>2, <1>5, <2>1 DEF Upsert
<1>6. CASE Clear(r)
  BY <1>2, <1>6 DEF Clear, Clears
<1>7. CASE DeleteEvent(r)
  <2>1. PICK t : Begin(r, t, seen[r])
    BY <1>7 DEF DeleteEvent
  <2> QED
    BY <1>2, <1>7, <2>1 DEF DeleteEvent, Clears
<1> QED
  BY <1>3, <1>4, <1>5, <1>6, <1>7

LEMMA SeatsStep == TableInv /\ SeatsInv /\ [Next]_vars => SeatsInv'
<1> SUFFICES ASSUME TableInv, SeatsInv, [Next]_vars PROVE SeatsInv'
  OBVIOUS
<1>1. ASSUME NEW r \in Requests, Step(r)
      PROVE  SeatsInv'
  <2>1. CASE ChangeRead(r) \/ WebRead(r) \/ Upsert(r) \/ Clear(r) \/ DeleteEvent(r)
    BY <2>1, SeatsReads
  <2>2. CASE WebCached(r) \/ WebMissing(r) \/ WebSettled(r)
    BY <2>2, SeatsAnswer DEF WebCached, WebMissing, WebSettled, Answers
  <2>3. CASE Throw(r) \/ DeadlockDetected(r)
    BY <2>3, SeatsAnswer DEF Throw, DeadlockDetected, Rollback, Answers
  <2>4. CASE Execute(r)
    BY <2>4, SeatsExecute, SeatsExecuteClass
  <2>5. CASE Commit(r)
    BY <2>5, SeatsCommit
  <2> QED
    BY <1>1, <2>1, <2>2, <2>3, <2>4, <2>5 DEF Step
<1>2. CASE CacheExpires \/ UNCHANGED vars
  <2>1. UNCHANGED <<rows, writes, job, pc, todo, seen, raced>>
    BY <1>2 DEF CacheExpires, vars
  <2>2. \A s \in Requests : SeatsOf(s)'
    BY <2>1, OthersStay DEF SeatsInv, SeatsLeft
  <2> QED
    BY <2>1, <2>2 DEF SeatsInv, CancelledHasNoActiveSeat
<1> QED
  BY <1>1, <1>2 DEF Next

\* Whatever is asked for a booking and however the transactions interleave,
\* nobody who was in it at first attends it once the platform has cancelled it,
\* until a request writes what it decided on an older status.
THEOREM NobodyAttendsCancelled == Spec => []CancelledHasNoActiveSeat
BY TableInit, TableStep, SeatsInit, SeatsStep, PTL DEF Spec, SeatsInv
-----------------------------------------------------------------------------
(* Circles of waits *)

LEMMA LeastNumber ==
    ASSUME NEW T, T \subseteq Nat, T # {}
    PROVE  \E x \in T : \A y \in T : x <= y
<1>1. PICK R : R = OpToRel(<, Nat)
  OBVIOUS
<1>2. IsWellFoundedOn(R, Nat)
  BY <1>1, NatLessThanWellFounded
<1>3. PICK x \in T : \A y \in T : ~ (<<y, x>> \in R)
  BY <1>2, WFMin
<1>4. ASSUME NEW y \in T, ~(x <= y)
      PROVE  FALSE
  <2>1. x \in Nat /\ y \in Nat /\ y < x
    BY <1>4
  <2>2. PICK p : p = <<y, x>>
    OBVIOUS
  <2>3. p \in Nat \X Nat /\ p[1] = y /\ p[2] = x
    BY <2>1, <2>2
  <2>4. p[1] < p[2]
    BY <2>1, <2>3
  <2>5. R = {ss \in Nat \X Nat : ss[1] < ss[2]}
    BY <1>1 DEF OpToRel
  <2>6. p \in R
    BY <2>3, <2>4, <2>5
  <2> QED
    BY <1>3, <2>2, <2>6
<1> QED
  BY <1>4

\* Whom r reaches through one request more
Further(waits, f) == [r \in Requests |-> f[r] \union UNION {waits[s] : s \in f[r]}]

\* The recursion over the number of requests defines whom each one reaches.
LEMMA ReachDefined ==
    ASSUME NEW waits, NEW n \in Nat
    PROVE  Reach(waits, n) =
             [i \in 0..n |-> IF i = 0 THEN waits
                                      ELSE Further(waits, Reach(waits, n)[i - 1])]
<1> DEFINE Defines(g, k) ==
             g = [i \in 0..k |-> IF i = 0 THEN waits ELSE Further(waits, g[i - 1])]
           Bad == {k \in Nat : ~\E g : Defines(g, k)}
<1>1. \A k \in Nat : \E g : Defines(g, k)
  <2> SUFFICES ASSUME Bad # {} PROVE FALSE
    OBVIOUS
  <2>0. Bad \subseteq Nat
    OBVIOUS
  <2>1. PICK k \in Bad : \A m \in Bad : k <= m
    BY <2>0, LeastNumber
  <2>2. k \in Nat /\ ~\E g : Defines(g, k)
    OBVIOUS
  <2>3. k # 0
    <3> SUFFICES ASSUME k = 0 PROVE FALSE
      OBVIOUS
    <3>1. PICK g : g = [i \in 0..0 |-> waits]
      OBVIOUS
    <3>2. \A i \in 0..0 : i = 0
      OBVIOUS
    <3>3. Defines(g, 0)
      BY <3>1, <3>2
    <3> QED
      BY <2>2, <3>3
  <2>4. k - 1 \in Nat /\ ~(k <= k - 1)
    BY <2>2, <2>3
  <2>5. PICK g : Defines(g, k - 1)
    <3>1. k - 1 \notin Bad
      BY <2>1, <2>4
    <3> QED
      BY <2>4, <3>1
  <2>6. PICK h : h = [i \in 0..k |-> IF i = 0 THEN waits ELSE Further(waits, g[i - 1])]
    OBVIOUS
  <2>7. \A i \in 0..(k - 1) : h[i] = g[i]
    BY <2>2, <2>4, <2>5, <2>6
  <2>8. \A i \in 0..k : i # 0 => i - 1 \in 0..(k - 1)
    BY <2>2
  <2>9. \A i \in 0..k : i # 0 => h[i - 1] = g[i - 1]
    BY <2>7, <2>8
  <2>10. Defines(h, k)
    BY <2>6, <2>9
  <2> QED
    BY <2>2, <2>10
<1>2. PICK g : Defines(g, n)
  BY <1>1
<1>3. Reach(waits, n) = CHOOSE f : Defines(f, n)
  BY DEF Reach, Further
<1> HIDE DEF Defines
<1>4. Defines(Reach(waits, n), n)
  BY <1>2, <1>3
<1> QED
  BY <1>4 DEF Defines

LEMMA ReachSteps ==
    ASSUME NEW waits \in [Requests -> SUBSET Requests], NEW n \in Nat
    PROVE  /\ Reach(waits, n)[0] = waits
           /\ \A i \in 0..n : i # 0 => \A r \in Requests :
                Reach(waits, n)[i][r] =
                  Reach(waits, n)[i - 1][r]
                    \union UNION {waits[s] : s \in Reach(waits, n)[i - 1][r]}
<1> DEFINE R == Reach(waits, n)
<1>1. R = [i \in 0..n |-> IF i = 0 THEN waits ELSE Further(waits, R[i - 1])]
  BY ReachDefined
<1> HIDE DEF R
<1>2. R[0] = waits /\ \A i \in 0..n : i # 0 => R[i] = Further(waits, R[i - 1])
  <2>1. 0 \in 0..n
    OBVIOUS
  <2> QED
    BY <1>1, <2>1
<1> QED
  BY <1>2 DEF Further, R
LEMMA ReachBounds ==
    ASSUME NEW waits \in [Requests -> SUBSET Requests], NEW n \in Nat, NEW i \in 0..n,
           NEW r \in Requests
    PROVE  /\ Reach(waits, n)[i][r] \subseteq Requests
           /\ waits[r] \subseteq Reach(waits, n)[i][r]
           /\ waits[r] = {} => Reach(waits, n)[i][r] = {}
<1> DEFINE R == Reach(waits, n)
           Good(k) == \A a \in Requests :
             /\ R[k][a] \subseteq Requests
             /\ waits[a] \subseteq R[k][a]
             /\ waits[a] = {} => R[k][a] = {}
           Bad == {k \in 0..n : ~Good(k)}
<1> HIDE DEF R
<1>1. Bad = {}
  <2> SUFFICES ASSUME Bad # {} PROVE FALSE
    OBVIOUS
  <2>1. Bad \subseteq Nat
    OBVIOUS
  <2>2. PICK k \in Bad : \A m \in Bad : k <= m
    BY <2>1, LeastNumber
  <2>3. k \in 0..n /\ ~Good(k)
    OBVIOUS
  <2>4. CASE k = 0
    <3>1. R[0] = waits
      BY ReachSteps DEF R
    <3>2. Good(0)
      BY <3>1
    <3> QED
      BY <2>3, <2>4, <3>2
  <2>5. CASE k # 0
    <3>1. k - 1 \in 0..n /\ ~(k <= k - 1)
      BY <2>3, <2>5
    <3>2. Good(k - 1)
      <4>1. k - 1 \notin Bad
        BY <2>2, <3>1
      <4> QED
        BY <3>1, <4>1
    <3>3. ASSUME NEW q \in Requests
          PROVE  /\ R[k][q] \subseteq Requests
                 /\ waits[q] \subseteq R[k][q]
                 /\ waits[q] = {} => R[k][q] = {}
      <4>1. R[k][q] = R[k - 1][q] \union UNION {waits[s] : s \in R[k - 1][q]}
        BY <2>3, <2>5, ReachSteps DEF R
      <4>2. /\ R[k - 1][q] \subseteq Requests
            /\ waits[q] \subseteq R[k - 1][q]
            /\ waits[q] = {} => R[k - 1][q] = {}
        BY <3>2
      <4> HIDE DEF Good, Bad
      <4>3. UNION {waits[s] : s \in R[k - 1][q]} \subseteq Requests
        BY <4>2
      <4> QED
        BY <4>1, <4>2, <4>3
    <3> QED
      BY <2>3, <3>3
  <2> QED
    BY <2>4, <2>5
<1>2. Good(i)
  BY <1>1
<1> QED
  BY <1>2 DEF R

\* Whom r reaches, it waits for, or one that it waits for reaches.
LEMMA FirstStep ==
    ASSUME NEW waits \in [Requests -> SUBSET Requests], NEW n \in Nat, NEW i \in 0..n,
           i # 0, NEW r \in Requests, NEW x \in Reach(waits, n)[i][r]
    PROVE  x \in waits[r] \/ \E s \in waits[r] : x \in Reach(waits, n)[i - 1][s]
<1> DEFINE R == Reach(waits, n)
           Good(k) == \A a \in Requests : \A b \in R[k][a] :
             b \in waits[a] \/ \E c \in waits[a] : b \in R[k - 1][c]
           Bad == {k \in 1..n : ~Good(k)}
<1> HIDE DEF R
<1>1. Bad = {}
  <2> SUFFICES ASSUME Bad # {} PROVE FALSE
    OBVIOUS
  <2>1. Bad \subseteq Nat
    OBVIOUS
  <2>2. PICK k \in Bad : \A m \in Bad : k <= m
    BY <2>1, LeastNumber
  <2>3. k \in 1..n /\ ~Good(k)
    OBVIOUS
  <2>4. PICK q \in Requests : ~\A b \in R[k][q] :
          b \in waits[q] \/ \E c \in waits[q] : b \in R[k - 1][c]
    BY <2>3
  <2>5. PICK y \in R[k][q] : y \notin waits[q] /\ \A c \in waits[q] : y \notin R[k - 1][c]
    BY <2>4
  <2>6. k - 1 \in 0..n /\ k \in 0..n /\ k # 0
    BY <2>3
  <2>7. /\ R[k][q] = R[k - 1][q] \union UNION {waits[s] : s \in R[k - 1][q]}
        /\ \A s \in Requests : waits[s] \subseteq R[k - 1][s]
        /\ waits[q] \subseteq Requests
    BY <2>6, ReachSteps, ReachBounds DEF R
  <2>8. CASE k = 1
    <3>1. R[k - 1] = waits
      BY <2>8, ReachSteps DEF R
    <3> QED
      BY <2>5, <2>7, <3>1
  <2>9. CASE k # 1
    <3>1. k - 1 \in 1..n /\ ~(k <= k - 1) /\ (k - 1) - 1 \in 0..n
      BY <2>3, <2>9
    <3>2. Good(k - 1)
      <4>1. k - 1 \notin Bad
        BY <2>2, <3>1
      <4> QED
        BY <3>1, <4>1
    <3>3. \A s \in Requests : /\ R[(k - 1) - 1][s] \subseteq R[k - 1][s]
                              /\ \A u \in R[(k - 1) - 1][s] : waits[u] \subseteq R[k - 1][s]
      <4>1. k - 1 \in 0..n /\ k - 1 # 0
        BY <3>1
      <4>2. \A s \in Requests : R[k - 1][s] =
              R[(k - 1) - 1][s] \union UNION {waits[u] : u \in R[(k - 1) - 1][s]}
        BY <4>1, ReachSteps DEF R
      <4> QED
        BY <4>2
    <3>4. \A z \in R[k - 1][q] : z \in waits[q] \/ \E s \in waits[q] : z \in R[(k - 1) - 1][s]
      BY <3>2
    <3> HIDE DEF Good, Bad
    <3>5. y \notin R[k - 1][q]
      BY <2>5, <2>7, <3>3, <3>4
    <3>6. PICK u \in R[k - 1][q] : y \in waits[u]
      BY <2>5, <2>7, <3>5
    <3> QED
      BY <2>5, <2>7, <3>3, <3>4, <3>6
  <2> QED
    BY <2>8, <2>9
<1>2. i \in 1..n
  OBVIOUS
<1>3. Good(i)
  BY <1>1, <1>2
<1> QED
  BY <1>3 DEF R

\* A request of a circle waits for another one of a circle.
LEMMA CircleGoesOn ==
    ASSUME NEW r \in InCircle
    PROVE  r \in Requests /\ \E s \in WaitsFor(r) : s \in InCircle
<1> DEFINE n == Cardinality(Blocked)
           R == Reach(Waits, n)
<1>1. n \in Nat /\ Blocked \subseteq Requests
  BY RequestsFinite, FS_Subset, FS_CardinalityType DEF Blocked
<1>2. /\ ~(n < 2) /\ r \in Blocked /\ r \in R[n][r]
      /\ InCircle = {q \in Blocked : q \in R[n][q]}
  BY DEF InCircle
<1>3. /\ Waits \in [Requests -> SUBSET Requests]
      /\ \A q \in Requests : Waits[q] = WaitsFor(q) /\ q \notin WaitsFor(q)
  BY DEF Waits, WaitsFor
<1> HIDE DEF n, R
<1>4. n \in 0..n /\ n # 0 /\ n - 1 \in 0..n
  BY <1>1, <1>2
<1>5. PICK s \in WaitsFor(r) : r \in R[n - 1][s]
  <2>1. r \in Waits[r] \/ \E s \in Waits[r] : r \in R[n - 1][s]
    BY <1>1, <1>2, <1>3, <1>4, FirstStep DEF R
  <2> QED
    BY <1>1, <1>2, <1>3, <2>1
<1>6. s \in Requests
  BY <1>1, <1>2, <1>3
<1>7. s \in R[n][s]
  <2>1. R[n][s] = R[n - 1][s] \union UNION {Waits[u] : u \in R[n - 1][s]}
    BY <1>1, <1>3, <1>4, <1>6, ReachSteps DEF R
  <2>2. s \in Waits[r]
    BY <1>1, <1>2, <1>3, <1>5
  <2> QED
    BY <1>5, <2>1, <2>2
<1>8. s \in Blocked
  <2>1. Waits[s] # {}
    BY <1>1, <1>3, <1>4, <1>5, <1>6, ReachBounds DEF R
  <2> QED
    BY <1>3, <1>6, <2>1 DEF Blocked
<1> QED
  BY <1>1, <1>2, <1>5, <1>7, <1>8
\* Those that lock the booking before its event and its seats
GroupFirst(r) == job[r].kind \in {"change", "edit"}

\* The others lock the event, then seats, then the booking.
Height(x) == IF x = Event THEN 1 ELSE IF x = Group THEN 3 ELSE 2

Stage(s) ==
    IF s \in {"dateEvent", "dropEvent"} THEN 1
    ELSE IF s \in {"setSeat", "dateSeats", "dropSeats"} THEN 2 ELSE 3

LocksFirst(r) ==
    IF todo[r] # <<>> /\ Head(todo[r]) \in {"setGroup", "openGroup"}
    THEN DOMAIN writes[r] = {} ELSE Group \in DOMAIN writes[r]

LocksLast(r) ==
    todo[r] # <<>> => \A x \in DOMAIN writes[r] : Height(x) < Stage(Head(todo[r]))

LockOrder(r) == pc[r] = "run" => IF GroupFirst(r) THEN LocksFirst(r) ELSE LocksLast(r)

LocksInOrder == \A r \in Requests : LockOrder(r)

\* The statements of those that lock the booking last go upwards.
LEMMA StagesRise ==
    ASSUME NEW t \in ClearTodos \union DropTodos \union OneTodos, t # <<>>, Tail(t) # <<>>
    PROVE  Stage(Head(t)) < Stage(Head(Tail(t)))
<1>1. ASSUME NEW a, NEW b, NEW c, t \in {<<>>, <<a, b, c>>, <<b, c>>, <<c>>},
             Stage(a) = 1, Stage(b) = 2, Stage(c) = 3
      PROVE  Stage(Head(t)) < Stage(Head(Tail(t)))
  <2>1. CASE t = <<a, b, c>>
    <3>1. Head(t) = a /\ Head(Tail(t)) = b
      BY <2>1, Tails
    <3> QED
      BY <1>1, <3>1
  <2>2. CASE t = <<b, c>>
    <3>1. Head(t) = b /\ Head(Tail(t)) = c
      BY <2>2, Tails
    <3> QED
      BY <1>1, <3>1
  <2>3. t # <<c>>
    BY Tails
  <2> QED
    BY <1>1, <2>1, <2>2, <2>3
<1>2. /\ Stage("dateEvent") = 1 /\ Stage("dropEvent") = 1 /\ Stage("dateSeats") = 2
      /\ Stage("dropSeats") = 2 /\ Stage("setSeat") = 2 /\ Stage("setGroup") = 3
      /\ Stage("dateGroup") = 3 /\ Stage("dropGroup") = 3
  BY DEF Stage
<1>3. CASE t \in ClearTodos
  BY <1>1, <1>2, <1>3 DEF ClearTodos
<1>4. CASE t \in DropTodos
  BY <1>1, <1>2, <1>4 DEF DropTodos
<1>5. CASE t \in OneTodos
  <2>1. t # <<"setGroup">>
    BY Tails
  <2>2. t = <<"setSeat", "setGroup">>
    BY <1>5, <2>1 DEF OneTodos
  <2>3. Head(t) = "setSeat" /\ Head(Tail(t)) = "setGroup"
    BY <2>2, Tails
  <2> QED
    BY <1>2, <2>3
<1> QED
  BY <1>3, <1>4, <1>5

\* What their statements write is as high as the statements.
LEMMA StageOfEffect ==
    ASSUME TypeOK, Running, NEW r \in Requests, pc[r] = "run", todo[r] # <<>>,
           ~GroupFirst(r), NEW x \in DOMAIN Effect(r)
    PROVE  Height(x) = Stage(Head(todo[r]))
<1> DEFINE head == Head(todo[r])
<1>1. head \in {"setSeat", "setGroup", "dateEvent", "dateSeats", "dateGroup",
                "dropEvent", "dropSeats", "dropGroup"}
  <2>1. todo[r] \in TodosOf(r)
    BY DEF Running
  <2>2. todo[r] \in ClearTodos \union DropTodos \union OneTodos \union ClassTodos
    BY <2>1, Jobs, TodosByKind DEF GroupFirst
  <2> QED
    BY <2>2, Heads
<1>2. \A y \in SeatId : Height(y) = 2
  BY RowIds, StatusAssumption DEF Height
<1>3. Height(Event) = 1 /\ Height(Group) = 3
  BY StatusAssumption DEF Height
<1>4. View(r) \in [RowId -> Row]
  BY Views
<1>5. CASE head = "setSeat"
  <2>1. Web(r)
    BY <1>5, Jobs, Heads, TodosByKind DEF Running, GroupFirst, Web
  <2>2. seen[r].seat \in SeatId
    BY <2>1 DEF Running
  <2>3. x = seen[r].seat
    BY <1>5 DEF Effect, Only
  <2> QED
    BY <1>2, <1>5, <2>2, <2>3 DEF Stage
<1>6. CASE head = "setGroup"
  <2>1. x = Group
    BY <1>6, Effects
  <2> QED
    BY <1>3, <1>6, <2>1 DEF Stage
<1>7. CASE head \in {"dateEvent", "dropEvent"}
  <2>1. x = Event
    BY <1>7 DEF Effect, SetLife
  <2> QED
    BY <1>3, <1>7, <2>1 DEF Stage
<1>8. CASE head \in {"dateGroup", "dropGroup"}
  <2>1. x = Group
    BY <1>8 DEF Effect, SetLife
  <2> QED
    BY <1>3, <1>8, <2>1 DEF Stage
<1>9. CASE head \in {"dateSeats", "dropSeats"}
  <2>1. x \in SeatId
    BY <1>9 DEF Effect, SetLife, LiveSeats, SeatsIn
  <2> QED
    BY <1>2, <1>9, <2>1 DEF Stage
<1> QED
  BY <1>1, <1>5, <1>6, <1>7, <1>8, <1>9
\* The step of another request leaves the order of r's locks alone.
LEMMA OthersKeepOrder ==
    ASSUME NEW s \in Requests, LockOrder(s), UNCHANGED job,
           writes'[s] = writes[s], pc'[s] = pc[s], todo'[s] = todo[s]
    PROVE  LockOrder(s)'
<1>1. (GroupFirst(s)' <=> GroupFirst(s)) /\ (\A x : Height(x)' = Height(x))
  BY DEF GroupFirst, Height
<1>2. (LocksFirst(s)' <=> LocksFirst(s)) /\ (LocksLast(s)' <=> LocksLast(s))
  BY DEF LocksFirst, LocksLast, Height, Stage
<1> QED
  BY <1>1, <1>2 DEF LockOrder

LEMMA OrderBegins ==
    ASSUME TableInv, LocksInOrder, NEW r \in Requests, NEW t, NEW read, pc[r] = "start",
           Begin(r, t, read), UNCHANGED <<writes, job>>,
           GroupFirst(r) => t # <<>> /\ Head(t) \in {"setGroup", "openGroup"}
    PROVE  LocksInOrder'
<1>1. /\ todo'[r] = t
      /\ \A s \in Requests \ {r} : pc'[s] = pc[s] /\ todo'[s] = todo[s]
  BY DEF TableInv, TypeOK, Begin
<1>2. DOMAIN writes'[r] = {} /\ (GroupFirst(r)' <=> GroupFirst(r))
  BY DEF TableInv, Running, GroupFirst
<1>3. LockOrder(r)'
  BY <1>1, <1>2 DEF LockOrder, LocksFirst, LocksLast
<1>4. \A s \in Requests \ {r} : LockOrder(s)'
  BY <1>1, OthersKeepOrder DEF LocksInOrder
<1> QED
  BY <1>3, <1>4 DEF LocksInOrder

LEMMA OrderEnds ==
    ASSUME TableInv, LocksInOrder, NEW r \in Requests, NEW answer \in Answers,
           Finish(r, answer), UNCHANGED job,
           UNCHANGED writes \/ writes' = [writes EXCEPT ![r] = <<>>]
    PROVE  LocksInOrder'
<1>1. /\ pc'[r] # "run"
      /\ \A s \in Requests \ {r} : pc'[s] = pc[s] /\ todo'[s] = todo[s]
  BY DEF TableInv, TypeOK, Finish, Answers
<1>2. \A s \in Requests \ {r} : writes'[s] = writes[s]
  BY DEF TableInv, TypeOK
<1>3. LockOrder(r)'
  BY <1>1 DEF LockOrder
<1>4. \A s \in Requests \ {r} : LockOrder(s)'
  BY <1>1, <1>2, OthersKeepOrder DEF LocksInOrder
<1> QED
  BY <1>3, <1>4 DEF LocksInOrder

LEMMA OrderReads ==
    ASSUME TableInv, LocksInOrder, NEW r \in Requests,
           ChangeRead(r) \/ WebRead(r) \/ Upsert(r) \/ Clear(r) \/ DeleteEvent(r)
    PROVE  LocksInOrder'
<1>1. pc[r] = "start" /\ UNCHANGED <<writes, job>>
  BY DEF ChangeRead, WebRead, Upsert, Clear, DeleteEvent
<1>2. CASE ChangeRead(r)
  <2>1. CASE \E answer \in Answers : Finish(r, answer)
    BY <1>1, <2>1, OrderEnds
  <2>2. CASE Begin(r, <<"setGroup", "cascade">>,
                   [group |-> rows[Group].status, seat |-> Initially, status |-> NoStatus])
    BY <1>1, <2>2, Tails, OrderBegins
  <2> QED
    BY <1>2, <2>1, <2>2 DEF ChangeRead, Answers
<1>3. CASE WebRead(r)
  <2>1. ~GroupFirst(r)
    BY <1>3 DEF WebRead, Web, GroupFirst
  <2>2. PICK t, read : Begin(r, t, read)
    BY <1>3 DEF WebRead
  <2> QED
    BY <1>1, <2>1, <2>2, OrderBegins
<1>4. CASE Upsert(r)
  <2>1. Begin(r, <<"openGroup", "setEvent", "replaceSeats">>, seen[r])
    BY <1>4 DEF Upsert
  <2> QED
    BY <1>1, <2>1, Tails, OrderBegins
<1>5. CASE Clear(r) \/ DeleteEvent(r)
  <2>1. ~GroupFirst(r)
    BY <1>5 DEF Clear, DeleteEvent, GroupFirst
  <2>2. PICK t : Begin(r, t, seen[r])
    BY <1>5 DEF Clear, DeleteEvent
  <2> QED
    BY <1>1, <2>1, <2>2, OrderBegins
<1> QED
  BY <1>2, <1>3, <1>4, <1>5

\* A statement, in a transaction or on its own
LEMMA OrderExecute ==
    ASSUME TableInv, LocksInOrder, NEW r \in Requests, Execute(r)
    PROVE  LocksInOrder'
<1>1. /\ pc[r] = "run" /\ todo[r] # <<>> /\ WaitsFor(r) = {}
      /\ UNCHANGED <<several, job, pc>>
      /\ todo' = [todo EXCEPT ![r] = Tail(@)]
      /\ Autocommit(r) => UNCHANGED writes
      /\ ~Autocommit(r) => writes' = [writes EXCEPT ![r] = Over(Effect(r), @)]
  BY DEF Execute
<1>2. /\ todo'[r] = Tail(todo[r])
      /\ \A s \in Requests \ {r} : todo'[s] = todo[s]
  BY <1>1 DEF TableInv, TypeOK
<1>3. /\ ~Autocommit(r) => DOMAIN writes'[r] = DOMAIN writes[r] \union DOMAIN Effect(r)
      /\ Autocommit(r) => DOMAIN writes'[r] = {}
      /\ \A s \in Requests \ {r} : writes'[s] = writes[s]
  BY <1>1, StatementWrites DEF TableInv, Running
<1>4. todo[r] \in TodosOf(r)
  BY <1>1 DEF TableInv, Running
<1>5. ASSUME GroupFirst(r)
      PROVE  LocksFirst(r)'
  <2>1. ~Autocommit(r) /\ LocksFirst(r)
    BY <1>1, <1>5 DEF GroupFirst, Autocommit, Web, LocksInOrder, LockOrder
  <2>2. Group \in DOMAIN writes'[r]
    <3>1. CASE Head(todo[r]) \in {"setGroup", "openGroup"}
      <4>1. DOMAIN Effect(r) = {Group}
        BY <1>1, <3>1, Effects DEF TableInv, Effect, OpenGroup, Only
      <4> QED
        BY <1>3, <2>1, <4>1
    <3>2. CASE Head(todo[r]) \notin {"setGroup", "openGroup"}
      BY <1>1, <1>3, <2>1, <3>2 DEF LocksFirst
    <3> QED
      BY <3>1, <3>2
  <2>3. ~(Tail(todo[r]) # <<>> /\ Head(Tail(todo[r])) \in {"setGroup", "openGroup"})
    <3>1. todo[r] \in ChangeTodos \union EditTodos
      BY <1>4, <1>5, TodosByKind DEF TableInv, GroupFirst
    <3>2. Head(<<"cascade">>) # "setGroup"
      BY Tails
    <3> QED
      BY <1>1, <3>1, Tails DEF ChangeTodos, EditTodos
  <2> QED
    BY <1>2, <2>2, <2>3 DEF LocksFirst
<1>6. ASSUME ~GroupFirst(r)
      PROVE  LocksLast(r)'
  <2> SUFFICES ASSUME todo'[r] # <<>>, NEW x \in DOMAIN writes'[r]
               PROVE  Height(x) < Stage(Head(todo'[r]))
    BY DEF LocksLast, Height, Stage
  <2>1. ~Autocommit(r) /\ x \in DOMAIN writes[r] \union DOMAIN Effect(r)
    BY <1>3
  <2>2. todo[r] \in ClearTodos \union DropTodos \union OneTodos
    BY <1>4, <1>6, <2>1, Jobs, TodosByKind DEF TableInv, GroupFirst, Autocommit, Web
  <2>3. Stage(Head(todo[r])) < Stage(Head(Tail(todo[r])))
    BY <1>1, <1>2, <2>2, StagesRise
  <2>4. Height(x) < Stage(Head(todo[r])) \/ Height(x) = Stage(Head(todo[r]))
    <3>1. CASE x \in DOMAIN writes[r]
      BY <1>1, <1>6, <3>1 DEF LocksInOrder, LockOrder, LocksLast
    <3>2. CASE x \in DOMAIN Effect(r)
      BY <1>1, <1>6, <3>2, StageOfEffect DEF TableInv
    <3> QED
      BY <2>1, <3>1, <3>2
  <2>5. /\ Height(x) \in Int /\ Stage(Head(todo[r])) \in Int
        /\ Stage(Head(Tail(todo[r]))) \in Int
    BY DEF Height, Stage
  <2> QED
    BY <1>2, <2>3, <2>4, <2>5
<1>7. LockOrder(r)'
  BY <1>1, <1>5, <1>6 DEF LockOrder, GroupFirst
<1>8. \A s \in Requests \ {r} : LockOrder(s)'
  BY <1>1, <1>2, <1>3, OthersKeepOrder DEF LocksInOrder
<1> QED
  BY <1>7, <1>8 DEF LocksInOrder

LEMMA OrderInit == Init => LocksInOrder
BY DEF Init, LocksInOrder, LockOrder

LEMMA OrderStep == TableInv /\ LocksInOrder /\ [Next]_vars => LocksInOrder'
<1> SUFFICES ASSUME TableInv, LocksInOrder, [Next]_vars PROVE LocksInOrder'
  OBVIOUS
<1>1. ASSUME NEW r \in Requests, Step(r)
      PROVE  LocksInOrder'
  <2>1. CASE ChangeRead(r) \/ WebRead(r) \/ Upsert(r) \/ Clear(r) \/ DeleteEvent(r)
    BY <2>1, OrderReads
  <2>2. CASE WebCached(r) \/ WebMissing(r) \/ WebSettled(r)
    BY <2>2, OrderEnds DEF WebCached, WebMissing, WebSettled, Answers
  <2>3. CASE Throw(r) \/ DeadlockDetected(r)
    BY <2>3, OrderEnds DEF Throw, DeadlockDetected, Rollback, Answers
  <2>4. CASE Execute(r)
    BY <2>4, OrderExecute
  <2>5. CASE Commit(r)
    BY <2>5, OrderEnds DEF Commit, Answers
  <2> QED
    BY <1>1, <2>1, <2>2, <2>3, <2>4, <2>5 DEF Step
<1>2. CASE CacheExpires \/ UNCHANGED vars
  BY <1>2, OthersKeepOrder DEF CacheExpires, vars, LocksInOrder
<1> QED
  BY <1>1, <1>2 DEF Next

\* Two that lock the booking first: both hold it.
LEMMA FirstDoNotCircle ==
    ASSUME TableInv, LocksInOrder, InCircle # {}
    PROVE  \E r \in InCircle : ~GroupFirst(r)
<1> SUFFICES ASSUME \A r \in InCircle : GroupFirst(r) PROVE FALSE
  OBVIOUS
<1>1. ASSUME NEW r \in InCircle
      PROVE  \E s \in InCircle : s # r /\ Group \in DOMAIN writes[s]
  <2>1. PICK s \in WaitsFor(r) : s \in InCircle
    BY <1>1, CircleGoesOn
  <2>2. s \in Requests \ {r} /\ DOMAIN writes[s] # {}
    BY <2>1 DEF WaitsFor
  <2>3. pc[s] = "run"
    BY <2>2 DEF TableInv, Running
  <2>4. LocksFirst(s)
    BY <2>1, <2>2, <2>3 DEF LocksInOrder, LockOrder
  <2> QED
    BY <2>1, <2>2, <2>4 DEF LocksFirst
<1>2. PICK r \in InCircle : TRUE
  OBVIOUS
<1>3. PICK s \in InCircle : Group \in DOMAIN writes[s]
  BY <1>1, <1>2
<1>4. PICK t \in InCircle : t # s /\ Group \in DOMAIN writes[t]
  BY <1>1
<1> QED
  BY <1>3, <1>4, CircleGoesOn DEF TableInv, WritesApart

\* Those that lock it last: each waits for one that is further up.
LEMMA LastDoNotCircle ==
    ASSUME TableInv, LocksInOrder, InCircle # {}
    PROVE  \E r \in InCircle : GroupFirst(r)
<1> DEFINE At(r) == Stage(Head(todo[r]))
<1> SUFFICES ASSUME \A r \in InCircle : ~GroupFirst(r) PROVE FALSE
  OBVIOUS
<1>1. ASSUME NEW r \in InCircle
      PROVE  \E s \in InCircle : At(r) < At(s)
  <2>1. PICK s \in WaitsFor(r) : s \in InCircle
    BY <1>1, CircleGoesOn
  <2>2. /\ r \in Requests /\ pc[r] = "run" /\ todo[r] # <<>>
        /\ s \in Requests /\ DOMAIN writes[s] \intersect DOMAIN Effect(r) # {}
    BY <1>1, <2>1, CircleGoesOn DEF WaitsFor
  <2>3. PICK x \in DOMAIN writes[s] : x \in DOMAIN Effect(r)
    BY <2>2
  <2>4. Height(x) = At(r)
    BY <1>1, <2>2, <2>3, StageOfEffect DEF TableInv
  <2>5. pc[s] = "run" /\ todo[s] # <<>>
    BY <2>1, CircleGoesOn DEF WaitsFor
  <2>6. Height(x) < At(s)
    BY <2>1, <2>2, <2>3, <2>5 DEF LocksInOrder, LockOrder, LocksLast
  <2> QED
    BY <2>1, <2>4, <2>6
<1>2. \A r \in InCircle : At(r) \in 1..3
  BY DEF Stage
<1> HIDE DEF At
<1>3. PICK r \in InCircle : TRUE
  OBVIOUS
<1>4. PICK s \in InCircle : At(r) < At(s)
  BY <1>1
<1>5. PICK t \in InCircle : At(s) < At(t)
  BY <1>1
<1>6. PICK u \in InCircle : At(t) < At(u)
  BY <1>1
<1>7. At(r) \in 1..3 /\ At(s) \in 1..3 /\ At(t) \in 1..3 /\ At(u) \in 1..3
  BY <1>2
<1> QED
  BY <1>4, <1>5, <1>6, <1>7

LEMMA OrdersMixed == TableInv /\ LocksInOrder => CirclesMixLockOrders
BY FirstDoNotCircle, LastDoNotCircle, CircleGoesOn DEF CirclesMixLockOrders, GroupFirst

\* However many requests there are and however their statements interleave, a
\* circle of waits always has a request that locks the booking before its event
\* and seats, and one that locks it after them: with either order alone,
\* PostgreSQL would never have a transaction to abort.
THEOREM DeadlocksNeedBothOrders == Spec => []CirclesMixLockOrders
BY TableInit, TableStep, OrderInit, OrderStep, OrdersMixed, PTL DEF Spec
=============================================================================
