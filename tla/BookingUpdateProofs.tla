------------------------ MODULE BookingUpdateProofs ------------------------
(***************************************************************************)
(* Proofs about BookingUpdate: for any requests, clients, bookings, plans  *)
(* and capacities.                                                         *)
(*                                                                         *)
(* A transaction gives up the seats of the snapshot of one UPDATE, and     *)
(* takes a seat after one look; it books a slot after one overlap query.   *)
(* What it has seen then, and what it has written, stays as it is until    *)
(* the commit, whatever others do.                                         *)
(***************************************************************************)
EXTENDS BookingUpdate, FiniteSetTheorems, TLAPS

USE UpdateAssumption

-----------------------------------------------------------------------------
\* A table of seats, of which finitely many rows exist
IsSeats(table) ==
    /\ table \in [DOMAIN table -> BOOLEAN]
    /\ IsFiniteSet(DOMAIN table)

IsRead(x) ==
    x = [group |-> x.group, originals |-> x.originals, counted |-> x.counted,
         seats |-> x.seats, target |-> x.target]

IsWrites(w) ==
    /\ w = [events |-> w.events, seats |-> w.seats, groups |-> w.groups]
    /\ IsSeats(w.seats)

\* What the arguments about seats need of the types
SeatTypes ==
    /\ IsSeats(seats)
    /\ pc = [r \in Requests |-> pc[r]]
    /\ looked = [r \in Requests |-> looked[r]]
    /\ read = [r \in Requests |-> read[r]]
    /\ writes = [r \in Requests |-> writes[r]]
    /\ \A r \in Requests :
         /\ IsRead(read[r])
         /\ IsWrites(writes[r])
         /\ IsFiniteSet(read[r].counted)
         /\ IsFiniteSet(read[r].seats)

-----------------------------------------------------------------------------
BeforeAim == {"idle", "list", "class", "single", "several", "count", "aim"}

\* The seats to give up are the client's, or the count had found nobody else:
\* it had the client's own, and only one.
OwnOrUncounted(label, seen, client) ==
    /\ label \in BeforeAim => seen.seats = {}
    /\ label = "aim" => \E y \in seen.counted : y[3] = client
    /\ \A x \in seen.seats :
         x[3] = client \/ (Cardinality(seen.counted) = 1 /\ x \notin seen.counted)

\* What a transaction gives up is what it set out to.
GivenUp(seen, written) ==
    \A x \in DOMAIN written.seats : ~written.seats[x] => x \in seen.seats

\* A transaction that has yet to look for the client's seat has inserted none;
\* one that has inserted one has given up any other that it saw there.
HasLooked == {"checkEach", "rebuild", "finish", "sync"}

OthersGivenUp(label, looks, written) ==
    \A x \in DOMAIN written.seats : written.seats[x] =>
        /\ label \in HasLooked
        /\ \A y \in looks \ {x} :
             y[2] = x[2] /\ y[3] = x[3] =>
                y \in DOMAIN written.seats /\ ~written.seats[y]

SeatsInv ==
    /\ SeatTypes
    /\ \A r \in Requests :
         /\ OwnOrUncounted(pc[r], read[r], Me(r))
         /\ GivenUp(read[r], writes[r])
         /\ OthersGivenUp(pc[r], looked[r], writes[r])
-----------------------------------------------------------------------------
(***************************************************************************)
(* Types                                                                   *)
(***************************************************************************)

\* Rows on top of others
LEMMA OverIsSeats ==
    ASSUME NEW new, IsSeats(new), NEW table, IsSeats(table)
    PROVE  IsSeats(Over(new, table))
<1>1. DOMAIN Over(new, table) = DOMAIN new \union DOMAIN table BY DEF Over
<1>2. IsFiniteSet(DOMAIN new \union DOMAIN table) BY FS_Union DEF IsSeats
<1>3. Over(new, table) \in [DOMAIN new \union DOMAIN table -> BOOLEAN]
  BY DEF Over, IsSeats
<1> QED BY <1>1, <1>2, <1>3 DEF IsSeats

\* No rows, one row, and rows that all say the same
LEMMA SmallSeats ==
    /\ IsSeats(<<>>)
    /\ \A x : IsSeats(Single(x, TRUE))
    /\ \A S : IsFiniteSet(S) => IsSeats([x \in S |-> FALSE])
<1>1. IsSeats(<<>>)
  <2>1. DOMAIN <<>> = {} OBVIOUS
  <2>2. <<>> \in [{} -> BOOLEAN] OBVIOUS
  <2> QED BY <2>1, <2>2, FS_EmptySet DEF IsSeats
<1>2. ASSUME NEW x PROVE IsSeats(Single(x, TRUE))
  <2>1. DOMAIN Single(x, TRUE) = {x} BY DEF Single
  <2>2. IsFiniteSet({x}) BY FS_Singleton
  <2>3. Single(x, TRUE) \in [{x} -> BOOLEAN] BY DEF Single
  <2> QED BY <2>1, <2>2, <2>3 DEF IsSeats
<1>3. ASSUME NEW S, IsFiniteSet(S) PROVE IsSeats([x \in S |-> FALSE])
  BY <1>3 DEF IsSeats
<1> QED BY <1>1, <1>2, <1>3

\* Nothing on top of a table is the table.
LEMMA OverNothing ==
    ASSUME NEW table, IsSeats(table)
    PROVE  Over(<<>>, table) = table
<1>1. DOMAIN <<>> = {} OBVIOUS
<1> QED BY <1>1 DEF Over, IsSeats

\* The live seats of a table are some of its finitely many rows.
LEMMA SeatsInFinite ==
    ASSUME NEW table, IsSeats(table), NEW g, NEW c
    PROVE  IsFiniteSet(SeatsIn(table, g)) /\ IsFiniteSet(SeatsOf(table, g, c))
<1>1. SeatsIn(table, g) \subseteq DOMAIN table BY DEF SeatsIn
<1>2. SeatsOf(table, g, c) \subseteq DOMAIN table BY <1>1 DEF SeatsOf
<1> QED BY <1>1, <1>2, FS_Subset DEF IsSeats

-----------------------------------------------------------------------------
(***************************************************************************)
(* What a step of a request changes                                        *)
(***************************************************************************)

\* A request changes nothing of another one.
LEMMA OthersUntouched ==
    ASSUME SeatTypes, NEW q \in Requests, RequestStep(q) \/ Abort(q),
           NEW r \in Requests \ {q}
    PROVE  /\ pc'[r] = pc[r] /\ read'[r] = read[r]
           /\ writes'[r] = writes[r] /\ looked'[r] = looked[r]
<1>1. CASE Look(q) \/ List(q) \/ PlanClass(q) \/ PlanSlots(q)
  BY <1>1 DEF SeatTypes, Look, List, PlanClass, PlanSlots, Goto
<1>2. CASE Check(q) \/ Rewrite(q) \/ Open(q) \/ Ensure(q) \/ CheckEach(q) \/ Rebuild(q)
  BY <1>2 DEF SeatTypes, Check, Rewrite, Open, Ensure, CheckEach, Rebuild, Reject, CommitWith,
     EndTx, Goto
<1>3. CASE Count(q) \/ Aim(q) \/ GiveUp(q) \/ Lock(q) \/ Find(q)
  BY <1>3 DEF SeatTypes, Count, Aim, GiveUp, Lock, Find, Reject, EndTx, Goto
<1>4. CASE Join(q) \/ OverlapQuery(q) \/ Create(q) \/ Sync(q) \/ Finish(q) \/ Abort(q)
  BY <1>4 DEF SeatTypes, Join, OverlapQuery, Create, Sync, Finish, Abort, Reject, CommitWith,
     EndTx, Goto
<1> QED BY <1>1, <1>2, <1>3, <1>4 DEF RequestStep, MoveStep

\* What a request asks for never changes.
LEMMA AskStays ==
    ASSUME [Next]_vars
    PROVE  ask' = ask
<1>1. ASSUME NEW r \in Requests,
             Look(r) \/ List(r) \/ PlanClass(r) \/ PlanSlots(r) \/ Check(r) \/ Rewrite(r)
      PROVE  ask' = ask
  BY <1>1 DEF Look, List, PlanClass, PlanSlots, Check, Rewrite
<1>2. ASSUME NEW r \in Requests,
             Open(r) \/ Ensure(r) \/ CheckEach(r) \/ Rebuild(r) \/ Count(r) \/ Aim(r)
      PROVE  ask' = ask
  BY <1>2 DEF Open, Ensure, CheckEach, Rebuild, Count, Aim
<1>3. ASSUME NEW r \in Requests,
             GiveUp(r) \/ Lock(r) \/ Find(r) \/ Join(r) \/ OverlapQuery(r)
      PROVE  ask' = ask
  BY <1>3 DEF GiveUp, Lock, Find, Join, OverlapQuery
<1>4. ASSUME NEW r \in Requests, Create(r) \/ Sync(r) \/ Finish(r) \/ Abort(r)
      PROVE  ask' = ask
  BY <1>4 DEF Create, Sync, Finish, Abort
<1>5. UNCHANGED vars => ask' = ask
  BY DEF vars
<1> QED
  BY <1>1, <1>2, <1>3, <1>4, <1>5 DEF Next, RequestStep, MoveStep

\* COMMIT: the seats change only when a request ends that got as far as its COMMIT.
Ends(q) ==
    /\ pc[q] \in {"rewrite", "rebuild", "sync", "finish"}
    /\ Goto(q, "updated")
    /\ EndTx(q)
    /\ seats' = Over(<<>>, SeatsSeen(q))
    /\ read' = read /\ looked' = looked

\* The four ways to commit end so.
LEMMA CommitsEnd ==
    ASSUME NEW q \in Requests, Rewrite(q) \/ Rebuild(q) \/ Sync(q) \/ Finish(q)
    PROVE  Ends(q)
BY DEF Rewrite, Rebuild, Sync, Finish, CommitWith, Ends

\* The steps of a request but those, by what they do to its own state
Steps(q) ==
    \/ Look(q) \/ List(q) \/ PlanClass(q) \/ PlanSlots(q) \/ Check(q)
    \/ Open(q) \/ Ensure(q) \/ CheckEach(q)
    \/ Count(q) \/ Aim(q) \/ GiveUp(q) \/ Lock(q) \/ Find(q) \/ Join(q)
    \/ OverlapQuery(q) \/ Create(q) \/ Abort(q)

\* A request's step is one of these or a commit.
LEMMA StepsOrEnds ==
    ASSUME NEW q \in Requests, RequestStep(q) \/ Abort(q)
    PROVE  Steps(q) \/ Ends(q)
BY CommitsEnd DEF RequestStep, MoveStep, Steps

\* Before its commit a request changes no seat.
LEMMA SeatsKept ==
    ASSUME NEW q \in Requests, Steps(q)
    PROVE  seats' = seats
BY DEF Steps, tables, Look, List, PlanClass, PlanSlots, Check, Open, Ensure, CheckEach,
   Count, Aim, GiveUp, Lock, Find, Join, OverlapQuery, Create, Abort
-----------------------------------------------------------------------------
\* The request's own part of the types
OwnTypes(q) ==
    /\ IsRead(read[q])
    /\ IsWrites(writes[q])
    /\ IsFiniteSet(read[q].counted)
    /\ IsFiniteSet(read[q].seats)

\* A transaction starts without rows.
LEMMA NoRowsType == IsWrites(NoRows)
BY SmallSeats DEF NoRows, IsWrites

\* The state's functions stay functions of the requests.
LEMMA ShapesStay ==
    ASSUME SeatTypes, NEW q \in Requests, Steps(q) \/ Ends(q)
    PROVE  /\ pc' = [r \in Requests |-> pc'[r]]
           /\ looked' = [r \in Requests |-> looked'[r]]
           /\ read' = [r \in Requests |-> read'[r]]
           /\ writes' = [r \in Requests |-> writes'[r]]
<1>1. CASE Look(q) \/ List(q) \/ PlanClass(q) \/ PlanSlots(q) \/ Ends(q)
  BY <1>1 DEF SeatTypes, Look, List, PlanClass, PlanSlots, Ends, EndTx, Goto
<1>2. CASE Check(q) \/ Open(q) \/ Ensure(q) \/ CheckEach(q) \/ Abort(q)
  BY <1>2 DEF SeatTypes, Check, Open, Ensure, CheckEach, Abort, Reject, EndTx, Goto
<1>3. CASE Count(q) \/ Aim(q) \/ GiveUp(q) \/ Lock(q) \/ Find(q)
  BY <1>3 DEF SeatTypes, Count, Aim, GiveUp, Lock, Find, Reject, EndTx, Goto
<1>4. CASE Join(q) \/ OverlapQuery(q) \/ Create(q)
  BY <1>4 DEF SeatTypes, Join, OverlapQuery, Create, Reject, EndTx, Goto
<1> QED BY <1>1, <1>2, <1>3, <1>4 DEF Steps

\* The client's seat, if there is none, is a small table of seats.
LEMMA SeatIfNoneType ==
    ASSUME NEW q \in Requests, NEW g
    PROVE  IsSeats(SeatIfNone(q, g))
BY SmallSeats DEF SeatIfNone

\* The writes of two steps, without the events'
LEMMA GiveUpWrites ==
    ASSUME SeatTypes, NEW q \in Requests, GiveUp(q)
    PROVE  \E evs : writes'[q] = [events |-> evs,
                                  seats |-> [x \in read[q].seats |-> FALSE],
                                  groups |-> writes[q].groups]
<1>1. PICK evs, none : /\ none = [x \in read[q].seats |-> FALSE]
                       /\ writes' = [writes EXCEPT ![q] = [@ EXCEPT !.events = evs, !.seats = none]]
  BY DEF GiveUp
<1>2. writes'[q] = [writes[q] EXCEPT !.events = evs, !.seats = none]
  BY <1>1 DEF SeatTypes
<1>3. writes[q] = [events |-> writes[q].events, seats |-> writes[q].seats,
                   groups |-> writes[q].groups]
  BY DEF SeatTypes, IsWrites
<1>4. writes'[q] = [events |-> evs, seats |-> none, groups |-> writes[q].groups]
  BY <1>2, <1>3
<1> QED BY <1>1, <1>4

LEMMA CreateWrites ==
    ASSUME SeatTypes, NEW q \in Requests, Create(q)
    PROVE  \E evs : writes'[q] = [events |-> evs,
                                  seats |-> Over(SeatIfNone(q, Original(q)), writes[q].seats),
                                  groups |-> writes[q].groups]
<1>1. PICK evs, sts :
        /\ sts = Over(SeatIfNone(q, Original(q)), writes[q].seats)
        /\ writes' = [writes EXCEPT ![q] = [@ EXCEPT !.events = evs, !.seats = sts]]
  BY DEF Create
<1>2. writes'[q] = [writes[q] EXCEPT !.events = evs, !.seats = sts]
  BY <1>1 DEF SeatTypes
<1>3. writes[q] = [events |-> writes[q].events, seats |-> writes[q].seats,
                   groups |-> writes[q].groups]
  BY DEF SeatTypes, IsWrites
<1>4. writes'[q] = [events |-> evs, seats |-> sts, groups |-> writes[q].groups]
  BY <1>2, <1>3
<1> QED BY <1>1, <1>4

\* What a request has read and written keeps its type.
LEMMA OwnTypesStay ==
    ASSUME SeatTypes, NEW q \in Requests, Steps(q) \/ Ends(q)
    PROVE  OwnTypes(q)'
<1>0. OwnTypes(q) /\ IsSeats(seats) BY DEF SeatTypes, OwnTypes
<1>1. CASE Look(q) \/ List(q)
  <2>1. \/ \E g : read'[q] = [read[q] EXCEPT !.group = g]
        \/ \E originals : read'[q] = [read[q] EXCEPT !.originals = originals]
    BY <1>1 DEF SeatTypes, Look, List
  <2>2. writes' = writes BY <1>1 DEF Look, List
  <2> QED BY <1>0, <2>1, <2>2 DEF OwnTypes, IsRead
<1>2. CASE EndTx(q) /\ read' = read
  BY <1>0, <1>2, NoRowsType DEF SeatTypes, OwnTypes, EndTx
<1>3. CASE UNCHANGED <<read, writes>>
  BY <1>0, <1>3 DEF SeatTypes, OwnTypes
<1>4. CASE Open(q)
  <2>1. writes'[q] = [events |-> writes[q].events, seats |-> writes[q].seats,
                      groups |-> {Original(q)}]
    BY <1>0, <1>4 DEF Open, SeatTypes, OwnTypes, IsWrites
  <2>2. IsWrites(writes'[q]) BY <1>0, <2>1 DEF OwnTypes, IsWrites
  <2> QED BY <1>0, <1>4, <2>2 DEF OwnTypes, Open
<1>5. ASSUME NEW new, IsSeats(new), NEW evs, read' = read,
             writes'[q] = [events |-> evs, seats |-> Over(new, writes[q].seats),
                           groups |-> writes[q].groups]
      PROVE  OwnTypes(q)'
  <2>1. IsSeats(Over(new, writes[q].seats))
    BY <1>0, <1>5, OverIsSeats DEF OwnTypes, IsWrites
  <2>2. IsWrites(writes'[q]) BY <1>5, <2>1 DEF IsWrites
  <2> QED BY <1>0, <1>5, <2>2 DEF OwnTypes
<1>6. CASE Ensure(q)
  <2>1. writes'[q] = [events |-> writes[q].events,
                      seats |-> Over(SeatIfNone(q, Original(q)), writes[q].seats),
                      groups |-> writes[q].groups]
    BY <1>0, <1>6 DEF Ensure, SeatTypes, OwnTypes, IsWrites
  <2> QED BY <1>5, <1>6, <2>1, SeatIfNoneType DEF Ensure
<1>7. CASE Join(q) /\ ~EndTx(q)
  <2>1. writes'[q] = [events |-> writes[q].events,
                      seats |-> Over(SeatIfNone(q, TargetGroup(q)), writes[q].seats),
                      groups |-> writes[q].groups]
    BY <1>0, <1>7 DEF Join, Reject, SeatTypes, OwnTypes, IsWrites
  <2> QED BY <1>5, <1>7, <2>1, SeatIfNoneType DEF Join
<1>8. CASE Create(q)
  <2>1. PICK evs : writes'[q] = [events |-> evs,
                                 seats |-> Over(SeatIfNone(q, Original(q)), writes[q].seats),
                                 groups |-> writes[q].groups]
    BY <1>0, <1>8, CreateWrites DEF SeatTypes
  <2> QED BY <1>5, <1>8, <2>1, SeatIfNoneType DEF Create
<1>9. CASE Count(q) /\ ~(EndTx(q) /\ read' = read)
  <2>1. /\ read'[q] = [read[q] EXCEPT !.counted = SeatsIn(seats, Original(q))]
        /\ writes'[q] \in {writes[q], NoRows}
    BY <1>9 DEF Count, Reject, EndTx, SeatTypes
  <2>2. IsRead(read'[q]) /\ IsFiniteSet(read'[q].counted) /\ IsFiniteSet(read'[q].seats)
    BY <1>0, <2>1, SeatsInFinite DEF OwnTypes, IsRead
  <2> QED BY <1>0, <2>1, <2>2, NoRowsType DEF OwnTypes
<1>10. CASE Aim(q)
  <2>1. PICK S : /\ read'[q] = [read[q] EXCEPT !.seats = S]
                 /\ IsFiniteSet(S)
    BY <1>0, <1>10, SeatsInFinite DEF Aim, SeatTypes
  <2>2. IsRead(read'[q]) /\ IsFiniteSet(read'[q].counted) /\ IsFiniteSet(read'[q].seats)
    BY <1>0, <2>1 DEF OwnTypes, IsRead
  <2>3. writes' = writes BY <1>10 DEF Aim
  <2> QED BY <1>0, <2>2, <2>3 DEF OwnTypes
<1>11. CASE GiveUp(q)
  <2>1. PICK evs : writes'[q] = [events |-> evs,
                                 seats |-> [x \in read[q].seats |-> FALSE],
                                 groups |-> writes[q].groups]
    BY <1>0, <1>11, GiveUpWrites DEF SeatTypes
  <2>2. IsSeats([x \in read[q].seats |-> FALSE]) BY <1>0, SmallSeats DEF OwnTypes
  <2>3. PICK none : none = [x \in read[q].seats |-> FALSE] OBVIOUS
  <2>5. writes'[q] = [events |-> evs, seats |-> none, groups |-> writes[q].groups]
    BY <2>1, <2>3
  <2>6. IsWrites(writes'[q]) BY <2>2, <2>3, <2>5 DEF IsWrites
  <2>4. read' = read BY <1>11 DEF GiveUp
  <2> QED BY <1>0, <2>4, <2>6 DEF OwnTypes
<1>12. CASE Find(q)
  <2>1. \/ read' = read
        \/ \E e : read'[q] = [read[q] EXCEPT !.target = e]
    BY <1>12 DEF Find, SeatTypes
  <2>2. writes' = writes BY <1>12 DEF Find
  <2> QED BY <1>0, <2>1, <2>2 DEF OwnTypes, IsRead
<1>13. CASE Check(q) \/ CheckEach(q) \/ OverlapQuery(q) \/ Lock(q) \/ Abort(q) \/ Ends(q)
  BY <1>2, <1>3, <1>13 DEF Check, CheckEach, OverlapQuery, Lock, Abort, Ends, Reject
<1>16. CASE PlanClass(q) \/ PlanSlots(q) BY <1>3, <1>16 DEF PlanClass, PlanSlots
<1>14. CASE Join(q) /\ EndTx(q)
  BY <1>2, <1>14 DEF Join
<1>15. CASE Count(q) /\ EndTx(q) /\ read' = read BY <1>2, <1>15
<1> QED
  BY <1>1, <1>4, <1>6, <1>7, <1>8, <1>9, <1>10, <1>11, <1>12, <1>13, <1>14, <1>15, <1>16 DEF Steps

\* A step keeps the types.
LEMMA StepSeatTypes == SeatTypes /\ [Next]_vars => SeatTypes'
<1> SUFFICES ASSUME SeatTypes, [Next]_vars PROVE SeatTypes' OBVIOUS
<1>1. CASE UNCHANGED vars BY <1>1 DEF SeatTypes, vars
<1>2. ASSUME NEW q \in Requests, RequestStep(q) \/ Abort(q) PROVE SeatTypes'
  <2>1. Steps(q) \/ Ends(q) BY <1>2, StepsOrEnds
  <2>2. IsSeats(seats')
    <3>1. CASE Steps(q) BY <3>1, SeatsKept DEF SeatTypes
    <3>2. CASE Ends(q)
      <4>1. IsSeats(SeatsSeen(q)) BY OverIsSeats DEF SeatTypes, SeatsSeen, IsWrites
      <4> QED BY <3>2, <4>1, OverIsSeats, SmallSeats DEF Ends
    <3> QED BY <2>1, <3>1, <3>2
  <2>3. OwnTypes(q)' BY <2>1, OwnTypesStay
  <2>4. \A r \in Requests \ {q} : OwnTypes(r)'
    BY <1>2, OthersUntouched DEF SeatTypes, OwnTypes
  <2>5. \A r \in Requests : OwnTypes(r)' BY <2>3, <2>4
  <2> QED BY <1>2, <2>1, <2>2, <2>5, ShapesStay DEF SeatTypes, OwnTypes
<1> QED BY <1>1, <1>2 DEF Next
-----------------------------------------------------------------------------
(***************************************************************************)
(* What the seats rely on                                                  *)
(***************************************************************************)

\* A step keeps which seats a request may give up.
LEMMA StepOwnOrUncounted ==
    ASSUME SeatsInv, NEW q \in Requests, Steps(q) \/ Ends(q), ask' = ask
    PROVE  OwnOrUncounted(pc'[q], read'[q], Me(q))
<1>0. OwnOrUncounted(pc[q], read[q], Me(q)) /\ SeatTypes BY DEF SeatsInv
<1>1. CASE Look(q) \/ List(q) \/ PlanClass(q)
  <2>1. /\ pc'[q] # "aim" /\ pc[q] \in BeforeAim
        /\ read'[q].seats = read[q].seats
    BY <1>0, <1>1 DEF SeatTypes, IsRead, BeforeAim, Look, List, PlanClass, Goto, Flow
  <2> QED BY <1>0, <2>1 DEF OwnOrUncounted
<1>2. CASE PlanSlots(q)
  BY <1>0, <1>2 DEF SeatTypes, PlanSlots, Goto, OwnOrUncounted, BeforeAim
<1>3. CASE pc'[q] \notin BeforeAim /\ read' = read
  BY <1>0, <1>3 DEF OwnOrUncounted, BeforeAim
<1>4. CASE Check(q) \/ Open(q) \/ Ensure(q) \/ CheckEach(q) \/ Ends(q)
  BY <1>0, <1>3, <1>4 DEF SeatTypes, Check, Open, Ensure, CheckEach, Ends, Reject, Goto, BeforeAim
<1>5. CASE GiveUp(q) \/ Lock(q) \/ Join(q)
  BY <1>0, <1>3, <1>5 DEF SeatTypes, GiveUp, Lock, Join, Reject, Goto, BeforeAim
<1>6. CASE OverlapQuery(q) \/ Create(q) \/ Abort(q)
  BY <1>0, <1>3, <1>6 DEF SeatTypes, OverlapQuery, Create, Abort, Reject, Goto, BeforeAim
<1>7. CASE Find(q)
  <2>1. /\ pc'[q] \notin BeforeAim
        /\ read'[q].seats = read[q].seats /\ read'[q].counted = read[q].counted
    BY <1>0, <1>7 DEF SeatTypes, IsRead, Find, Goto, BeforeAim
  <2> QED BY <1>0, <2>1 DEF OwnOrUncounted, BeforeAim
<1>8. CASE Count(q)
  <2>1. /\ pc[q] = "count"
        /\ read'[q].seats = read[q].seats
        /\ read'[q].counted = SeatsIn(seats, Original(q))
    BY <1>0, <1>8 DEF SeatTypes, IsRead, Count
  <2>2. pc'[q] = "aim" => SeatsOf(seats, Original(q), Me(q)) # {}
    BY <1>0, <1>8 DEF SeatTypes, Count, Reject, Goto
  <2>3. pc'[q] = "aim" => \E y \in read'[q].counted : y[3] = Me(q)
    BY <2>1, <2>2 DEF SeatsOf
  <2>4. read[q].seats = {} BY <1>0, <2>1 DEF OwnOrUncounted, BeforeAim
  <2> QED BY <2>1, <2>3, <2>4 DEF OwnOrUncounted
<1>9. CASE Aim(q)
  <2>1. /\ pc[q] = "aim" /\ pc'[q] = "giveUp"
        /\ read'[q].counted = read[q].counted
        /\ read'[q].seats = IF Alone(q) THEN SeatsIn(seats, Original(q))
                                        ELSE SeatsOf(seats, Original(q), Me(q))
    BY <1>0, <1>9 DEF SeatTypes, IsRead, Aim, Goto
  <2>2. PICK y \in read[q].counted : y[3] = Me(q) BY <1>0, <2>1 DEF OwnOrUncounted
  <2>3. Alone(q) => read[q].counted = {y}
    <3>1. IsFiniteSet(read[q].counted) BY <1>0 DEF SeatTypes
    <3> QED BY <2>2, <3>1, FS_Singleton DEF Alone
  <2>4. \A x \in read'[q].seats :
          x[3] = Me(q) \/ (Cardinality(read[q].counted) = 1 /\ x \notin read[q].counted)
    BY <2>1, <2>2, <2>3 DEF Alone, SeatsOf
  <2> QED BY <2>1, <2>4 DEF OwnOrUncounted, BeforeAim
<1> QED BY <1>1, <1>2, <1>4, <1>5, <1>6, <1>7, <1>8, <1>9 DEF Steps

\* Nothing is left to give up of a transaction that has ended.
LEMMA NoRowsGiven ==
    ASSUME NEW seen, NEW label, NEW looks
    PROVE  GivenUp(seen, NoRows) /\ OthersGivenUp(label, looks, NoRows)
<1>1. DOMAIN NoRows.seats = {} BY DEF NoRows
<1> QED BY <1>1 DEF GivenUp, OthersGivenUp

\* A step keeps which seats a transaction gives up.
LEMMA StepGivenUp ==
    ASSUME SeatsInv, NEW q \in Requests, Steps(q) \/ Ends(q)
    PROVE  GivenUp(read'[q], writes'[q])
<1>0. GivenUp(read[q], writes[q]) /\ SeatTypes
        /\ OwnOrUncounted(pc[q], read[q], Me(q))
        /\ OthersGivenUp(pc[q], looked[q], writes[q])
  BY DEF SeatsInv
<1>1. CASE EndTx(q)
  <2>1. writes'[q] = NoRows BY <1>0, <1>1 DEF EndTx, SeatTypes
  <2> QED BY <2>1, NoRowsGiven
<1>2. CASE writes' = writes /\ read'[q].seats = read[q].seats
  BY <1>0, <1>2 DEF GivenUp
<1>3. CASE Look(q) \/ List(q) \/ PlanClass(q) \/ PlanSlots(q)
  BY <1>0, <1>2, <1>3 DEF SeatTypes, IsRead, Look, List, PlanClass, PlanSlots
<1>4. CASE Check(q) \/ CheckEach(q) \/ OverlapQuery(q) \/ Lock(q) \/ Abort(q) \/ Ends(q)
  BY <1>1, <1>2, <1>4 DEF Check, CheckEach, OverlapQuery, Lock, Abort, Ends, Reject
<1>5. CASE Count(q) \/ Find(q)
  BY <1>0, <1>1, <1>2, <1>5 DEF SeatTypes, IsRead, Count, Find, Reject
<1>6. CASE Open(q)
  BY <1>0, <1>6 DEF SeatTypes, IsWrites, Open, GivenUp
<1>7. ASSUME NEW g, read' = read,
             writes'[q].seats = Over(SeatIfNone(q, g), writes[q].seats)
      PROVE  GivenUp(read'[q], writes'[q])
  <2>1. \A x \in DOMAIN SeatIfNone(q, g) : SeatIfNone(q, g)[x]
    <3>1. DOMAIN <<>> = {} OBVIOUS
    <3> QED BY <3>1 DEF SeatIfNone, Single
  <2> QED BY <1>0, <1>7, <2>1 DEF GivenUp, Over
<1>8. CASE Ensure(q)
  <2>1. writes'[q].seats = Over(SeatIfNone(q, Original(q)), writes[q].seats)
    BY <1>0, <1>8 DEF Ensure, SeatTypes, IsWrites
  <2> QED BY <1>7, <1>8, <2>1 DEF Ensure
<1>9. CASE Create(q)
  <2>0. PICK sts : sts = Over(SeatIfNone(q, Original(q)), writes[q].seats) OBVIOUS
  <2>1. writes'[q].seats = Over(SeatIfNone(q, Original(q)), writes[q].seats)
    <3>1. PICK evs : writes'[q] = [events |-> evs, seats |-> sts, groups |-> writes[q].groups]
      BY <1>0, <1>9, <2>0, CreateWrites
    <3> QED BY <2>0, <3>1
  <2> QED BY <1>7, <1>9, <2>1 DEF Create
<1>10. CASE Join(q)
  <2>1. CASE writes'[q].seats = Over(SeatIfNone(q, TargetGroup(q)), writes[q].seats)
    BY <1>7, <1>10, <2>1 DEF Join
  <2>2. CASE EndTx(q) BY <1>1, <2>2
  <2> QED BY <1>0, <1>10, <2>1, <2>2 DEF Join, Reject, SeatTypes, IsWrites
<1>11. CASE Aim(q)
  <2>1. pc[q] = "aim" /\ writes' = writes BY <1>11 DEF Aim
  <2>2. read[q].seats = {} BY <1>0, <2>1 DEF OwnOrUncounted, BeforeAim
  <2>3. \A x \in DOMAIN writes[q].seats : writes[q].seats[x] BY <1>0, <2>2 DEF GivenUp
  <2> QED BY <2>1, <2>3 DEF GivenUp
<1>12. CASE GiveUp(q)
  <2>0. PICK none : none = [x \in read[q].seats |-> FALSE] OBVIOUS
  <2>1. PICK evs : writes'[q] = [events |-> evs, seats |-> none, groups |-> writes[q].groups]
    BY <1>0, <1>12, <2>0, GiveUpWrites
  <2>2. writes'[q].seats = none BY <2>1
  <2>3. read' = read BY <1>12 DEF GiveUp
  <2> QED BY <2>0, <2>2, <2>3 DEF GivenUp
<1> QED BY <1>3, <1>4, <1>5, <1>6, <1>8, <1>9, <1>10, <1>11, <1>12 DEF Steps
\* The seat that a request takes, and what it saw of others then
LEMMA SeatTaken ==
    ASSUME SeatsInv, NEW q \in Requests, NEW g,
           \A x \in DOMAIN writes[q].seats : ~writes[q].seats[x],
           NEW x \in DOMAIN SeatIfNone(q, g),
           NEW y \in LiveSeats, y[2] = x[2], y[3] = x[3]
    PROVE  y \in DOMAIN writes[q].seats
<1>0. DOMAIN <<>> = {} OBVIOUS
<1>1. SeatsOf(SeatsSeen(q), g, Me(q)) = {} /\ x = <<q, g, Me(q)>>
  BY <1>0 DEF SeatIfNone, Single
<1>2. y[2] = g /\ y[3] = Me(q) BY <1>1
<1>3. y \in DOMAIN SeatsSeen(q) /\ ~SeatsSeen(q)[y]
  BY <1>1, <1>2 DEF SeatsOf, SeatsIn, LiveSeats, SeatsSeen, Over
<1> QED BY <1>3 DEF SeatsSeen, Over, LiveSeats

\* A step keeps what a transaction that takes a seat has given up.
LEMMA StepOthersGivenUp ==
    ASSUME SeatsInv, NEW q \in Requests, Steps(q) \/ Ends(q)
    PROVE  OthersGivenUp(pc'[q], looked'[q], writes'[q])
<1>0. OthersGivenUp(pc[q], looked[q], writes[q]) /\ SeatTypes BY DEF SeatsInv
<1>1. CASE EndTx(q)
  <2>1. writes'[q] = NoRows BY <1>0, <1>1 DEF EndTx, SeatTypes
  <2> QED BY <2>1, NoRowsGiven
<1>2. CASE /\ writes'[q].seats = writes[q].seats /\ looked' = looked
           /\ pc[q] \in HasLooked => pc'[q] \in HasLooked
  BY <1>0, <1>2 DEF OthersGivenUp
<1>3. CASE Look(q) \/ List(q) \/ PlanClass(q) \/ PlanSlots(q)
  BY <1>0, <1>2, <1>3 DEF Look, List, PlanClass, PlanSlots, HasLooked
<1>4. CASE Check(q) \/ OverlapQuery(q) \/ Lock(q) \/ Abort(q) \/ Ends(q)
  BY <1>0, <1>1, <1>2, <1>4
  DEF Check, OverlapQuery, Lock, Abort, Ends, Reject, HasLooked
<1>5. CASE Count(q) \/ Aim(q) \/ Find(q)
  BY <1>0, <1>1, <1>2, <1>5 DEF Count, Aim, Find, Reject, HasLooked
<1>6. CASE Open(q)
  BY <1>0, <1>2, <1>6 DEF SeatTypes, IsWrites, Open, HasLooked
<1>7. CASE CheckEach(q)
  BY <1>0, <1>1, <1>2, <1>7 DEF SeatTypes, CheckEach, Reject, Goto, HasLooked
<1>8. ASSUME NEW g, pc[q] \notin HasLooked, pc'[q] \in HasLooked, looked'[q] = LiveSeats,
             writes'[q].seats = Over(SeatIfNone(q, g), writes[q].seats)
      PROVE  OthersGivenUp(pc'[q], looked'[q], writes'[q])
  <2>1. \A x \in DOMAIN writes[q].seats : ~writes[q].seats[x]
    BY <1>0, <1>8 DEF OthersGivenUp
  <2>2. PICK taken : taken = SeatIfNone(q, g) OBVIOUS
  <2>3. PICK sts : sts = writes[q].seats OBVIOUS
  <2>4. writes'[q].seats = Over(taken, sts) BY <1>8, <2>2, <2>3
  <2>5. \A x \in DOMAIN taken : x = <<q, g, Me(q)>>
    <3>1. DOMAIN <<>> = {} OBVIOUS
    <3> QED BY <2>2, <3>1 DEF SeatIfNone, Single
  <2>6. \A x \in DOMAIN taken : \A y \in LiveSeats :
          y[2] = x[2] /\ y[3] = x[3] => y \in DOMAIN sts
    BY <2>1, <2>2, <2>3, SeatTaken
  <2> SUFFICES ASSUME NEW x \in DOMAIN Over(taken, sts), Over(taken, sts)[x],
                      NEW y \in LiveSeats \ {x}, y[2] = x[2], y[3] = x[3]
               PROVE  y \in DOMAIN Over(taken, sts) /\ ~Over(taken, sts)[y]
    BY <1>8, <2>4 DEF OthersGivenUp
  <2>7. x \in DOMAIN taken BY <2>1, <2>3 DEF Over
  <2>8. y \in DOMAIN sts /\ y \notin DOMAIN taken BY <2>5, <2>6, <2>7
  <2> QED BY <2>1, <2>3, <2>8 DEF Over
<1>9. CASE Ensure(q)
  <2>1. writes'[q].seats = Over(SeatIfNone(q, Original(q)), writes[q].seats)
    BY <1>0, <1>9 DEF Ensure, SeatTypes, IsWrites
  <2>2. /\ pc[q] \notin HasLooked /\ pc'[q] \in HasLooked
        /\ looked'[q] = LiveSeats
    BY <1>0, <1>9 DEF Ensure, SeatTypes, Goto, HasLooked
  <2> QED BY <1>8, <2>1, <2>2
<1>10. CASE Create(q)
  <2>0. PICK sts : sts = Over(SeatIfNone(q, Original(q)), writes[q].seats) OBVIOUS
  <2>1. writes'[q].seats = Over(SeatIfNone(q, Original(q)), writes[q].seats)
    <3>1. PICK evs : writes'[q] = [events |-> evs, seats |-> sts, groups |-> writes[q].groups]
      BY <1>0, <1>10, <2>0, CreateWrites
    <3> QED BY <2>0, <3>1
  <2>2. /\ pc[q] \notin HasLooked /\ pc'[q] \in HasLooked
        /\ looked'[q] = LiveSeats
    BY <1>0, <1>10 DEF Create, SeatTypes, Goto, HasLooked
  <2> QED BY <1>8, <2>1, <2>2
<1>11. CASE Join(q)
  <2>1. CASE EndTx(q) BY <1>1, <2>1
  <2>2. CASE ~EndTx(q)
    <3>1. writes'[q].seats = Over(SeatIfNone(q, TargetGroup(q)), writes[q].seats)
      BY <1>0, <1>11, <2>2 DEF Join, Reject, SeatTypes, IsWrites
    <3>2. /\ pc[q] \notin HasLooked /\ pc'[q] \in HasLooked
          /\ looked'[q] = LiveSeats
      BY <1>0, <1>11, <2>2 DEF Join, Reject, SeatTypes, Goto, HasLooked
    <3> QED BY <1>8, <3>1, <3>2
  <2> QED BY <2>1, <2>2
<1>12. CASE GiveUp(q)
  <2>0. PICK none : none = [x \in read[q].seats |-> FALSE] OBVIOUS
  <2>1. PICK evs : writes'[q] = [events |-> evs, seats |-> none, groups |-> writes[q].groups]
    BY <1>0, <1>12, <2>0, GiveUpWrites
  <2> QED BY <2>0, <2>1 DEF OthersGivenUp
<1> QED BY <1>3, <1>4, <1>5, <1>6, <1>7, <1>9, <1>10, <1>11, <1>12 DEF Steps

-----------------------------------------------------------------------------
\* At the start nothing is written, and nobody has looked.
LEMMA InitSeats == Init => SeatsInv
<1> SUFFICES ASSUME Init PROVE SeatsInv OBVIOUS
<1>1. IsSeats(seats)
  <2>1. PICK s \in Scenes : seats = [x \in s.seats |-> TRUE] BY DEF Init
  <2>2. IsFiniteSet(s.seats) OBVIOUS
  <2> QED BY <2>1, <2>2 DEF IsSeats
<1>2. \A r \in Requests : OwnTypes(r)
  <2>1. IsWrites(NoRows) BY NoRowsType
  <2>2. IsRead(NothingRead) /\ NothingRead.counted = {} /\ NothingRead.seats = {}
    BY DEF IsRead, NothingRead
  <2> QED BY <2>1, <2>2, FS_EmptySet DEF Init, OwnTypes
<1>3. SeatTypes BY <1>1, <1>2 DEF Init, SeatTypes, OwnTypes
<1>4. ASSUME NEW r \in Requests PROVE OwnOrUncounted(pc[r], read[r], Me(r))
  BY DEF Init, OwnOrUncounted, NothingRead
<1>5. ASSUME NEW r \in Requests
      PROVE  GivenUp(read[r], writes[r]) /\ OthersGivenUp(pc[r], looked[r], writes[r])
  <2>1. writes[r] = NoRows BY DEF Init
  <2> QED BY <2>1, NoRowsGiven
<1> QED BY <1>3, <1>4, <1>5 DEF SeatsInv

\* A step keeps the inductive invariant.
LEMMA StepSeats == SeatsInv /\ [Next]_vars => SeatsInv'
<1> SUFFICES ASSUME SeatsInv, [Next]_vars PROVE SeatsInv' OBVIOUS
<1>0. ask' = ask BY AskStays
<1>1. SeatTypes' BY StepSeatTypes DEF SeatsInv
<1>2. CASE UNCHANGED vars
  BY <1>1, <1>2 DEF SeatsInv, vars, Me
<1>3. ASSUME NEW q \in Requests, RequestStep(q) \/ Abort(q), NEW r \in Requests
      PROVE  /\ OwnOrUncounted(pc'[r], read'[r], Me(r))
             /\ GivenUp(read'[r], writes'[r])
             /\ OthersGivenUp(pc'[r], looked'[r], writes'[r])
  <2>1. CASE r = q
    BY <1>0, <1>3, <2>1, StepsOrEnds, StepOwnOrUncounted, StepGivenUp, StepOthersGivenUp
  <2>2. CASE r # q
    <3>1. /\ pc'[r] = pc[r] /\ read'[r] = read[r]
          /\ writes'[r] = writes[r] /\ looked'[r] = looked[r]
      BY <1>3, <2>2, OthersUntouched DEF SeatsInv
    <3> QED BY <3>1 DEF SeatsInv
  <2> QED BY <2>1, <2>2
<1>4. \A r \in Requests : Me(r)' = Me(r) BY <1>0 DEF Me
<1> QED BY <1>1, <1>2, <1>3, <1>4 DEF Next, SeatsInv

\* The inductive invariant holds in every state.
THEOREM SeatsAreKept == Spec => []SeatsInv
BY InitSeats, StepSeats, PTL DEF Spec

-----------------------------------------------------------------------------
\* Who commits ends, and no other request does anything.
LEMMA CommitIsEnd ==
    ASSUME SeatsInv, NEW q \in Requests, RequestStep(q) \/ Abort(q),
           NEW r \in Requests, Commits(r)
    PROVE  r = q /\ Ends(r)
<1>0. SeatTypes BY DEF SeatsInv
<1>1. r = q BY <1>0, OthersUntouched DEF Commits
<1>2. ~Steps(q)
  <2>1. ~(Look(q) \/ List(q) \/ PlanClass(q) \/ PlanSlots(q))
    BY <1>0, <1>1 DEF SeatTypes, Commits, Look, List, PlanClass, PlanSlots, Goto, Flow
  <2>2. ~(Check(q) \/ Open(q) \/ Ensure(q) \/ CheckEach(q) \/ Abort(q))
    BY <1>0, <1>1 DEF SeatTypes, Commits, Check, Open, Ensure, CheckEach, Abort, Reject, Goto
  <2>3. ~(Count(q) \/ Aim(q) \/ GiveUp(q) \/ Lock(q) \/ Find(q))
    BY <1>0, <1>1 DEF SeatTypes, Commits, Count, Aim, GiveUp, Lock, Find, Reject, Goto
  <2>4. ~(Join(q) \/ OverlapQuery(q) \/ Create(q))
    BY <1>0, <1>1 DEF SeatTypes, Commits, Join, OverlapQuery, Create, Reject, Goto
  <2> QED BY <2>1, <2>2, <2>3, <2>4 DEF Steps
<1> QED BY <1>1, <1>2, StepsOrEnds

\* The seats after a commit
LEMMA SeatsAfter ==
    ASSUME SeatsInv, NEW r \in Requests, Ends(r)
    PROVE  seats' = Over(writes[r].seats, seats)
<1>1. IsSeats(SeatsSeen(r)) BY OverIsSeats DEF SeatsInv, SeatTypes, IsWrites, SeatsSeen
<1> QED BY <1>1, OverNothing DEF Ends, SeatsSeen

\* updateEventFromWebBase: "already-in".  For any number of requests, clients
\* and bookings, a client gets a second seat in one booking only from a request
\* that, when it looked for the client's seat there, did not see the first one.
THEOREM SecondSeatsAreUnseen == Spec => SeatTwiceUnseen
<1>1. ASSUME SeatsInv, [Next]_vars, NEW r \in Requests, Commits(r),
             NEW x \in DOMAIN seats' \ DOMAIN seats,
             NEW y \in SeatsOf(seats', x[2], x[3]) \ {x}, seats'[x], y \in looked[r]
      PROVE  FALSE
  <2>1. Ends(r) BY <1>1, CommitIsEnd DEF Next, vars, Commits
  <2>2. seats' = Over(writes[r].seats, seats) BY <1>1, <2>1, SeatsAfter
  <2>3. x \in DOMAIN writes[r].seats /\ writes[r].seats[x] BY <1>1, <2>2 DEF Over
  <2>4. y \in DOMAIN seats' /\ y[2] = x[2] /\ y[3] = x[3] /\ seats'[y]
    BY DEF SeatsOf, SeatsIn
  <2>5. y \in DOMAIN writes[r].seats /\ ~writes[r].seats[y]
    BY <1>1, <2>3, <2>4 DEF SeatsInv, OthersGivenUp
  <2> QED BY <2>2, <2>4, <2>5 DEF Over
<1>2. SeatsInv /\ [Next]_vars =>
        [\A r \in Requests : Commits(r) =>
          \A x \in DOMAIN seats' \ DOMAIN seats :
             \A y \in SeatsOf(seats', x[2], x[3]) \ {x} :
                seats'[x] => y \notin looked[r]]_vars
  BY <1>1
<1> QED BY <1>2, SeatsAreKept, PTL DEF Spec, SeatTwiceUnseen

\* moveSingleParticipantInClassEdit: for any number of requests, clients and
\* bookings, another client's seat is given up only by a request that counted
\* one participant, and not that one.
THEOREM SeatsAreLostByStaleCounts == Spec => SeatLossIsStaleCount
<1>1. ASSUME SeatsInv, [Next]_vars, NEW x \in DOMAIN seats, seats[x], ~seats'[x]
      PROVE  \E r \in Requests :
               /\ Commits(r)
               /\ \/ x[3] = Me(r)
                  \/ Alone(r) /\ x \notin read[r].counted
  <2>1. PICK r \in Requests : RequestStep(r) \/ Abort(r) BY <1>1 DEF Next, vars
  <2>2. Ends(r) BY <1>1, <2>1, StepsOrEnds, SeatsKept
  <2>3. Commits(r) BY <1>1, <2>2 DEF Ends, Goto, Commits, SeatsInv, SeatTypes
  <2>4. seats' = Over(writes[r].seats, seats) BY <1>1, <2>2, SeatsAfter
  <2>5. x \in DOMAIN writes[r].seats /\ ~writes[r].seats[x] BY <1>1, <2>4 DEF Over
  <2>6. x \in read[r].seats BY <1>1, <2>5 DEF SeatsInv, GivenUp
  <2>7. x[3] = Me(r) \/ (Alone(r) /\ x \notin read[r].counted)
    BY <1>1, <2>6 DEF SeatsInv, OwnOrUncounted, Alone
  <2> QED BY <2>3, <2>7
<1>2. SeatsInv /\ [Next]_vars =>
        [\A x \in DOMAIN seats : (seats[x] /\ ~seats'[x]) =>
          \E r \in Requests :
             /\ Commits(r)
             /\ \/ x[3] = Me(r)
                \/ Alone(r) /\ x \notin read[r].counted]_vars
  BY <1>1
<1> QED BY <1>2, SeatsAreKept, PTL DEF Spec, SeatLossIsStaleCount
-----------------------------------------------------------------------------
(***************************************************************************)
(* Events                                                                  *)
(***************************************************************************)

\* A table of events, of which finitely many rows exist
IsRow(row) == row = [slot |-> row.slot, group |-> row.group, live |-> row.live]

IsEvents(table) ==
    /\ table = [e \in DOMAIN table |-> table[e]]
    /\ \A e \in DOMAIN table : IsRow(table[e])
    /\ IsFiniteSet(DOMAIN table)

\* The sequence of a booking's events names each once.
IsListing(q) ==
    /\ Len(q) \in Nat
    /\ \A i, j \in 1..Len(q) : q[i] = q[j] => i = j
    /\ ToSet(q) = {q[i] : i \in 1..Len(q)}

Listed == {"class", "single", "several", "count", "aim", "giveUp", "lock", "find",
           "join", "overlap", "create", "sync", "finish", "check", "rewrite", "open",
           "ensure", "checkEach", "rebuild"}

EventTypes ==
    /\ IsEvents(events)
    /\ EventIds \subseteq DOMAIN events
    /\ \A r \in Requests : ask[r] \in Ask /\ ask[r].attendees # <<>>
    /\ plan = [r \in Requests |-> plan[r]]
    /\ checked = [r \in Requests |-> checked[r]]
    /\ \A r \in Requests :
         /\ IsEvents(writes[r].events)
         /\ pc[r] \in Listed => /\ IsListing(read[r].originals)
                              /\ ToSet(read[r].originals) \subseteq DOMAIN events

-----------------------------------------------------------------------------
\* The row keeps a professional from the slot.
Blocks(row, slot, table) ==
    /\ row.live /\ ~table[row.group].cancelled
    /\ row.slot.user = slot.user /\ Overlap(row.slot, slot)

\* Before it gives up its seats a transaction writes no event; then it deletes
\* some, and inserts at most one, at the chosen slot.
Moving == {"lock", "find", "join", "overlap", "create", "sync", "finish"}

OwnEvents(label, written, chosen, r) ==
    /\ label \notin Moving => DOMAIN written.events = {}
    /\ \A e \in DOMAIN written.events : written.events[e].live =>
         label = "sync" /\ e = <<r, 1>> /\ written.events[e].slot = chosen[1]

\* What the overlap query saw is not in the way.
NothingBlocks(label, asked, seen, saw, written, chosen, table) ==
    /\ label = "rewrite" => \A f \in DOMAIN saw \ {asked.event} :
         ~Blocks(saw[f], chosen[1], table)
    /\ label \in {"create", "sync"} => \A f \in DOMAIN saw \ DOMAIN written.events :
         ~Blocks(saw[f], chosen[1], table)
    /\ label = "rebuild" => \A f \in DOMAIN saw \ ToSet(seen.originals) :
         \A i \in DOMAIN chosen : ~Blocks(saw[f], chosen[i], table)

\* The segments of a plan follow each other.
Follows(label, chosen) ==
    label \in {"open", "ensure", "checkEach", "rebuild"} =>
        /\ Len(chosen) \in Nat /\ DOMAIN chosen = 1..Len(chosen)
        /\ \A i, j \in DOMAIN chosen : i # j => ~Overlap(chosen[i], chosen[j])

\* The event found is there.
TargetThere(label, seen, written, table) ==
    label \in {"join", "finish"} =>
        seen.target \in DOMAIN table \union DOMAIN written.events

EventsInv ==
    /\ EventTypes
    /\ \A r \in Requests :
         /\ OwnEvents(pc[r], writes[r], plan[r], r)
         /\ NothingBlocks(pc[r], ask[r], read[r], checked[r], writes[r], plan[r], groups)
         /\ Follows(pc[r], plan[r])
         /\ TargetThere(pc[r], read[r], writes[r], events)
-----------------------------------------------------------------------------
\* Rows on top of others
LEMMA OverIsEvents ==
    ASSUME NEW new, IsEvents(new), NEW table, IsEvents(table)
    PROVE  IsEvents(Over(new, table))
<1>1. PICK over : over = Over(new, table) OBVIOUS
<1>2. /\ DOMAIN over = DOMAIN new \union DOMAIN table
      /\ over = [x \in DOMAIN over |-> over[x]]
      /\ \A x \in DOMAIN over : over[x] = IF x \in DOMAIN new THEN new[x] ELSE table[x]
  BY <1>1 DEF Over
<1>3. IsFiniteSet(DOMAIN new \union DOMAIN table) BY FS_Union DEF IsEvents
<1>4. \A x \in DOMAIN over : IsRow(over[x]) BY <1>2 DEF IsEvents
<1> QED BY <1>1, <1>2, <1>3, <1>4 DEF IsEvents

\* No rows, one row, and rows deleted
LEMMA SmallEvents ==
    /\ IsEvents(<<>>)
    /\ \A e, row : IsRow(row) => IsEvents(Single(e, row))
<1>1. IsEvents(<<>>)
  <2>1. DOMAIN <<>> = {} OBVIOUS
  <2>2. <<>> = [e \in {} |-> <<>>[e]] OBVIOUS
  <2> QED BY <2>1, <2>2, FS_EmptySet DEF IsEvents
<1>2. ASSUME NEW e, NEW row, IsRow(row) PROVE IsEvents(Single(e, row))
  <2>1. PICK one : one = Single(e, row) OBVIOUS
  <2>2. DOMAIN one = {e} /\ one[e] = row /\ one = [x \in {e} |-> one[x]]
    BY <2>1 DEF Single
  <2>3. IsFiniteSet({e}) BY FS_Singleton
  <2> QED BY <1>2, <2>1, <2>2, <2>3 DEF IsEvents
<1> QED BY <1>1, <1>2

LEMMA RemovedIsEvents ==
    ASSUME IsEvents(events), NEW gone, IsFiniteSet(gone)
    PROVE  /\ gone \subseteq DOMAIN events => IsEvents(Removed(gone))
           /\ \A e \in gone : e \in DOMAIN events => ~Removed(gone)[e].live
           /\ DOMAIN Removed(gone) = gone
<1>1. PICK dead : dead = Removed(gone) OBVIOUS
<1>2. /\ DOMAIN dead = gone /\ dead = [e \in gone |-> dead[e]]
      /\ \A e \in gone : dead[e] = [events[e] EXCEPT !.live = FALSE]
  BY <1>1 DEF Removed
<1>3. ASSUME NEW e \in gone, e \in DOMAIN events PROVE IsRow(dead[e]) /\ ~dead[e].live
  BY <1>2, <1>3 DEF IsEvents, IsRow
<1> QED BY <1>1, <1>2, <1>3 DEF IsEvents

\* What a function makes of a finite set is finite.
LEMMA ImageIsFinite ==
    ASSUME NEW f, IsFiniteSet(DOMAIN f)
    PROVE  IsFiniteSet({f[x] : x \in DOMAIN f})
<1>1. PICK g : g = [x \in DOMAIN f |-> f[x]] OBVIOUS
<1>2. g \in Surjection(DOMAIN f, {f[x] : x \in DOMAIN f}) BY <1>1 DEF Surjection
<1> QED BY <1>2, FS_Surjection

\* The ranks of the kept events: different, from one up to their number
LEMMA Ranks ==
    ASSUME NEW r \in Requests, IsListing(read[r].originals)
    PROVE  /\ IsFiniteSet(Kept(r)) /\ Kept(r) \subseteq 1..Len(read[r].originals)
           /\ Cardinality(Kept(r)) \in Nat
           /\ \A i \in Kept(r) : Rank(r, i) \in 1..Cardinality(Kept(r))
           /\ \A i, j \in Kept(r) : Rank(r, i) = Rank(r, j) => i = j
<1>0. Len(read[r].originals) \in Nat BY DEF IsListing
<1>1. Kept(r) \subseteq 1..Len(read[r].originals) BY DEF Kept
<1>2. IsFiniteSet(Kept(r))
  <2>1. PICK n \in Nat : n = Len(read[r].originals) BY <1>0
  <2>2. IsFiniteSet(1..n) BY FS_Interval
  <2> QED BY <1>1, <2>1, <2>2, FS_Subset
<1>3. Cardinality(Kept(r)) \in Nat BY <1>2, FS_CardinalityType
<1> DEFINE Upto(i) == {j \in Kept(r) : j <= i}
<1>4. \A i : /\ IsFiniteSet(Upto(i)) /\ Cardinality(Upto(i)) \in Nat
             /\ Cardinality(Upto(i)) <= Cardinality(Kept(r))
  <2> SUFFICES ASSUME NEW i
               PROVE  /\ IsFiniteSet(Upto(i)) /\ Cardinality(Upto(i)) \in Nat
                      /\ Cardinality(Upto(i)) <= Cardinality(Kept(r))
    OBVIOUS
  <2>1. Upto(i) \subseteq Kept(r) OBVIOUS
  <2> QED BY <1>2, <2>1, FS_Subset, FS_CardinalityType
<1>5. ASSUME NEW i \in Kept(r) PROVE Rank(r, i) \in 1..Cardinality(Kept(r))
  <2>1. i \in Upto(i) BY <1>0, <1>1
  <2>2. Cardinality(Upto(i)) # 0 BY <1>4, <2>1, FS_EmptySet
  <2>3. Rank(r, i) = Cardinality(Upto(i)) BY DEF Rank
  <2> HIDE DEF Upto
  <2> QED BY <1>3, <1>4, <2>2, <2>3
<1>6. ASSUME NEW i \in Kept(r), NEW j \in Kept(r), i < j
      PROVE  Rank(r, i) # Rank(r, j)
  <2>1. Upto(i) \subseteq Upto(j) BY <1>0, <1>1, <1>6
  <2>2. j \in Upto(j) /\ j \notin Upto(i) BY <1>0, <1>1, <1>6
  <2>3. Upto(i) # Upto(j) BY <2>2
  <2>4. Rank(r, i) = Cardinality(Upto(i)) /\ Rank(r, j) = Cardinality(Upto(j)) BY DEF Rank
  <2>5. IsFiniteSet(Upto(j)) BY <1>4
  <2> HIDE DEF Upto
  <2>6. Cardinality(Upto(i)) # Cardinality(Upto(j)) BY <2>1, <2>3, <2>5, FS_Subset
  <2> QED BY <2>4, <2>6
<1>7. ASSUME NEW i \in Kept(r), NEW j \in Kept(r), Rank(r, i) = Rank(r, j) PROVE i = j
  <2>1. i < j \/ j < i \/ i = j BY <1>0, <1>1
  <2> QED BY <1>6, <1>7, <2>1
<1> QED BY <1>1, <1>2, <1>3, <1>5, <1>7
-----------------------------------------------------------------------------
(***************************************************************************)
(* Plans                                                                   *)
(***************************************************************************)

\* A set of numbers has a least one: what holds the induction on places.
LEMMA LeastNumber ==
    ASSUME NEW T, T \subseteq Nat, T # {}
    PROVE  \E x \in T : \A y \in T : x <= y
<1>1. PICK R : R = OpToRel(<, Nat) OBVIOUS
<1>2. IsWellFoundedOn(R, Nat) BY <1>1, NatLessThanWellFounded
<1>3. PICK x \in T : \A y \in T : ~ (<<y, x>> \in R) BY <1>2, WFMin
<1>4. ASSUME NEW y \in T, ~(x <= y) PROVE FALSE
  <2>1. x \in Nat /\ y \in Nat /\ y < x BY <1>4
  <2>2. PICK p : p = <<y, x>> OBVIOUS
  <2>3. p \in Nat \X Nat /\ p[1] = y /\ p[2] = x BY <2>1, <2>2
  <2>4. p[1] < p[2] BY <2>1, <2>3
  <2>5. R = {ss \in Nat \X Nat : ss[1] < ss[2]} BY <1>1 DEF OpToRel
  <2>6. p \in R BY <2>3, <2>4, <2>5
  <2> QED BY <1>3, <2>2, <2>6
<1> QED BY <1>4

\* The recursion over the services defines the starts.
LEMMA StartsDefined ==
    ASSUME NEW first, NEW wanted, Len(wanted) \in Nat
    PROVE  Starts(first, wanted) =
             [i \in 1..Len(wanted) |->
                IF i = 1 THEN first
                ELSE Starts(first, wanted)[i - 1] + wanted[i - 1].duration]
<1> DEFINE Defines(g, n) ==
             g = [i \in 1..n |-> IF i = 1 THEN first ELSE g[i - 1] + wanted[i - 1].duration]
           Bad == {n \in Nat : ~\E g : Defines(g, n)}
<1>1. Bad = {}
  <2> SUFFICES ASSUME Bad # {} PROVE FALSE OBVIOUS
  <2>1. PICK n \in Bad : \A m \in Bad : n <= m BY LeastNumber
  <2>2. n \in Nat /\ ~\E g : Defines(g, n) OBVIOUS
  <2>3. n # 0
    <3> SUFFICES ASSUME n = 0 PROVE FALSE OBVIOUS
    <3>1. PICK g : g = [i \in {} |-> first] OBVIOUS
    <3>2. 1..0 = {} OBVIOUS
    <3>3. g = [i \in 1..0 |-> IF i = 1 THEN first ELSE g[i - 1] + wanted[i - 1].duration]
      BY <3>1, <3>2
    <3> QED BY <2>2, <3>3
  <2>4. n - 1 \in Nat /\ ~(n <= n - 1) BY <2>2, <2>3
  <2>5. PICK g : Defines(g, n - 1)
    <3>1. n - 1 \notin Bad BY <2>1, <2>4
    <3> QED BY <2>4, <3>1
  <2>6. PICK h : h = [i \in 1..n |-> IF i = 1 THEN first ELSE g[i - 1] + wanted[i - 1].duration]
    OBVIOUS
  <2>7. \A k \in 1..(n - 1) : h[k] = g[k] BY <2>2, <2>4, <2>5, <2>6
  <2>8. \A i \in 1..n : i # 1 => i - 1 \in 1..(n - 1) BY <2>2
  <2>9. \A i \in 1..n : i # 1 => h[i - 1] = g[i - 1] BY <2>7, <2>8
  <2>10. h = [i \in 1..n |-> IF i = 1 THEN first ELSE h[i - 1] + wanted[i - 1].duration]
    BY <2>6, <2>9
  <2> QED BY <2>2, <2>10
<1>2. PICK g : Defines(g, Len(wanted)) BY <1>1
<1> QED BY <1>2 DEF Starts

\* One segment after the other ends before the next starts.
LEMMA StartsFollow ==
    ASSUME NEW first \in Nat, NEW wanted, Len(wanted) \in Nat,
           \A i \in 1..Len(wanted) : wanted[i].duration \in Nat
    PROVE  /\ \A i \in 1..Len(wanted) : Starts(first, wanted)[i] \in Nat
           /\ \A i, j \in 1..Len(wanted) : i < j =>
                Starts(first, wanted)[i] + wanted[i].duration <= Starts(first, wanted)[j]
<1>1. PICK s : s = Starts(first, wanted) OBVIOUS
<1>2. PICK n \in Nat : n = Len(wanted) OBVIOUS
<1>3. \A i \in 1..n : s[i] = IF i = 1 THEN first ELSE s[i - 1] + wanted[i - 1].duration
  <2>1. s = [i \in 1..n |-> IF i = 1 THEN first ELSE s[i - 1] + wanted[i - 1].duration]
    BY <1>1, <1>2, StartsDefined
  <2> QED BY <2>1
<1>4. \A i \in 1..n : s[i] \in Nat
  <2> DEFINE Bad == {i \in 1..n : s[i] \notin Nat}
  <2> SUFFICES ASSUME Bad # {} PROVE FALSE OBVIOUS
  <2>0. Bad \subseteq Nat OBVIOUS
  <2>1. PICK i \in Bad : \A k \in Bad : i <= k BY <2>0, LeastNumber
  <2>2. i \in 1..n /\ s[i] \notin Nat OBVIOUS
  <2>3. i # 1 BY <1>3, <2>2
  <2>4. i - 1 \in 1..n /\ ~(i <= i - 1) BY <2>2, <2>3
  <2>5. s[i - 1] \in Nat BY <2>1, <2>4
  <2> QED BY <1>2, <1>3, <2>2, <2>3, <2>4, <2>5
<1>5. ASSUME NEW i \in 1..n, NEW j \in 1..n, i < j
      PROVE  s[i] + wanted[i].duration <= s[j]
  <2> DEFINE Bad == {k \in 1..n : i < k /\ ~(s[i] + wanted[i].duration <= s[k])}
  <2> SUFFICES ASSUME Bad # {} PROVE FALSE BY <1>5
  <2>0. Bad \subseteq Nat OBVIOUS
  <2>1. PICK k \in Bad : \A m \in Bad : k <= m BY <2>0, LeastNumber
  <2>2. k \in 1..n /\ i < k /\ ~(s[i] + wanted[i].duration <= s[k]) OBVIOUS
  <2>3. k # 1 /\ k - 1 \in 1..n /\ ~(k <= k - 1) BY <2>2
  <2>4. s[k] = s[k - 1] + wanted[k - 1].duration BY <1>3, <2>2, <2>3
  <2>5. s[i] \in Nat /\ s[k - 1] \in Nat BY <1>4, <2>3
  <2>6. wanted[i].duration \in Nat /\ wanted[k - 1].duration \in Nat BY <1>2, <2>3
  <2>7. CASE k - 1 = i BY <2>2, <2>4, <2>5, <2>6, <2>7
  <2>8. CASE i < k - 1
    <3>1. s[i] + wanted[i].duration <= s[k - 1] BY <2>1, <2>3, <2>8
    <3>2. PICK a, b, c, d, e :
            /\ a = s[i] /\ b = wanted[i].duration /\ c = s[k - 1] /\ d = wanted[k - 1].duration
            /\ e = s[k]
      OBVIOUS
    <3>3. a \in Nat /\ b \in Nat /\ c \in Nat /\ d \in Nat BY <2>5, <2>6, <3>2
    <3>4. e = c + d /\ a + b <= c /\ ~(a + b <= e) BY <2>2, <2>4, <3>1, <3>2
    <3> QED BY <3>3, <3>4
  <2> QED BY <2>2, <2>3, <2>7, <2>8
<1> QED BY <1>1, <1>2, <1>4, <1>5

\* What is planned for several services does not overlap.
LEMMA PlansFollow ==
    ASSUME EventTypes, NEW r \in Requests, NEW p \in Plans(r)
    PROVE  /\ Len(p) \in Nat /\ DOMAIN p = 1..Len(p)
           /\ \A i, j \in DOMAIN p : i # j => ~Overlap(p[i], p[j])
<1>1. PICK wanted : wanted = ask[r].attendees OBVIOUS
<1>2. /\ ask[r].start \in Nat /\ wanted \in Seq(Attendee)
  BY <1>1 DEF EventTypes, Ask
<1>3. PICK n \in Nat : n = Len(wanted) BY <1>2
<1>4. \A i \in 1..n : wanted[i].duration \in Nat
  <2>1. \A i \in 1..n : wanted[i] \in Attendee BY <1>2, <1>3
  <2> QED BY <2>1 DEF Attendee
<1>5. PICK s : s = Starts(ask[r].start, wanted) OBVIOUS
<1>6. /\ \A i \in 1..n : s[i] \in Nat
      /\ \A i, j \in 1..n : i < j => s[i] + wanted[i].duration <= s[j]
  BY <1>2, <1>3, <1>4, <1>5, StartsFollow
<1>7. PICK user : p = [i \in 1..n |-> SlotAt(wanted[i], user[i], s[i])]
  BY <1>1, <1>3, <1>5 DEF Plans
<1>8. Len(p) = n /\ DOMAIN p = 1..n BY <1>7
<1>9. \A i \in 1..n : p[i].start = s[i] /\ p[i].end = s[i] + wanted[i].duration
  BY <1>7 DEF SlotAt
<1>10. ASSUME NEW i \in 1..n, NEW j \in 1..n, i # j PROVE ~Overlap(p[i], p[j])
  <2>1. i < j \/ j < i BY <1>10
  <2>2. s[i] \in Nat /\ s[j] \in Nat /\ wanted[i].duration \in Nat /\ wanted[j].duration \in Nat
    BY <1>4, <1>6
  <2>3. i < j => s[i] + wanted[i].duration <= s[j] BY <1>6
  <2>4. j < i => s[j] + wanted[j].duration <= s[i] BY <1>6
  <2> QED BY <1>9, <2>1, <2>2, <2>3, <2>4 DEF Overlap
<1> QED BY <1>8, <1>10
-----------------------------------------------------------------------------
(***************************************************************************)
(* What a step changes of the events                                       *)
(***************************************************************************)

\* Bookings are neither made nor cancelled here, and a request changes neither
\* the plan nor the overlap query of another one.
LEMMA GroupsStay ==
    ASSUME [Next]_vars
    PROVE  groups' = groups
<1>1. ASSUME NEW r \in Requests,
             Look(r) \/ List(r) \/ PlanClass(r) \/ PlanSlots(r) \/ Check(r) \/ Rewrite(r)
      PROVE  groups' = groups
  BY <1>1 DEF Look, List, PlanClass, PlanSlots, Check, Rewrite, tables
<1>2. ASSUME NEW r \in Requests, Open(r) \/ Ensure(r) \/ CheckEach(r) \/ Rebuild(r)
      PROVE  groups' = groups
  BY <1>2 DEF Open, Ensure, CheckEach, Rebuild, tables
<1>3. ASSUME NEW r \in Requests, Count(r) \/ Aim(r) \/ GiveUp(r) \/ Lock(r) \/ Find(r)
      PROVE  groups' = groups
  BY <1>3 DEF Count, Aim, GiveUp, Lock, Find, tables
<1>4. ASSUME NEW r \in Requests,
             Join(r) \/ OverlapQuery(r) \/ Create(r) \/ Sync(r) \/ Finish(r) \/ Abort(r)
      PROVE  groups' = groups
  BY <1>4 DEF Join, OverlapQuery, Create, Sync, Finish, Abort, tables
<1>5. UNCHANGED vars => groups' = groups
  BY DEF vars, tables
<1> QED
  BY <1>1, <1>2, <1>3, <1>4, <1>5 DEF Next, RequestStep, MoveStep

LEMMA OthersPlans ==
    ASSUME EventTypes, NEW q \in Requests, RequestStep(q) \/ Abort(q)
    PROVE  /\ plan' = [r \in Requests |-> plan'[r]]
           /\ checked' = [r \in Requests |-> checked'[r]]
           /\ \A r \in Requests \ {q} : plan'[r] = plan[r] /\ checked'[r] = checked[r]
<1>1. CASE UNCHANGED <<plan, checked>> BY <1>1 DEF EventTypes
<1>2. CASE PlanClass(q) \/ PlanSlots(q)
  BY <1>2 DEF EventTypes, PlanClass, PlanSlots
<1>3. CASE Check(q) \/ CheckEach(q) \/ OverlapQuery(q)
  BY <1>3 DEF EventTypes, Check, CheckEach, OverlapQuery
<1>4. CASE ~(PlanClass(q) \/ PlanSlots(q) \/ Check(q) \/ CheckEach(q) \/ OverlapQuery(q))
  BY <1>1, <1>4 DEF RequestStep, MoveStep, Look, List, Rewrite, Open, Ensure, Rebuild, Count,
     Aim, GiveUp, Lock, Find, Join, Create, Sync, Finish, Abort
<1> QED BY <1>2, <1>3, <1>4

\* Before a commit a request changes no event.
LEMMA EventsKept ==
    ASSUME NEW q \in Requests, Steps(q)
    PROVE  events' = events
BY DEF Steps, tables, Look, List, PlanClass, PlanSlots, Check, Open, Ensure, CheckEach,
   Count, Aim, GiveUp, Lock, Find, Join, OverlapQuery, Create, Abort

\* What the transactions look at is a table of events.
LEMMA SeenIsEvents ==
    ASSUME EventTypes, NEW r \in Requests
    PROVE  /\ IsEvents(EventsSeen(r))
           /\ DOMAIN EventsSeen(r) = DOMAIN events \union DOMAIN writes[r].events
<1>1. IsEvents(events) /\ IsEvents(writes[r].events) BY DEF EventTypes
<1>2. PICK w : w = writes[r].events OBVIOUS
<1>3. IsEvents(Over(w, events)) BY <1>1, <1>2, OverIsEvents
<1>4. DOMAIN Over(w, events) = DOMAIN events \union DOMAIN w BY DEF Over
<1>5. EventsSeen(r) = Over(w, events) BY <1>2 DEF EventsSeen
<1> QED BY <1>2, <1>3, <1>4, <1>5

\* A segment as a row
LEMMA RowShapes ==
    /\ \A s, g, l : IsRow([slot |-> s, group |-> g, live |-> l])
    /\ \A row, l : IsRow(row) =>
         /\ IsRow([row EXCEPT !.live = l]) /\ [row EXCEPT !.live = l].live = l
         /\ [row EXCEPT !.live = l].slot = row.slot
         /\ [row EXCEPT !.live = l].group = row.group
    /\ \A row, g : IsRow(row) =>
         /\ IsRow([row EXCEPT !.group = g]) /\ [row EXCEPT !.group = g].live = row.live
         /\ [row EXCEPT !.group = g].slot = row.slot
         /\ [row EXCEPT !.group = g].group = g
<1>1. \A s, g, l : IsRow([slot |-> s, group |-> g, live |-> l]) BY DEF IsRow
<1>2. ASSUME NEW row, NEW l, IsRow(row)
      PROVE  [row EXCEPT !.live = l] = [slot |-> row.slot, group |-> row.group, live |-> l]
  BY <1>2 DEF IsRow
<1>3. ASSUME NEW row, NEW g, IsRow(row)
      PROVE  [row EXCEPT !.group = g] = [slot |-> row.slot, group |-> g, live |-> row.live]
  BY <1>3 DEF IsRow
<1>4. ASSUME NEW row, NEW l, IsRow(row)
      PROVE  /\ IsRow([row EXCEPT !.live = l]) /\ [row EXCEPT !.live = l].live = l
             /\ [row EXCEPT !.live = l].slot = row.slot
             /\ [row EXCEPT !.live = l].group = row.group
  <2>1. PICK new : new = [slot |-> row.slot, group |-> row.group, live |-> l] OBVIOUS
  <2>2. IsRow(new) /\ new.live = l /\ new.slot = row.slot /\ new.group = row.group
    BY <1>1, <2>1
  <2> QED BY <1>2, <1>4, <2>1, <2>2
<1>5. ASSUME NEW row, NEW g, IsRow(row)
      PROVE  /\ IsRow([row EXCEPT !.group = g]) /\ [row EXCEPT !.group = g].live = row.live
             /\ [row EXCEPT !.group = g].slot = row.slot
             /\ [row EXCEPT !.group = g].group = g
  <2>1. PICK new : new = [slot |-> row.slot, group |-> g, live |-> row.live] OBVIOUS
  <2>2. IsRow(new) /\ new.live = row.live /\ new.slot = row.slot /\ new.group = g
    BY <1>1, <2>1
  <2> QED BY <1>3, <1>5, <2>1, <2>2
<1> QED BY <1>1, <1>4, <1>5

\* What a rebuild writes: each kept event of these places has the segment of
\* its rank, each inserted one the segment of its number.
LEMMA RewrittenRows ==
    ASSUME NEW r \in Requests, IsListing(read[r].originals), NEW places \in SUBSET Kept(r)
    PROVE  /\ IsEvents(Rewritten(r, places))
           /\ DOMAIN Rewritten(r, places) = {read[r].originals[i] : i \in places}
           /\ \A i \in places :
                LET row == Rewritten(r, places)[read[r].originals[i]]
                IN  /\ row.slot = plan[r][Rank(r, i)] /\ row.group = Original(r)
                    /\ row.live = events[read[r].originals[i]].live
<1>1. PICK q : q = read[r].originals OBVIOUS
<1>2. \A i, j \in places : q[i] = q[j] => i = j
  BY <1>1 DEF IsListing, Kept
<1>3. PICK w : w = Rewritten(r, places) OBVIOUS
<1>4. /\ DOMAIN w = {q[i] : i \in places} /\ w = [e \in DOMAIN w |-> w[e]]
      /\ \A e \in DOMAIN w :
           w[e] = [Segment(r, Rank(r, CHOOSE j \in places : q[j] = e)) EXCEPT
                     !.live = events[e].live]
  BY <1>1, <1>3 DEF Rewritten
<1>5. ASSUME NEW i \in places
      PROVE  /\ w[q[i]] = [Segment(r, Rank(r, i)) EXCEPT !.live = events[q[i]].live]
             /\ q[i] \in DOMAIN w
  <2>1. (CHOOSE j \in places : q[j] = q[i]) = i BY <1>2
  <2> QED BY <1>4, <2>1
<1>6. ASSUME NEW i \in places
      PROVE  /\ IsRow(w[q[i]]) /\ w[q[i]].slot = plan[r][Rank(r, i)]
             /\ w[q[i]].group = Original(r) /\ w[q[i]].live = events[q[i]].live
  <2>1. IsRow(Segment(r, Rank(r, i))) BY RowShapes DEF Segment
  <2>2. PICK seg : seg = Segment(r, Rank(r, i)) OBVIOUS
  <2>3. seg.slot = plan[r][Rank(r, i)] /\ seg.group = Original(r) BY <2>2 DEF Segment
  <2>4. PICK l : l = events[q[i]].live OBVIOUS
  <2>5. w[q[i]] = [seg EXCEPT !.live = l] BY <1>5, <2>2, <2>4
  <2>6. IsRow(seg) BY <2>1, <2>2
  <2>7. /\ IsRow([seg EXCEPT !.live = l]) /\ [seg EXCEPT !.live = l].live = l
        /\ [seg EXCEPT !.live = l].slot = seg.slot /\ [seg EXCEPT !.live = l].group = seg.group
    BY <2>6, RowShapes
  <2> QED BY <2>3, <2>4, <2>5, <2>7
<1>7. IsFiniteSet(DOMAIN w)
  <2>1. IsFiniteSet(places) BY Ranks, FS_Subset
  <2>2. PICK f : f = [i \in places |-> q[i]] OBVIOUS
  <2>3. DOMAIN f = places /\ DOMAIN w = {f[i] : i \in DOMAIN f} BY <1>4, <2>2
  <2> QED BY <2>1, <2>3, ImageIsFinite
<1>8. IsEvents(w)
  <2>1. \A e \in DOMAIN w : IsRow(w[e]) BY <1>4, <1>6
  <2> QED BY <1>4, <1>7, <2>1 DEF IsEvents
<1>9. \A i \in places : /\ w[q[i]].slot = plan[r][Rank(r, i)] /\ w[q[i]].group = Original(r)
                         /\ w[q[i]].live = events[q[i]].live
  BY <1>6
<1>10. DOMAIN w = {q[i] : i \in places} BY <1>4
<1> QED BY <1>1, <1>3, <1>8, <1>9, <1>10

LEMMA InsertedRows ==
    ASSUME NEW r \in Requests, IsListing(read[r].originals), Len(plan[r]) \in Nat
    PROVE  /\ IsEvents(Inserted(r))
           /\ DOMAIN Inserted(r) =
                {<<r, i>> : i \in (Cardinality(Kept(r)) + 1)..Len(plan[r])}
           /\ \A i \in (Cardinality(Kept(r)) + 1)..Len(plan[r]) :
                Inserted(r)[<<r, i>>] = Segment(r, i)
<1>1. PICK n \in Nat : n = Cardinality(Kept(r)) BY Ranks
<1>2. PICK m \in Nat : m = Len(plan[r]) OBVIOUS
<1>3. PICK w : w = Inserted(r) OBVIOUS
<1>4. /\ DOMAIN w = {<<r, i>> : i \in (n + 1)..m} /\ w = [e \in DOMAIN w |-> w[e]]
      /\ \A e \in DOMAIN w : w[e] = Segment(r, e[2])
  BY <1>1, <1>2, <1>3 DEF Inserted
<1>5. \A i \in (n + 1)..m : <<r, i>> \in DOMAIN w /\ w[<<r, i>>] = Segment(r, i) BY <1>4
<1>6. ASSUME NEW e \in DOMAIN w PROVE IsRow(w[e])
  <2>1. w[e] = [slot |-> plan[r][e[2]], group |-> Original(r), live |-> TRUE]
    BY <1>4 DEF Segment
  <2> QED BY <2>1, RowShapes
<1>7. IsFiniteSet(DOMAIN w)
  <2>0. PICK k \in Int : k = n + 1 OBVIOUS
  <2>1. IsFiniteSet((n + 1)..m)
    <3>1. m \in Int OBVIOUS
    <3>2. IsFiniteSet(k..m) BY <3>1, FS_Interval
    <3> QED BY <2>0, <3>2
  <2>2. PICK f : f = [i \in (n + 1)..m |-> <<r, i>>] OBVIOUS
  <2>3. DOMAIN f = (n + 1)..m /\ DOMAIN w = {f[i] : i \in DOMAIN f} BY <1>4, <2>2
  <2> QED BY <2>1, <2>3, ImageIsFinite
<1> QED BY <1>1, <1>2, <1>3, <1>4, <1>5, <1>6, <1>7 DEF IsEvents
-----------------------------------------------------------------------------

LEMMA RebuiltIsEvents ==
    ASSUME EventTypes, NEW r \in Requests, pc[r] = "rebuild", Len(plan[r]) \in Nat
    PROVE  IsEvents(Rebuilt(r))
<1>1. IsListing(read[r].originals) /\ ToSet(read[r].originals) \subseteq DOMAIN events
  BY DEF EventTypes, Listed
<1>2. PICK matched : matched = {i \in Kept(r) : Rank(r, i) <= Len(plan[r])} OBVIOUS
<1>3. PICK gone : gone = Deletes(r, read[r].originals)
                           \union {read[r].originals[i] : i \in Kept(r) \ matched}
  OBVIOUS
<1>4. gone \subseteq DOMAIN events /\ IsFiniteSet(gone)
  <2>1. gone \subseteq ToSet(read[r].originals)
    BY <1>1, <1>3 DEF IsListing, Kept, Deletes
  <2>2. IsFiniteSet(DOMAIN events) BY DEF EventTypes, IsEvents
  <2>3. gone \subseteq DOMAIN events BY <1>1, <2>1
  <2> QED BY <2>2, <2>3, FS_Subset
<1>5. IsEvents(Removed(gone)) BY <1>4, RemovedIsEvents DEF EventTypes
<1>6. IsEvents(Inserted(r)) BY <1>1, InsertedRows
<1>7. IsEvents(Rewritten(r, matched))
  <2>1. matched \in SUBSET Kept(r) BY <1>2
  <2> QED BY <1>1, <2>1, RewrittenRows
<1>8. IsEvents(Over(Inserted(r), Removed(gone))) BY <1>5, <1>6, OverIsEvents
<1>9. Rebuilt(r) = Over(Rewritten(r, matched), Over(Inserted(r), Removed(gone)))
  BY <1>2, <1>3 DEF Rebuilt
<1> QED BY <1>7, <1>8, <1>9, OverIsEvents

\* What a commit makes of the events
LEMMA EventsAfter ==
    ASSUME EventsInv, NEW r \in Requests, Rewrite(r) \/ Rebuild(r) \/ Sync(r) \/ Finish(r)
    PROVE  \E new : /\ IsEvents(new) /\ events' = Over(new, EventsSeen(r))
                    /\ Rewrite(r) => new = Moved(ask[r].event, plan[r][1], Original(r))
                    /\ Rebuild(r) => new = Rebuilt(r)
                    /\ Sync(r) => new = <<>>
                    /\ Finish(r) =>
                         new = IF TargetGroup(r) = Original(r) THEN <<>>
                               ELSE Single(read[r].target,
                                      [EventsSeen(r)[read[r].target] EXCEPT !.group = Original(r)])
<1>0. EventTypes BY DEF EventsInv
<1>1. CASE Rewrite(r)
  <2>1. PICK new : new = Moved(ask[r].event, plan[r][1], Original(r)) OBVIOUS
  <2>2. IsEvents(new) BY <2>1, SmallEvents, RowShapes DEF Moved
  <2>3. events' = Over(new, EventsSeen(r)) BY <1>1, <2>1 DEF Rewrite, CommitWith
  <2>4. pc[r] = "rewrite" BY <1>1 DEF Rewrite
  <2>5. ~Rebuild(r) /\ ~Sync(r) /\ ~Finish(r) BY <2>4 DEF Rebuild, Sync, Finish
  <2> QED BY <2>1, <2>2, <2>3, <2>5
<1>2. CASE Rebuild(r)
  <2>1. pc[r] = "rebuild" BY <1>2 DEF Rebuild
  <2>2. Len(plan[r]) \in Nat BY <2>1 DEF EventsInv, Follows
  <2>3. PICK new : new = Rebuilt(r) OBVIOUS
  <2>4. IsEvents(new) BY <1>0, <2>1, <2>2, <2>3, RebuiltIsEvents
  <2>5. events' = Over(new, EventsSeen(r)) BY <1>2, <2>3 DEF Rebuild, CommitWith
  <2>6. ~Rewrite(r) /\ ~Sync(r) /\ ~Finish(r) BY <2>1 DEF Rewrite, Sync, Finish
  <2> QED BY <2>3, <2>4, <2>5, <2>6
<1>3. CASE Sync(r)
  <2>1. pc[r] = "sync" BY <1>3 DEF Sync
  <2>2. PICK new : new = <<>> OBVIOUS
  <2>3. events' = Over(new, EventsSeen(r)) BY <1>3, <2>2 DEF Sync, CommitWith
  <2>4. ~Rewrite(r) /\ ~Rebuild(r) /\ ~Finish(r) BY <2>1 DEF Rewrite, Rebuild, Finish
  <2> QED BY <2>2, <2>3, <2>4, SmallEvents
<1>4. CASE Finish(r)
  <2>1. pc[r] = "finish" BY <1>4 DEF Finish
  <2>2. PICK e : e = read[r].target OBVIOUS
  <2>3. PICK row : row = [EventsSeen(r)[e] EXCEPT !.group = Original(r)] OBVIOUS
  <2>4. IsRow(row)
    <3>1. e \in DOMAIN EventsSeen(r)
      BY <1>0, <2>1, <2>2, SeenIsEvents DEF EventsInv, TargetThere
    <3>2. IsRow(EventsSeen(r)[e]) BY <1>0, <3>1, SeenIsEvents DEF IsEvents
    <3> QED BY <2>3, <3>2, RowShapes
  <2>5. PICK new : new = IF TargetGroup(r) = Original(r) THEN <<>> ELSE Single(e, row) OBVIOUS
  <2>6. IsEvents(new) BY <2>4, <2>5, SmallEvents
  <2>7. events' = Over(new, EventsSeen(r))
    BY <1>4, <2>2, <2>3, <2>5 DEF Finish, CommitWith
  <2>8. ~Rewrite(r) /\ ~Rebuild(r) /\ ~Sync(r) BY <2>1 DEF Rewrite, Rebuild, Sync
  <2> QED BY <2>2, <2>3, <2>5, <2>6, <2>7, <2>8
<1> QED BY <1>1, <1>2, <1>3, <1>4

\* A step is before the commit or one of the four commits.
LEMMA StepsOrCommits ==
    ASSUME NEW q \in Requests, RequestStep(q) \/ Abort(q)
    PROVE  Steps(q) \/ Rewrite(q) \/ Rebuild(q) \/ Sync(q) \/ Finish(q)
BY DEF RequestStep, MoveStep, Steps

\* No event disappears.
LEMMA EventsGrow ==
    ASSUME EventsInv, NEW q \in Requests, RequestStep(q) \/ Abort(q)
    PROVE  IsEvents(events') /\ DOMAIN events \subseteq DOMAIN events'
<1>0. EventTypes BY DEF EventsInv
<1>1. CASE Steps(q) BY <1>0, <1>1, EventsKept DEF EventTypes
<1>2. CASE Rewrite(q) \/ Rebuild(q) \/ Sync(q) \/ Finish(q)
  <2>1. PICK new : IsEvents(new) /\ events' = Over(new, EventsSeen(q)) BY <1>2, EventsAfter
  <2>2. /\ IsEvents(EventsSeen(q))
        /\ DOMAIN EventsSeen(q) = DOMAIN events \union DOMAIN writes[q].events
    BY <1>0, SeenIsEvents
  <2>3. PICK seen : seen = EventsSeen(q) OBVIOUS
  <2>4. IsEvents(Over(new, seen)) BY <2>1, <2>2, <2>3, OverIsEvents
  <2>5. DOMAIN Over(new, seen) = DOMAIN new \union DOMAIN seen BY DEF Over
  <2> QED BY <2>1, <2>2, <2>3, <2>4, <2>5
<1> QED BY <1>1, <1>2, StepsOrCommits
-----------------------------------------------------------------------------
(***************************************************************************)
(* What the events rely on                                                 *)
(***************************************************************************)

\* The rows of a transaction that gives up or creates an event
LEMMA GiveUpEvents ==
    ASSUME SeatTypes, NEW q \in Requests, GiveUp(q)
    PROVE  writes'[q].events =
             Removed(IF Alone(q) THEN EventsIn(events, Original(q)) ELSE {})
<1>1. PICK evs, none :
        /\ evs = Removed(IF Alone(q) THEN EventsIn(events, Original(q)) ELSE {})
        /\ writes' = [writes EXCEPT ![q] = [@ EXCEPT !.events = evs, !.seats = none]]
  BY DEF GiveUp, Removed
<1>2. writes'[q] = [writes[q] EXCEPT !.events = evs, !.seats = none]
  BY <1>1 DEF SeatTypes
<1>3. writes[q] = [events |-> writes[q].events, seats |-> writes[q].seats,
                   groups |-> writes[q].groups]
  BY DEF SeatTypes, IsWrites
<1>4. writes'[q] = [events |-> evs, seats |-> none, groups |-> writes[q].groups]
  BY <1>2, <1>3
<1> QED BY <1>1, <1>4

LEMMA CreateEvents ==
    ASSUME SeatTypes, NEW q \in Requests, Create(q)
    PROVE  writes'[q].events =
             Over(Single(<<q, 1>>, [slot |-> plan[q][1], group |-> Original(q), live |-> TRUE]),
                  writes[q].events)
<1>1. PICK evs, sts :
        /\ evs = Over(Single(<<q, 1>>, [slot |-> plan[q][1], group |-> Original(q),
                                        live |-> TRUE]),
                      writes[q].events)
        /\ writes' = [writes EXCEPT ![q] = [@ EXCEPT !.events = evs, !.seats = sts]]
  BY DEF Create
<1>2. writes'[q] = [writes[q] EXCEPT !.events = evs, !.seats = sts]
  BY <1>1 DEF SeatTypes
<1>3. writes[q] = [events |-> writes[q].events, seats |-> writes[q].seats,
                   groups |-> writes[q].groups]
  BY DEF SeatTypes, IsWrites
<1>4. writes'[q] = [events |-> evs, seats |-> sts, groups |-> writes[q].groups]
  BY <1>2, <1>3
<1> QED BY <1>1, <1>4

\* No other step but the end of a transaction changes its events.
LEMMA EventsWritten ==
    ASSUME SeatTypes, NEW q \in Requests, Steps(q) \/ Ends(q)
    PROVE  \/ writes'[q].events = <<>> /\ pc'[q] \notin Moving
           \/ /\ writes'[q].events = writes[q].events
              /\ pc[q] # "sync" /\ (pc[q] \in Moving <=> pc'[q] \in Moving)
           \/ GiveUp(q) /\ pc[q] = "giveUp" /\ pc'[q] = "lock"
           \/ Create(q) /\ pc[q] = "create" /\ pc'[q] = "sync"
<1>1. CASE Ends(q) \/ Abort(q)
  BY <1>1 DEF SeatTypes, Ends, Abort, EndTx, Goto, NoRows, Moving
<1>2. CASE Look(q) \/ List(q) \/ PlanClass(q) \/ PlanSlots(q)
  BY <1>2 DEF SeatTypes, Look, List, PlanClass, PlanSlots, Goto, Flow, Moving
<1>3. CASE Check(q) \/ CheckEach(q) \/ OverlapQuery(q)
  BY <1>3 DEF SeatTypes, Check, CheckEach, OverlapQuery, Reject, EndTx, Goto, NoRows, Moving
<1>4. CASE Count(q) \/ Aim(q) \/ Lock(q) \/ Find(q)
  BY <1>4 DEF SeatTypes, Count, Aim, Lock, Find, Reject, EndTx, Goto, NoRows, Moving
<1>5. CASE Open(q) \/ Ensure(q)
  BY <1>5 DEF SeatTypes, IsWrites, Open, Ensure, Goto, Moving
<1>6. CASE Join(q)
  BY <1>6 DEF SeatTypes, IsWrites, Join, Reject, EndTx, Goto, NoRows, Moving
<1>7. CASE GiveUp(q) BY <1>7 DEF SeatTypes, GiveUp, Goto
<1>8. CASE Create(q) BY <1>8 DEF SeatTypes, Create, Goto
<1> QED BY <1>1, <1>2, <1>3, <1>4, <1>5, <1>6, <1>7, <1>8 DEF Steps

\* What a transaction gives up are events of the table.
LEMMA GoneEvents ==
    ASSUME EventTypes, NEW q \in Requests
    PROVE  LET gone == IF Alone(q) THEN EventsIn(events, Original(q)) ELSE {}
           IN  gone \subseteq DOMAIN events /\ IsFiniteSet(gone)
<1>1. EventsIn(events, Original(q)) \subseteq DOMAIN events BY DEF EventsIn
<1>2. IsFiniteSet(DOMAIN events) BY DEF EventTypes, IsEvents
<1> QED BY <1>1, <1>2, FS_Subset, FS_EmptySet

\* A step keeps the types of what its transaction writes, and which rows these are.
LEMMA StepOwnEvents ==
    ASSUME SeatTypes, EventsInv, NEW q \in Requests, Steps(q) \/ Ends(q)
    PROVE  IsEvents(writes'[q].events) /\ OwnEvents(pc'[q], writes'[q], plan'[q], q)
<1>0. /\ EventTypes /\ IsEvents(writes[q].events)
      /\ OwnEvents(pc[q], writes[q], plan[q], q)
  BY DEF EventsInv, EventTypes
<1>1. CASE writes'[q].events = <<>> /\ pc'[q] \notin Moving
  <2>1. DOMAIN <<>> = {} OBVIOUS
  <2> QED BY <1>1, <2>1, SmallEvents DEF OwnEvents
<1>2. CASE /\ writes'[q].events = writes[q].events
           /\ pc[q] # "sync" /\ (pc[q] \in Moving <=> pc'[q] \in Moving)
  BY <1>0, <1>2 DEF OwnEvents
<1>3. CASE GiveUp(q) /\ pc[q] = "giveUp" /\ pc'[q] = "lock"
  <2>1. PICK gone : gone = IF Alone(q) THEN EventsIn(events, Original(q)) ELSE {} OBVIOUS
  <2>2. gone \subseteq DOMAIN events /\ IsFiniteSet(gone) BY <1>0, <2>1, GoneEvents
  <2>3. writes'[q].events = Removed(gone) BY <1>3, <2>1, GiveUpEvents
  <2>4. IsEvents(events) BY <1>0 DEF EventTypes
  <2>5. /\ IsEvents(Removed(gone)) /\ DOMAIN Removed(gone) = gone
        /\ \A e \in gone : ~Removed(gone)[e].live
    BY <2>2, <2>4, RemovedIsEvents
  <2> QED BY <1>3, <2>3, <2>5 DEF OwnEvents, Moving
<1>4. CASE Create(q) /\ pc[q] = "create" /\ pc'[q] = "sync"
  <2>1. PICK row : row = [slot |-> plan[q][1], group |-> Original(q), live |-> TRUE] OBVIOUS
  <2>2. PICK one, old : one = Single(<<q, 1>>, row) /\ old = writes[q].events OBVIOUS
  <2>3. writes'[q].events = Over(one, old) BY <1>4, <2>1, <2>2, CreateEvents
  <2>4. IsEvents(one) BY <2>1, <2>2, RowShapes, SmallEvents
  <2>5. IsEvents(Over(one, old)) BY <1>0, <2>2, <2>4, OverIsEvents
  <2>6. DOMAIN one = {<<q, 1>>} /\ one[<<q, 1>>] = row BY <2>2 DEF Single
  <2>7. \A e \in DOMAIN old : ~old[e].live BY <1>0, <1>4, <2>2 DEF OwnEvents
  <2>8. plan' = plan BY <1>4 DEF Create
  <2>9. \A e \in DOMAIN Over(one, old) : Over(one, old)[e].live =>
          e = <<q, 1>> /\ Over(one, old)[e].slot = plan[q][1]
    BY <2>1, <2>6, <2>7 DEF Over
  <2> QED BY <1>4, <2>3, <2>5, <2>8, <2>9 DEF OwnEvents, Moving
<1> QED BY <1>1, <1>2, <1>3, <1>4, EventsWritten

\* The originals are listed once.
LEMMA StepListing ==
    ASSUME SeatTypes, EventTypes, NEW q \in Requests, Steps(q) \/ Ends(q), pc'[q] \in Listed
    PROVE  /\ IsListing(read'[q].originals)
           /\ ToSet(read'[q].originals) \subseteq DOMAIN events
<1>1. ASSUME pc[q] \in Listed, read'[q].originals = read[q].originals
      PROVE  /\ IsListing(read'[q].originals)
             /\ ToSet(read'[q].originals) \subseteq DOMAIN events
  BY <1>1 DEF EventTypes
<1>2. CASE Look(q) BY <1>2 DEF SeatTypes, Look, Goto, Listed
<1>3. CASE List(q)
  <2>1. PICK originals \in Originals(q) :
          read' = [read EXCEPT ![q] = [@ EXCEPT !.originals = originals]]
    BY <1>3 DEF List
  <2>2. read'[q].originals = originals BY <2>1 DEF SeatTypes, IsRead
  <2>3. CASE originals = <<ask[q].event>>
    <3>1. ask[q].event \in DOMAIN events BY DEF EventTypes, Ask
    <3>2. Len(originals) = 1 /\ originals[1] = ask[q].event BY <2>3
    <3>3. ToSet(originals) = {originals[i] : i \in 1..1} BY <2>3 DEF ToSet
    <3> QED BY <2>2, <3>1, <3>2, <3>3 DEF IsListing
  <2>4. CASE originals \in SetToSeqs(LiveIn(events, Original(q)))
    <3>1. PICK ids : ids = LiveIn(events, Original(q)) OBVIOUS
    <3>2. ids \subseteq DOMAIN events BY <3>1 DEF LiveIn, EventsIn
    <3>3. IsFiniteSet(ids) BY <3>2, FS_Subset DEF EventTypes, IsEvents
    <3>4. PICK n \in Nat : n = Cardinality(ids) BY <3>3, FS_CardinalityType
    <3>5. /\ originals \in [1..n -> ids]
          /\ \A i, j \in 1..n : i # j => originals[i] # originals[j]
      BY <2>4, <3>1, <3>4 DEF SetToSeqs
    <3>6. Len(originals) = n BY <3>5
    <3>7. ToSet(originals) = {originals[i] : i \in 1..n} BY <3>5 DEF ToSet
    <3>8. ToSet(originals) \subseteq ids BY <3>5, <3>7
    <3> QED BY <2>2, <3>2, <3>5, <3>6, <3>7, <3>8 DEF IsListing
  <2> QED BY <2>3, <2>4 DEF Originals
<1>4. CASE PlanClass(q) \/ PlanSlots(q)
  BY <1>1, <1>4 DEF SeatTypes, PlanClass, PlanSlots, Listed
<1>5. CASE Check(q) \/ Open(q) \/ Ensure(q) \/ CheckEach(q)
  BY <1>1, <1>5 DEF SeatTypes, Check, Open, Ensure, CheckEach, Listed
<1>6. CASE Count(q) \/ Aim(q) \/ Find(q)
  <2>1. read'[q].originals = read[q].originals
    BY <1>6 DEF SeatTypes, IsRead, Count, Aim, Find
  <2>2. pc[q] \in Listed BY <1>6 DEF Count, Aim, Find, Listed
  <2> QED BY <1>1, <2>1, <2>2
<1>7. CASE GiveUp(q) \/ Lock(q) \/ Join(q) \/ OverlapQuery(q) \/ Create(q)
  BY <1>1, <1>7 DEF SeatTypes, GiveUp, Lock, Join, OverlapQuery, Create, Listed
<1>8. CASE Abort(q) \/ Ends(q)
  BY <1>8 DEF SeatTypes, Abort, Ends, Goto, Listed
<1> QED BY <1>2, <1>3, <1>4, <1>5, <1>6, <1>7, <1>8 DEF Steps
-----------------------------------------------------------------------------
\* What a query that finds no conflict has looked at
LEMMA NoConflict ==
    ASSUME NEW q \in Requests, NEW slot, NEW among, ~Conflict(q, slot, among),
           NEW f \in among, NEW row, row = EventsSeen(q)[f]
    PROVE  ~Blocks(row, slot, groups)
BY DEF Conflict, Blocks

\* Rows that the transaction has not written itself are the table's.
LEMMA SeenOfOthers ==
    ASSUME NEW q \in Requests, NEW f \in DOMAIN events, f \notin DOMAIN writes[q].events
    PROVE  f \in DOMAIN EventsSeen(q) /\ EventsSeen(q)[f] = events[f]
BY DEF EventsSeen, Over

\* After the overlap query nothing that it saw is in the way.
LEMMA StepNothingBlocks ==
    ASSUME SeatTypes, EventsInv, NEW q \in Requests, Steps(q) \/ Ends(q)
    PROVE  NothingBlocks(pc'[q], ask[q], read'[q], checked'[q], writes'[q], plan'[q], groups)
<1>0. /\ EventTypes /\ OwnEvents(pc[q], writes[q], plan[q], q)
      /\ NothingBlocks(pc[q], ask[q], read[q], checked[q], writes[q], plan[q], groups)
  BY DEF EventsInv
<1>1. CASE pc'[q] \notin {"rewrite", "create", "sync", "rebuild"}
  BY <1>1 DEF NothingBlocks
<1>2. CASE Look(q) \/ List(q) \/ PlanClass(q) \/ PlanSlots(q)
  BY <1>1, <1>2 DEF SeatTypes, Look, List, PlanClass, PlanSlots, Goto, Flow
<1>3. CASE Open(q) \/ Ensure(q) \/ Abort(q) \/ Ends(q)
  BY <1>1, <1>3 DEF SeatTypes, Open, Ensure, Abort, Ends, Goto
<1>4. CASE Count(q) \/ Aim(q) \/ GiveUp(q) \/ Lock(q)
  BY <1>1, <1>4 DEF SeatTypes, Count, Aim, GiveUp, Lock, Reject, Goto
<1>5. CASE Find(q) \/ Join(q)
  BY <1>1, <1>5 DEF SeatTypes, Find, Join, Reject, Goto
<1>6. CASE Check(q)
  <2>1. CASE Reject(q) BY <1>1, <2>1 DEF Reject, Goto, SeatTypes
  <2>2. CASE ~Reject(q)
    <3>1. /\ pc[q] = "check" /\ pc'[q] = "rewrite" /\ plan' = plan /\ checked'[q] = events
          /\ ~Conflict(q, plan[q][1], OfUncancelled(q) \ {ask[q].event})
      BY <1>0, <1>6, <2>2 DEF Check, Goto, SeatTypes, EventTypes
    <3>2. DOMAIN writes[q].events = {} BY <1>0, <3>1 DEF OwnEvents, Moving
    <3>3. ASSUME NEW f \in DOMAIN events \ {ask[q].event}
          PROVE  ~Blocks(events[f], plan[q][1], groups)
      <4>1. f \in DOMAIN EventsSeen(q) /\ EventsSeen(q)[f] = events[f]
        BY <3>2, SeenOfOthers
      <4>2. CASE groups[events[f].group].cancelled BY <4>2 DEF Blocks
      <4>3. CASE ~groups[events[f].group].cancelled
        <5>1. f \in OfUncancelled(q) \ {ask[q].event} BY <4>1, <4>3 DEF OfUncancelled
        <5> QED BY <3>1, <4>1, <5>1, NoConflict
      <4> QED BY <4>2, <4>3
    <3> QED BY <3>1, <3>3 DEF NothingBlocks
  <2> QED BY <2>1, <2>2
<1>7. CASE CheckEach(q)
  <2>1. CASE Reject(q) BY <1>1, <2>1 DEF Reject, Goto, SeatTypes
  <2>2. CASE ~Reject(q)
    <3>1. /\ pc[q] = "checkEach" /\ pc'[q] = "rebuild" /\ plan' = plan /\ read' = read
          /\ checked'[q] = events
          /\ \A i \in DOMAIN plan[q] :
               ~Conflict(q, plan[q][i], DOMAIN EventsSeen(q) \ ToSet(read[q].originals))
      BY <1>0, <1>7, <2>2 DEF CheckEach, Goto, SeatTypes, EventTypes
    <3>2. DOMAIN writes[q].events = {} BY <1>0, <3>1 DEF OwnEvents, Moving
    <3>3. ASSUME NEW f \in DOMAIN events \ ToSet(read[q].originals), NEW i \in DOMAIN plan[q]
          PROVE  ~Blocks(events[f], plan[q][i], groups)
      <4>1. f \in DOMAIN EventsSeen(q) /\ EventsSeen(q)[f] = events[f]
        BY <3>2, SeenOfOthers
      <4>2. f \in DOMAIN EventsSeen(q) \ ToSet(read[q].originals) BY <4>1
      <4> QED BY <3>1, <4>1, <4>2, NoConflict
    <3> QED BY <3>1, <3>3 DEF NothingBlocks
  <2> QED BY <2>1, <2>2
<1>8. CASE OverlapQuery(q)
  <2>1. CASE Reject(q) BY <1>1, <2>1 DEF Reject, Goto, SeatTypes
  <2>2. CASE ~Reject(q)
    <3>1. /\ pc'[q] = "create" /\ plan' = plan /\ writes' = writes /\ checked'[q] = events
          /\ ~Conflict(q, plan[q][1], OfUncancelled(q))
      BY <1>0, <1>8, <2>2 DEF OverlapQuery, Goto, SeatTypes, EventTypes
    <3>2. ASSUME NEW f \in DOMAIN events \ DOMAIN writes[q].events
          PROVE  ~Blocks(events[f], plan[q][1], groups)
      <4>1. f \in DOMAIN EventsSeen(q) /\ EventsSeen(q)[f] = events[f] BY SeenOfOthers
      <4>2. CASE groups[events[f].group].cancelled BY <4>2 DEF Blocks
      <4>3. CASE ~groups[events[f].group].cancelled
        <5>1. f \in OfUncancelled(q) BY <4>1, <4>3 DEF OfUncancelled
        <5> QED BY <3>1, <4>1, <5>1, NoConflict
      <4> QED BY <4>2, <4>3
    <3> QED BY <3>1, <3>2 DEF NothingBlocks
  <2> QED BY <2>1, <2>2
<1>9. CASE Create(q)
  <2>1. /\ pc[q] = "create" /\ pc'[q] = "sync" /\ plan' = plan /\ checked' = checked
    BY <1>9 DEF Create, Goto, SeatTypes
  <2>2. DOMAIN writes[q].events \subseteq DOMAIN writes'[q].events
    <3>1. PICK one, old : /\ old = writes[q].events
                          /\ writes'[q].events = Over(one, old)
      BY <1>9, CreateEvents
    <3> QED BY <3>1 DEF Over
  <2>3. \A f \in DOMAIN checked[q] \ DOMAIN writes[q].events :
          ~Blocks(checked[q][f], plan[q][1], groups)
    BY <1>0, <2>1 DEF NothingBlocks
  <2> QED BY <2>1, <2>2, <2>3 DEF NothingBlocks
<1> QED BY <1>2, <1>3, <1>4, <1>5, <1>6, <1>7, <1>8, <1>9 DEF Steps

\* Only a plan for several services is carried out by a rebuild.
LEMMA StepFollows ==
    ASSUME SeatTypes, EventsInv, NEW q \in Requests, Steps(q) \/ Ends(q)
    PROVE  Follows(pc'[q], plan'[q])
<1>0. EventTypes /\ Follows(pc[q], plan[q]) BY DEF EventsInv
<1>1. CASE pc'[q] \notin {"open", "ensure", "checkEach", "rebuild"}
  BY <1>1 DEF Follows
<1>2. CASE PlanSlots(q)
  <2>1. CASE Goto(q, "rejected") BY <1>1, <2>1 DEF SeatTypes, Goto
  <2>2. CASE \E p \in Plans(q) : plan' = [plan EXCEPT ![q] = p]
    <3>1. PICK p \in Plans(q) : plan' = [plan EXCEPT ![q] = p] BY <2>2
    <3>2. plan'[q] = p BY <1>0, <3>1 DEF EventTypes
    <3> QED BY <1>0, <3>2, PlansFollow DEF Follows
  <2> QED BY <1>2, <2>1, <2>2 DEF PlanSlots
<1>3. CASE Look(q) \/ List(q) \/ PlanClass(q)
  BY <1>1, <1>3 DEF SeatTypes, Look, List, PlanClass, Goto, Flow
<1>4. CASE Open(q) \/ Ensure(q) \/ CheckEach(q)
  BY <1>0, <1>1, <1>4 DEF SeatTypes, Open, Ensure, CheckEach, Reject, Goto, Follows
<1>5. CASE Check(q) \/ Abort(q) \/ Ends(q)
  BY <1>1, <1>5 DEF SeatTypes, Check, Abort, Ends, Reject, Goto
<1>6. CASE Count(q) \/ Aim(q) \/ GiveUp(q) \/ Lock(q)
  BY <1>1, <1>6 DEF SeatTypes, Count, Aim, GiveUp, Lock, Reject, Goto
<1>7. CASE Find(q) \/ Join(q) \/ OverlapQuery(q) \/ Create(q)
  BY <1>1, <1>7 DEF SeatTypes, Find, Join, OverlapQuery, Create, Reject, Goto
<1> QED BY <1>2, <1>3, <1>4, <1>5, <1>6, <1>7 DEF Steps

\* The event found stays there.
LEMMA StepTargetThere ==
    ASSUME SeatTypes, EventsInv, NEW q \in Requests, Steps(q) \/ Ends(q)
    PROVE  TargetThere(pc'[q], read'[q], writes'[q], events)
<1>0. EventTypes /\ TargetThere(pc[q], read[q], writes[q], events) BY DEF EventsInv
<1>1. CASE pc'[q] \notin {"join", "finish"}
  BY <1>1 DEF TargetThere
<1>2. CASE Find(q)
  <2>1. CASE pc'[q] = "join"
    <3>1. PICK e \in DOMAIN EventsSeen(q) : read' = [read EXCEPT ![q] = [@ EXCEPT !.target = e]]
      BY <1>2, <2>1 DEF Find, Goto, SeatTypes
    <3>2. read'[q].target = e BY <3>1 DEF SeatTypes, IsRead
    <3>3. writes' = writes BY <1>2 DEF Find
    <3> QED BY <1>0, <3>1, <3>2, <3>3, SeenIsEvents DEF TargetThere
  <2> QED BY <1>1, <1>2, <2>1 DEF Find, Goto, SeatTypes
<1>3. CASE Join(q)
  <2>1. CASE Reject(q) BY <1>1, <2>1 DEF Reject, Goto, SeatTypes
  <2>2. CASE ~Reject(q)
    <3>1. /\ pc[q] = "join" /\ pc'[q] = "finish" /\ read' = read
          /\ writes'[q].events = writes[q].events
      BY <1>3, <2>2 DEF Join, Goto, SeatTypes, IsWrites
    <3> QED BY <1>0, <3>1 DEF TargetThere
  <2> QED BY <2>1, <2>2
<1>4. CASE Look(q) \/ List(q) \/ PlanClass(q) \/ PlanSlots(q)
  BY <1>1, <1>4 DEF SeatTypes, Look, List, PlanClass, PlanSlots, Goto, Flow
<1>5. CASE Check(q) \/ Open(q) \/ Ensure(q) \/ CheckEach(q) \/ Abort(q)
  BY <1>1, <1>5 DEF SeatTypes, Check, Open, Ensure, CheckEach, Abort, Reject, Goto
<1>6. CASE Count(q) \/ Aim(q) \/ GiveUp(q) \/ Lock(q)
  BY <1>1, <1>6 DEF SeatTypes, Count, Aim, GiveUp, Lock, Reject, Goto
<1>7. CASE OverlapQuery(q) \/ Create(q) \/ Ends(q)
  BY <1>1, <1>7 DEF SeatTypes, OverlapQuery, Create, Ends, Reject, Goto
<1> QED BY <1>2, <1>3, <1>4, <1>5, <1>6, <1>7 DEF Steps
-----------------------------------------------------------------------------
\* At the start the events are those of the scene, and nobody has planned.
LEMMA InitEvents == Init => EventsInv
<1> SUFFICES ASSUME Init PROVE EventsInv OBVIOUS
<1>1. PICK s \in Scenes : events = s.events /\ ask = s.asks BY DEF Init
<1>2. IsEvents(events) /\ DOMAIN events = EventIds
  <2>1. PICK table : table = s.events OBVIOUS
  <2>2. table \in [EventIds -> EventRow] BY <2>1
  <2>3. DOMAIN table = EventIds /\ table = [e \in EventIds |-> table[e]] BY <2>2
  <2>4. \A e \in EventIds : IsRow(table[e]) BY <2>2 DEF EventRow, IsRow
  <2>5. IsEvents(table) BY <2>3, <2>4 DEF IsEvents
  <2> QED BY <1>1, <2>1, <2>3, <2>5
<1>3. \A r \in Requests : ask[r] \in Ask /\ ask[r].attendees # <<>> BY <1>1
<1>4. \A r \in Requests : /\ pc[r] = "idle" /\ writes[r].events = <<>>
                          /\ DOMAIN writes[r].events = {}
  <2>1. DOMAIN <<>> = {} OBVIOUS
  <2> QED BY <2>1 DEF Init, NoRows
<1>5. EventTypes
  <2>1. plan = [r \in Requests |-> plan[r]] /\ checked = [r \in Requests |-> checked[r]]
    BY DEF Init
  <2>2. \A r \in Requests : IsEvents(writes[r].events) BY <1>4, SmallEvents
  <2>3. \A r \in Requests : pc[r] \notin Listed BY <1>4 DEF Listed
  <2> QED BY <1>2, <1>3, <2>1, <2>2, <2>3 DEF EventTypes
<1>6. ASSUME NEW r \in Requests
      PROVE  /\ OwnEvents(pc[r], writes[r], plan[r], r)
             /\ NothingBlocks(pc[r], ask[r], read[r], checked[r], writes[r], plan[r], groups)
             /\ Follows(pc[r], plan[r])
             /\ TargetThere(pc[r], read[r], writes[r], events)
  BY <1>4 DEF OwnEvents, NothingBlocks, Follows, TargetThere
<1> QED BY <1>5, <1>6 DEF EventsInv

\* A step keeps the inductive invariant of the events.
LEMMA StepEvents == SeatsInv /\ EventsInv /\ [Next]_vars => EventsInv'
<1> SUFFICES ASSUME SeatsInv, EventsInv, [Next]_vars PROVE EventsInv' OBVIOUS
<1>0. ask' = ask /\ groups' = groups /\ SeatTypes /\ EventTypes
  BY AskStays, GroupsStay DEF SeatsInv, EventsInv
<1>1. CASE UNCHANGED vars
  BY <1>0, <1>1 DEF EventsInv, EventTypes, vars, tables
<1>2. ASSUME NEW q \in Requests, RequestStep(q) \/ Abort(q) PROVE EventsInv'
  <2>1. Steps(q) \/ Ends(q) BY <1>2, StepsOrEnds
  <2>2. IsEvents(events') /\ DOMAIN events \subseteq DOMAIN events' BY <1>2, EventsGrow
  <2>3. ASSUME NEW r \in Requests
        PROVE  /\ IsEvents(writes'[r].events)
               /\ OwnEvents(pc'[r], writes'[r], plan'[r], r)
               /\ NothingBlocks(pc'[r], ask[r], read'[r], checked'[r], writes'[r], plan'[r],
                                groups)
               /\ Follows(pc'[r], plan'[r])
               /\ TargetThere(pc'[r], read'[r], writes'[r], events)
               /\ pc'[r] \in Listed => /\ IsListing(read'[r].originals)
                                       /\ ToSet(read'[r].originals) \subseteq DOMAIN events
    <3>1. CASE r = q
      BY <1>0, <2>1, <3>1, StepOwnEvents, StepNothingBlocks, StepFollows, StepTargetThere,
         StepListing
    <3>2. CASE r # q
      <4>1. /\ pc'[r] = pc[r] /\ read'[r] = read[r] /\ writes'[r] = writes[r]
            /\ plan'[r] = plan[r] /\ checked'[r] = checked[r]
        BY <1>0, <1>2, <3>2, OthersUntouched, OthersPlans
      <4> QED BY <4>1 DEF EventsInv, EventTypes
    <3> QED BY <3>1, <3>2
  <2>4. ASSUME NEW r \in Requests
        PROVE  /\ pc'[r] \in Listed => /\ IsListing(read'[r].originals)
                                       /\ ToSet(read'[r].originals) \subseteq DOMAIN events'
               /\ TargetThere(pc'[r], read'[r], writes'[r], events')
    <3>1. pc'[r] \in Listed => /\ IsListing(read'[r].originals)
                               /\ ToSet(read'[r].originals) \subseteq DOMAIN events'
      BY <2>2, <2>3
    <3>2. TargetThere(pc'[r], read'[r], writes'[r], events')
      BY <2>2, <2>3 DEF TargetThere
    <3> QED BY <3>1, <3>2
  <2>5. /\ plan' = [r \in Requests |-> plan'[r]]
        /\ checked' = [r \in Requests |-> checked'[r]]
    BY <1>0, <1>2, OthersPlans
  <2>6. EventTypes'
    <3>1. EventIds \subseteq DOMAIN events' BY <1>0, <2>2 DEF EventTypes
    <3>2. \A r \in Requests : ask'[r] \in Ask /\ ask'[r].attendees # <<>>
      BY <1>0 DEF EventTypes
    <3> QED BY <2>2, <2>3, <2>4, <2>5, <3>1, <3>2 DEF EventTypes
  <2>7. \A r \in Requests :
          NothingBlocks(pc'[r], ask'[r], read'[r], checked'[r], writes'[r], plan'[r], groups')
    BY <1>0, <2>3
  <2> QED BY <2>3, <2>4, <2>6, <2>7 DEF EventsInv
<1> QED BY <1>1, <1>2 DEF Next

\* The inductive invariant of the events holds in every state.
THEOREM ChecksAreKept == Spec => [](SeatsInv /\ EventsInv)
<1>1. Init => SeatsInv /\ EventsInv BY InitSeats, InitEvents
<1>2. SeatsInv /\ EventsInv /\ [Next]_vars => (SeatsInv /\ EventsInv)'
  BY StepSeats, StepEvents
<1> QED BY <1>1, <1>2, PTL DEF Spec
-----------------------------------------------------------------------------
(***************************************************************************)
(* What a rebuild makes of the events                                      *)
(***************************************************************************)

\* This event takes that segment of the plan.
Takes(r, e, k) ==
    \/ \E i \in Kept(r) : read[r].originals[i] = e /\ Rank(r, i) = k
    \/ e = <<r, k>> /\ k > Cardinality(Kept(r))

\* Two events take different segments.
LEMMA TakesOne ==
    ASSUME NEW r \in Requests, IsListing(read[r].originals),
           NEW e, NEW f, NEW k \in Nat, Takes(r, e, k), Takes(r, f, k)
    PROVE  e = f
<1>1. PICK n \in Nat : n = Cardinality(Kept(r)) BY Ranks
<1>2. \A i \in Kept(r) : Rank(r, i) \in Nat /\ Rank(r, i) <= n
  <2> SUFFICES ASSUME NEW i \in Kept(r) PROVE Rank(r, i) \in Nat /\ Rank(r, i) <= n OBVIOUS
  <2>1. Rank(r, i) \in 1..n BY <1>1, Ranks
  <2> QED BY <2>1
<1>3. CASE /\ \E i \in Kept(r) : read[r].originals[i] = e /\ Rank(r, i) = k
           /\ \E j \in Kept(r) : read[r].originals[j] = f /\ Rank(r, j) = k
  <2>1. PICK i \in Kept(r) : read[r].originals[i] = e /\ Rank(r, i) = k BY <1>3
  <2>2. PICK j \in Kept(r) : read[r].originals[j] = f /\ Rank(r, j) = k BY <1>3
  <2>3. i = j BY <2>1, <2>2, Ranks
  <2> QED BY <2>1, <2>2, <2>3
<1>4. ~(k > n) \/ \A i \in Kept(r) : Rank(r, i) # k BY <1>2
<1> QED BY <1>1, <1>3, <1>4 DEF Takes

\* The originals are all rewritten or deleted, and what is live afterwards has a
\* segment of its own.
LEMMA RebuiltRows ==
    ASSUME EventsInv, NEW r \in Requests, pc[r] = "rebuild"
    PROVE  /\ ToSet(read[r].originals) \subseteq DOMAIN Rebuilt(r)
           /\ \A e \in DOMAIN Rebuilt(r) : Rebuilt(r)[e].live =>
                \E k \in DOMAIN plan[r] :
                  /\ Takes(r, e, k)
                  /\ Rebuilt(r)[e].slot = plan[r][k] /\ Rebuilt(r)[e].group = Original(r)
<1>0. /\ EventTypes /\ IsListing(read[r].originals)
      /\ ToSet(read[r].originals) \subseteq DOMAIN events
  BY DEF EventsInv, EventTypes, Listed
<1>1. PICK m \in Nat : m = Len(plan[r]) /\ DOMAIN plan[r] = 1..m
  BY DEF EventsInv, Follows
<1>2. PICK n \in Nat : n = Cardinality(Kept(r)) BY <1>0, Ranks
<1>3. PICK matched : matched = {i \in Kept(r) : Rank(r, i) <= Len(plan[r])} OBVIOUS
<1>4. PICK gone : gone = Deletes(r, read[r].originals)
                           \union {read[r].originals[i] : i \in Kept(r) \ matched}
  OBVIOUS
<1>5. PICK rewritten, inserted, removed :
        rewritten = Rewritten(r, matched) /\ inserted = Inserted(r) /\ removed = Removed(gone)
  OBVIOUS
<1>6. Rebuilt(r) = Over(rewritten, Over(inserted, removed))
  BY <1>3, <1>4, <1>5 DEF Rebuilt
<1>7. /\ DOMAIN rewritten = {read[r].originals[i] : i \in matched}
      /\ \A i \in matched :
           /\ rewritten[read[r].originals[i]].slot = plan[r][Rank(r, i)]
           /\ rewritten[read[r].originals[i]].group = Original(r)
  <2>1. matched \in SUBSET Kept(r) BY <1>3
  <2> QED BY <1>0, <1>5, <2>1, RewrittenRows
<1>8. /\ DOMAIN inserted = {<<r, i>> : i \in (n + 1)..m}
      /\ \A i \in (n + 1)..m : inserted[<<r, i>>] = Segment(r, i)
  BY <1>0, <1>1, <1>2, <1>5, InsertedRows
<1>9. DOMAIN removed = gone BY <1>5 DEF Removed
<1>10. gone \subseteq ToSet(read[r].originals)
  BY <1>0, <1>4 DEF IsListing, Kept, Deletes
<1>11. \A e \in gone : ~removed[e].live
  <2>1. gone \subseteq DOMAIN events /\ IsFiniteSet(gone)
    BY <1>0, <1>10, FS_Subset DEF EventTypes, IsEvents
  <2> QED BY <1>0, <1>5, <2>1, RemovedIsEvents DEF EventTypes
<1>12. ToSet(read[r].originals) \subseteq DOMAIN Rebuilt(r)
  <2>1. ASSUME NEW e \in ToSet(read[r].originals) PROVE e \in DOMAIN rewritten \union gone
    <3>1. PICK i \in 1..Len(read[r].originals) : read[r].originals[i] = e
      BY <1>0 DEF IsListing
    <3>2. CASE e \in ask[r].deletes BY <1>4, <3>2 DEF Deletes
    <3>3. CASE e \notin ask[r].deletes
      <4>1. i \in Kept(r) BY <3>1, <3>3 DEF Kept
      <4> QED BY <1>4, <1>7, <3>1, <4>1
    <3> QED BY <3>2, <3>3
  <2> QED BY <1>6, <1>9, <2>1 DEF Over
<1>13. ASSUME NEW e \in DOMAIN Rebuilt(r), Rebuilt(r)[e].live
       PROVE  \E k \in DOMAIN plan[r] :
                /\ Takes(r, e, k)
                /\ Rebuilt(r)[e].slot = plan[r][k] /\ Rebuilt(r)[e].group = Original(r)
  <2>1. CASE e \in DOMAIN rewritten
    <3>1. PICK i \in matched : read[r].originals[i] = e BY <1>7, <2>1
    <3>2. i \in Kept(r) /\ Rank(r, i) <= m BY <1>1, <1>3
    <3>3. Rank(r, i) \in 1..n BY <1>0, <1>2, <3>2, Ranks
    <3>4. Rank(r, i) \in 1..m BY <3>2, <3>3
    <3>5. Takes(r, e, Rank(r, i)) BY <3>1, <3>2 DEF Takes
    <3>6. Rebuilt(r)[e] = rewritten[e] BY <1>6, <2>1 DEF Over
    <3>7. Rebuilt(r)[e].slot = plan[r][Rank(r, i)] /\ Rebuilt(r)[e].group = Original(r)
      BY <1>7, <3>1, <3>6
    <3> QED BY <1>1, <3>4, <3>5, <3>7
  <2>2. CASE e \notin DOMAIN rewritten /\ e \in DOMAIN inserted
    <3>1. PICK k \in (n + 1)..m : e = <<r, k>> BY <1>8, <2>2
    <3>2. k \in 1..m /\ k > n OBVIOUS
    <3>3. Rebuilt(r)[e] = inserted[e] BY <1>6, <2>2 DEF Over
    <3>4. Rebuilt(r)[e].slot = plan[r][k] /\ Rebuilt(r)[e].group = Original(r)
      <4>1. PICK seg : seg = Segment(r, k) OBVIOUS
      <4>2. seg.slot = plan[r][k] /\ seg.group = Original(r) BY <4>1 DEF Segment
      <4>3. Rebuilt(r)[e] = seg BY <1>8, <3>1, <3>3, <4>1
      <4> QED BY <4>2, <4>3
    <3>5. Takes(r, e, k) BY <1>2, <3>1, <3>2 DEF Takes
    <3> QED BY <1>1, <3>2, <3>4, <3>5
  <2>3. CASE e \notin DOMAIN rewritten /\ e \notin DOMAIN inserted
    <3>1. e \in gone /\ Rebuilt(r)[e] = removed[e] BY <1>6, <1>9, <2>3 DEF Over
    <3> QED BY <1>11, <1>13, <3>1
  <2> QED BY <2>1, <2>2, <2>3
<1> QED BY <1>12, <1>13

\* Overlapping is mutual.
LEMMA OverlapIsMutual ==
    ASSUME NEW s, NEW t, Overlap(s, t)
    PROVE  Overlap(t, s)
BY DEF Overlap
-----------------------------------------------------------------------------
(***************************************************************************)
(* Overlap queries                                                         *)
(***************************************************************************)

\* Who commits takes one of the four ways.
LEMMA CommitWays ==
    ASSUME SeatsInv, NEW q \in Requests, RequestStep(q) \/ Abort(q),
           NEW r \in Requests, Commits(r)
    PROVE  r = q /\ (Rewrite(r) \/ Rebuild(r) \/ Sync(r) \/ Finish(r))
<1>1. r = q /\ Ends(r) BY CommitIsEnd
<1>2. pc[r] \in {"rewrite", "rebuild", "sync", "finish"} BY <1>1 DEF Ends
<1>3. pc'[r] = "updated" BY DEF Commits
<1>4. ~(Look(r) \/ List(r) \/ PlanClass(r) \/ PlanSlots(r) \/ Check(r))
  BY <1>2 DEF Look, List, PlanClass, PlanSlots, Check
<1>5. ~(Open(r) \/ Ensure(r) \/ CheckEach(r) \/ Count(r) \/ Aim(r))
  BY <1>2 DEF Open, Ensure, CheckEach, Count, Aim
<1>6. ~(GiveUp(r) \/ Lock(r) \/ Find(r) \/ Join(r) \/ OverlapQuery(r) \/ Create(r))
  BY <1>2 DEF GiveUp, Lock, Find, Join, OverlapQuery, Create
<1>7. ~Abort(r) BY <1>3 DEF SeatsInv, SeatTypes, Abort, Goto
<1> QED BY <1>1, <1>4, <1>5, <1>6, <1>7, StepsOrCommits DEF Steps

\* updateSingleEvent, rebuildBooking, moveSingleParticipantInClassEdit: for any
\* requests, bookings and professionals, an update books a professional twice
\* only with an event that has changed since its overlap query, or by moving a
\* class that was in its way before or in a cancelled booking.
THEOREM DoubleBookingsAreUnseen == Spec => DoubleBookingUnseen
<1>1. ASSUME SeatsInv, EventsInv, [Next]_vars, NEW r \in Requests, Commits(r),
             NEW e \in DOMAIN events', NEW f \in DOMAIN events', e # f,
             e \notin DOMAIN events \/ events'[e] # events[e],
             Standing(events'[e]), Standing(events'[f]),
             events'[e].slot.user = events'[f].slot.user,
             Overlap(events'[e].slot, events'[f].slot),
             f \in DOMAIN checked[r], checked[r][f] = events'[f]
      PROVE  pc[r] = "finish" /\ (Standing(events[e]) \/ groups[events[e].group].cancelled)
  <2>0. /\ EventTypes /\ OwnEvents(pc[r], writes[r], plan[r], r)
        /\ NothingBlocks(pc[r], ask[r], read[r], checked[r], writes[r], plan[r], groups)
        /\ Follows(pc[r], plan[r])
        /\ TargetThere(pc[r], read[r], writes[r], events)
    BY <1>1 DEF EventsInv
  <2>1. Rewrite(r) \/ Rebuild(r) \/ Sync(r) \/ Finish(r)
    BY <1>1, CommitWays DEF Next, vars, Commits
  <2>2. PICK new : /\ events' = Over(new, EventsSeen(r))
                   /\ Rewrite(r) => new = Moved(ask[r].event, plan[r][1], Original(r))
                   /\ Rebuild(r) => new = Rebuilt(r)
                   /\ Sync(r) => new = <<>>
                   /\ Finish(r) =>
                        new = IF TargetGroup(r) = Original(r) THEN <<>>
                              ELSE Single(read[r].target,
                                     [EventsSeen(r)[read[r].target] EXCEPT !.group = Original(r)])
    BY <1>1, <2>1, EventsAfter
  <2>3. PICK own : own = writes[r].events OBVIOUS
  <2>4. /\ DOMAIN events' = DOMAIN new \union DOMAIN own \union DOMAIN events
        /\ \A x \in DOMAIN events' :
             events'[x] = IF x \in DOMAIN new THEN new[x]
                          ELSE IF x \in DOMAIN own THEN own[x] ELSE events[x]
    BY <2>2, <2>3 DEF Over, EventsSeen
  <2>5. e \in DOMAIN new \/ (e \notin DOMAIN new /\ e \in DOMAIN own) BY <1>1, <2>4
  <2>6. /\ events'[e].live /\ events'[f].live
        /\ ~groups[events'[f].group].cancelled
    BY <1>1 DEF Standing
  <2>7. \A slot : events'[e].slot = slot => Blocks(checked[r][f], slot, groups)
    BY <1>1, <2>6, OverlapIsMutual DEF Blocks
  <2>8. CASE Rewrite(r)
    <3>1. pc[r] = "rewrite" BY <2>8 DEF Rewrite
    <3>2. DOMAIN own = {} BY <2>0, <2>3, <3>1 DEF OwnEvents, Moving
    <3>3. new = Single(ask[r].event, [slot |-> plan[r][1], group |-> Original(r),
                                      live |-> events[ask[r].event].live])
      BY <2>2, <2>8 DEF Moved
    <3>4. e = ask[r].event /\ new[e].slot = plan[r][1] /\ events'[e] = new[e]
      BY <2>4, <2>5, <3>2, <3>3 DEF Single
    <3>5. ~Blocks(checked[r][f], plan[r][1], groups)
      BY <1>1, <2>0, <3>1, <3>4 DEF NothingBlocks
    <3> QED BY <2>7, <3>4, <3>5
  <2>9. CASE Sync(r)
    <3>1. pc[r] = "sync" BY <2>9 DEF Sync
    <3>2. DOMAIN new = {}
      <4>1. DOMAIN <<>> = {} OBVIOUS
      <4> QED BY <2>2, <2>9, <4>1
    <3>3. e \in DOMAIN own /\ events'[e] = own[e] BY <2>4, <2>5, <3>2
    <3>4. e = <<r, 1>> /\ own[e].slot = plan[r][1]
      BY <2>0, <2>3, <2>6, <3>3 DEF OwnEvents
    <3>5. f \notin DOMAIN own
      <4> SUFFICES ASSUME f \in DOMAIN own PROVE FALSE OBVIOUS
      <4>1. events'[f] = own[f] BY <2>4, <3>2
      <4>2. f = <<r, 1>> BY <2>0, <2>3, <2>6, <4>1 DEF OwnEvents
      <4> QED BY <1>1, <3>4, <4>2
    <3>6. ~Blocks(checked[r][f], plan[r][1], groups)
      BY <1>1, <2>0, <2>3, <3>1, <3>5 DEF NothingBlocks
    <3> QED BY <2>7, <3>3, <3>4, <3>6
  <2>10. CASE Rebuild(r)
    <3>1. pc[r] = "rebuild" BY <2>10 DEF Rebuild
    <3>2. DOMAIN own = {} BY <2>0, <2>3, <3>1 DEF OwnEvents, Moving
    <3>3. IsListing(read[r].originals) BY <2>0, <3>1 DEF EventTypes, Listed
    <3>4. new = Rebuilt(r) BY <2>2, <2>10
    <3>5. e \in DOMAIN new /\ events'[e] = new[e] BY <2>4, <2>5, <3>2
    <3>6. PICK k \in DOMAIN plan[r] : Takes(r, e, k) /\ new[e].slot = plan[r][k]
      BY <1>1, <2>6, <3>1, <3>4, <3>5, RebuiltRows
    <3>7. CASE f \in DOMAIN new
      <4>1. events'[f] = new[f] BY <2>4, <3>7
      <4>2. PICK l \in DOMAIN plan[r] : Takes(r, f, l) /\ new[f].slot = plan[r][l]
        BY <1>1, <2>6, <3>1, <3>4, <3>7, <4>1, RebuiltRows
      <4>3. k \in Nat BY <2>0, <3>1 DEF Follows
      <4>4. k # l BY <1>1, <3>3, <3>6, <4>2, <4>3, TakesOne
      <4>5. ~Overlap(plan[r][k], plan[r][l]) BY <2>0, <3>1, <4>4 DEF Follows
      <4> QED BY <1>1, <3>5, <3>6, <4>1, <4>2, <4>5
    <3>8. CASE f \notin DOMAIN new
      <4>1. f \notin ToSet(read[r].originals) BY <1>1, <3>1, <3>4, <3>8, RebuiltRows
      <4>2. ~Blocks(checked[r][f], plan[r][k], groups)
        BY <1>1, <2>0, <3>1, <4>1 DEF NothingBlocks
      <4> QED BY <2>7, <3>5, <3>6, <4>2
    <3> QED BY <3>7, <3>8
  <2>11. CASE Finish(r)
    <3>1. pc[r] = "finish" BY <2>11 DEF Finish
    <3>2. \A x \in DOMAIN own : ~own[x].live BY <2>0, <2>3, <3>1 DEF OwnEvents
    <3>3. e \in DOMAIN new
      <4> SUFFICES ASSUME e \notin DOMAIN new PROVE FALSE OBVIOUS
      <4>1. e \in DOMAIN own /\ events'[e] = own[e] BY <2>4, <2>5
      <4> QED BY <2>6, <3>2, <4>1
    <3>4. PICK row : row = EventsSeen(r)[read[r].target] OBVIOUS
    <3>5. /\ e = read[r].target /\ new[e] = [row EXCEPT !.group = Original(r)]
      <4>1. DOMAIN <<>> = {} OBVIOUS
      <4>2. new = Single(read[r].target, [row EXCEPT !.group = Original(r)])
        BY <2>2, <2>11, <3>3, <3>4, <4>1
      <4> QED BY <3>3, <4>2 DEF Single
    <3>6. e \in DOMAIN events \union DOMAIN own
      BY <2>0, <2>3, <3>1, <3>5 DEF TargetThere
    <3>7. IsRow(row)
      <4>1. e \in DOMAIN EventsSeen(r) BY <2>0, <2>3, <3>6, SeenIsEvents
      <4> QED BY <2>0, <3>4, <3>5, <4>1, SeenIsEvents DEF IsEvents
    <3>8. row.live
      <4>1. [row EXCEPT !.group = Original(r)].live = row.live BY <3>7, RowShapes
      <4> QED BY <2>4, <2>6, <3>3, <3>5, <4>1
    <3>9. row = IF e \in DOMAIN own THEN own[e] ELSE events[e]
      BY <2>3, <3>4, <3>5, <3>6 DEF EventsSeen, Over
    <3>10. row = events[e] BY <3>2, <3>8, <3>9
    <3> QED BY <3>1, <3>8, <3>10 DEF Standing
  <2> QED BY <2>1, <2>8, <2>9, <2>10, <2>11
<1>2. SeatsInv /\ EventsInv /\ [Next]_vars =>
        [\A r \in Requests : Commits(r) =>
          \A e, f \in DOMAIN events' :
             (/\ e # f
              /\ e \notin DOMAIN events \/ events'[e] # events[e]
              /\ Standing(events'[e]) /\ Standing(events'[f])
              /\ events'[e].slot.user = events'[f].slot.user
              /\ Overlap(events'[e].slot, events'[f].slot))
             => \/ pc[r] = "finish" /\ (Standing(events[e]) \/ groups[events[e].group].cancelled)
                \/ f \notin DOMAIN checked[r]
                \/ checked[r][f] # events'[f]]_vars
  BY <1>1
<1> QED BY <1>2, ChecksAreKept, PTL DEF Spec, DoubleBookingUnseen
-----------------------------------------------------------------------------
(***************************************************************************)
(* New events                                                              *)
(***************************************************************************)

\* The ids that a request gives its new events are new until it commits.
FreshIds ==
    \A r \in Requests :
        /\ pc[r] # "updated" => \A i \in Nat : <<r, i>> \notin DOMAIN events
        /\ DOMAIN writes[r].events \subseteq DOMAIN events \union {<<r, 1>>}

\* A commit adds events with ids of its own only.
LEMMA NewIds ==
    ASSUME EventsInv, FreshIds, NEW q \in Requests,
           Rewrite(q) \/ Rebuild(q) \/ Sync(q) \/ Finish(q)
    PROVE  DOMAIN events' \subseteq DOMAIN events \union {<<q, i>> : i \in Nat}
<1>0. EventTypes BY DEF EventsInv
<1>1. PICK new : /\ events' = Over(new, EventsSeen(q))
                 /\ Rewrite(q) => new = Moved(ask[q].event, plan[q][1], Original(q))
                 /\ Rebuild(q) => new = Rebuilt(q)
                 /\ Sync(q) => new = <<>>
                 /\ Finish(q) =>
                      new = IF TargetGroup(q) = Original(q) THEN <<>>
                            ELSE Single(read[q].target,
                                   [EventsSeen(q)[read[q].target] EXCEPT !.group = Original(q)])
  BY EventsAfter
<1>2. DOMAIN events' = DOMAIN new \union DOMAIN EventsSeen(q) BY <1>1 DEF Over
<1>3. DOMAIN EventsSeen(q) \subseteq DOMAIN events \union {<<q, 1>>}
  <2>1. DOMAIN EventsSeen(q) = DOMAIN events \union DOMAIN writes[q].events
    BY <1>0, SeenIsEvents
  <2>2. DOMAIN writes[q].events \subseteq DOMAIN events \union {<<q, 1>>} BY DEF FreshIds
  <2> QED BY <2>1, <2>2
<1>4. DOMAIN <<>> = {} OBVIOUS
<1>5. CASE Rewrite(q)
  <2>1. DOMAIN new = {ask[q].event} BY <1>1, <1>5 DEF Moved, Single
  <2>2. ask[q].event \in DOMAIN events BY <1>0 DEF EventTypes, Ask
  <2> QED BY <1>2, <1>3, <2>1, <2>2
<1>6. CASE Rebuild(q)
  <2>1. pc[q] = "rebuild" BY <1>6 DEF Rebuild
  <2>2. /\ IsListing(read[q].originals)
        /\ ToSet(read[q].originals) \subseteq DOMAIN events
    BY <1>0, <2>1 DEF EventTypes, Listed
  <2>3. PICK m \in Nat : m = Len(plan[q]) BY <2>1 DEF EventsInv, Follows
  <2>4. PICK n \in Nat : n = Cardinality(Kept(q)) BY <2>2, Ranks
  <2>5. PICK matched, gone :
          /\ matched = {i \in Kept(q) : Rank(q, i) <= Len(plan[q])}
          /\ gone = Deletes(q, read[q].originals)
                      \union {read[q].originals[i] : i \in Kept(q) \ matched}
    OBVIOUS
  <2>6. new = Over(Rewritten(q, matched), Over(Inserted(q), Removed(gone)))
    BY <1>1, <1>6, <2>5 DEF Rebuilt
  <2>7. /\ DOMAIN Rewritten(q, matched) = {read[q].originals[i] : i \in matched}
        /\ DOMAIN Inserted(q) = {<<q, i>> : i \in (n + 1)..m}
        /\ DOMAIN Removed(gone) = gone
    BY <2>3, <2>4 DEF Rewritten, Inserted, Removed
  <2>8. gone \subseteq ToSet(read[q].originals)
    BY <2>2, <2>5 DEF IsListing, Kept, Deletes
  <2>9. {read[q].originals[i] : i \in matched} \subseteq ToSet(read[q].originals)
    BY <2>2, <2>5 DEF IsListing, Kept
  <2>10. {<<q, i>> : i \in (n + 1)..m} \subseteq {<<q, i>> : i \in Nat}
    <3>1. (n + 1)..m \subseteq Nat OBVIOUS
    <3> QED BY <3>1
  <2>11. DOMAIN new = DOMAIN Rewritten(q, matched) \union DOMAIN Inserted(q)
                        \union DOMAIN Removed(gone)
    BY <2>6 DEF Over
  <2> QED BY <1>2, <1>3, <2>2, <2>7, <2>8, <2>9, <2>10, <2>11
<1>7. CASE Sync(q) BY <1>1, <1>2, <1>3, <1>4, <1>7
<1>8. CASE Finish(q)
  <2>1. pc[q] = "finish" BY <1>8 DEF Finish
  <2>2. read[q].target \in DOMAIN EventsSeen(q)
    BY <1>0, <2>1, SeenIsEvents DEF EventsInv, TargetThere
  <2>3. DOMAIN new \subseteq {read[q].target} BY <1>1, <1>4, <1>8 DEF Single
  <2> QED BY <1>2, <1>3, <2>2, <2>3
<1> QED BY <1>5, <1>6, <1>7, <1>8

\* A step keeps the ids of new events new.
LEMMA StepFreshIds == SeatsInv /\ EventsInv /\ FreshIds /\ [Next]_vars => FreshIds'
<1> SUFFICES ASSUME SeatsInv, EventsInv, FreshIds, [Next]_vars PROVE FreshIds' OBVIOUS
<1>0. SeatTypes /\ EventTypes BY DEF SeatsInv, EventsInv
<1>1. CASE UNCHANGED vars BY <1>1 DEF FreshIds, vars, tables
<1>2. ASSUME NEW q \in Requests, RequestStep(q) \/ Abort(q) PROVE FreshIds'
  <2>1. Steps(q) \/ Ends(q) BY <1>2, StepsOrEnds
  <2>2. DOMAIN events \subseteq DOMAIN events' BY <1>2, EventsGrow
  <2>3. \A r \in Requests \ {q} : pc'[r] = pc[r] /\ writes'[r] = writes[r]
    BY <1>0, <1>2, OthersUntouched
  <2>4. DOMAIN events' \subseteq DOMAIN events \union {<<q, i>> : i \in Nat}
    BY <1>2, EventsKept, NewIds, StepsOrCommits
  <2>5. DOMAIN writes'[q].events \subseteq DOMAIN events \union {<<q, 1>>}
    <3>1. CASE writes'[q].events = <<>>
      <4>1. DOMAIN <<>> = {} OBVIOUS
      <4> QED BY <3>1, <4>1
    <3>2. CASE writes'[q].events = writes[q].events BY <3>2 DEF FreshIds
    <3>3. CASE GiveUp(q)
      <4>1. PICK gone : gone = IF Alone(q) THEN EventsIn(events, Original(q)) ELSE {} OBVIOUS
      <4>2. gone \subseteq DOMAIN events BY <1>0, <4>1, GoneEvents
      <4>3. writes'[q].events = Removed(gone) BY <1>0, <3>3, <4>1, GiveUpEvents
      <4> QED BY <4>2, <4>3 DEF Removed
    <3>4. CASE Create(q)
      <4>1. PICK row : writes'[q].events = Over(Single(<<q, 1>>, row), writes[q].events)
        BY <1>0, <3>4, CreateEvents
      <4>2. DOMAIN writes'[q].events = {<<q, 1>>} \union DOMAIN writes[q].events
        BY <4>1 DEF Over, Single
      <4> QED BY <4>2 DEF FreshIds
    <3> QED BY <1>0, <2>1, <3>1, <3>2, <3>3, <3>4, EventsWritten
  <2>6. pc'[q] # "updated" => \A i \in Nat : <<q, i>> \notin DOMAIN events'
    <3>1. CASE Ends(q) BY <1>0, <3>1 DEF Ends, Goto, SeatTypes
    <3>2. CASE Steps(q)
      <4>1. events' = events BY <3>2, EventsKept
      <4>2. pc[q] # "updated"
        <5>1. CASE Look(q) \/ List(q) \/ PlanClass(q) \/ PlanSlots(q)
          BY <5>1 DEF Look, List, PlanClass, PlanSlots
        <5>2. CASE Check(q) \/ Open(q) \/ Ensure(q) \/ CheckEach(q) \/ Abort(q)
          BY <5>2 DEF Check, Open, Ensure, CheckEach, Abort, InTx
        <5>3. CASE Count(q) \/ Aim(q) \/ GiveUp(q) \/ Lock(q) \/ Find(q)
          BY <5>3 DEF Count, Aim, GiveUp, Lock, Find
        <5>4. CASE Join(q) \/ OverlapQuery(q) \/ Create(q)
          BY <5>4 DEF Join, OverlapQuery, Create
        <5> QED BY <3>2, <5>1, <5>2, <5>3, <5>4 DEF Steps
      <4> QED BY <4>1, <4>2 DEF FreshIds
    <3> QED BY <2>1, <3>1, <3>2
  <2>7. ASSUME NEW r \in Requests \ {q}
        PROVE  /\ pc'[r] # "updated" => \A i \in Nat : <<r, i>> \notin DOMAIN events'
               /\ DOMAIN writes'[r].events \subseteq DOMAIN events' \union {<<r, 1>>}
    <3>1. \A i \in Nat : <<r, i>> \notin {<<q, j>> : j \in Nat} OBVIOUS
    <3> QED BY <2>2, <2>3, <2>4, <3>1 DEF FreshIds
  <2> QED BY <2>2, <2>5, <2>6, <2>7 DEF FreshIds
<1> QED BY <1>1, <1>2 DEF Next

LEMMA InitFreshIds == Init => FreshIds
<1> SUFFICES ASSUME Init PROVE FreshIds OBVIOUS
<1>1. DOMAIN events = EventIds
  <2>1. PICK s \in Scenes : events = s.events BY DEF Init
  <2>2. PICK table : table = s.events OBVIOUS
  <2>3. table \in [EventIds -> EventRow] BY <2>2
  <2> QED BY <2>1, <2>2, <2>3
<1>2. ASSUME NEW r \in Requests, NEW i \in Nat PROVE <<r, i>> \notin EventIds
  <2>1. <<r, i>> \in Requests \X Nat OBVIOUS
  <2> QED BY <2>1
<1>3. \A r \in Requests : DOMAIN writes[r].events = {}
  <2>1. DOMAIN <<>> = {} OBVIOUS
  <2> QED BY <2>1 DEF Init, NoRows
<1> QED BY <1>1, <1>2, <1>3 DEF FreshIds
-----------------------------------------------------------------------------
(***************************************************************************)
(* Rebuilt bookings                                                        *)
(***************************************************************************)

\* Every number up to how many events are kept is the rank of one of them.
LEMMA RanksReachAll ==
    ASSUME NEW r \in Requests, IsListing(read[r].originals),
           NEW k \in 1..Cardinality(Kept(r))
    PROVE  \E i \in Kept(r) : Rank(r, i) = k
<1>1. PICK n \in Nat : n = Cardinality(Kept(r)) BY Ranks
<1>2. PICK kept : kept = Kept(r) OBVIOUS
<1>3. PICK rank : rank = [i \in kept |-> Rank(r, i)] OBVIOUS
<1>4. /\ IsFiniteSet(1..n) /\ Cardinality(1..n) = n
  <2>1. /\ IsFiniteSet(1..n)
        /\ Cardinality(1..n) = IF 1 > n THEN 0 ELSE n - 1 + 1
    BY FS_Interval
  <2> QED BY <2>1
<1>5. rank \in Injection(kept, 1..n)
  <2>1. \A i \in kept : rank[i] \in 1..n BY <1>1, <1>2, <1>3, Ranks
  <2>2. \A i, j \in kept : rank[i] = rank[j] => i = j BY <1>2, <1>3, Ranks
  <2>3. rank \in [kept -> 1..n] BY <1>3, <2>1
  <2>4. DOMAIN rank = kept BY <1>3
  <2> QED BY <2>2, <2>3, <2>4 DEF Injection, IsInjective
<1>6. rank \in Surjection(kept, 1..n) BY <1>1, <1>2, <1>4, <1>5, FS_Injection
<1>7. \E i \in kept : rank[i] = k BY <1>1, <1>6 DEF Surjection
<1> QED BY <1>2, <1>3, <1>7

\* Each segment is taken, by an event that is live if the originals are.
LEMMA SegmentsTaken ==
    ASSUME EventsInv, FreshIds, NEW r \in Requests, pc[r] = "rebuild",
           \A e \in ToSet(read[r].originals) : events[e].live,
           NEW k \in DOMAIN plan[r]
    PROVE  \E e \in DOMAIN Rebuilt(r) :
             /\ Takes(r, e, k) /\ Rebuilt(r)[e].live
             /\ Rebuilt(r)[e].slot = plan[r][k] /\ Rebuilt(r)[e].group = Original(r)
<1>0. /\ EventTypes /\ IsListing(read[r].originals)
      /\ ToSet(read[r].originals) \subseteq DOMAIN events
  BY DEF EventsInv, EventTypes, Listed
<1>1. PICK m \in Nat : m = Len(plan[r]) /\ DOMAIN plan[r] = 1..m
  BY DEF EventsInv, Follows
<1>2. PICK n \in Nat : n = Cardinality(Kept(r)) BY <1>0, Ranks
<1>3. PICK matched, gone :
        /\ matched = {i \in Kept(r) : Rank(r, i) <= Len(plan[r])}
        /\ gone = Deletes(r, read[r].originals)
                    \union {read[r].originals[i] : i \in Kept(r) \ matched}
  OBVIOUS
<1>4. PICK rewritten, inserted, removed :
        rewritten = Rewritten(r, matched) /\ inserted = Inserted(r) /\ removed = Removed(gone)
  OBVIOUS
<1>5. Rebuilt(r) = Over(rewritten, Over(inserted, removed))
  BY <1>3, <1>4 DEF Rebuilt
<1>6. /\ DOMAIN rewritten = {read[r].originals[i] : i \in matched}
      /\ \A i \in matched :
           /\ rewritten[read[r].originals[i]].slot = plan[r][Rank(r, i)]
           /\ rewritten[read[r].originals[i]].group = Original(r)
           /\ rewritten[read[r].originals[i]].live = events[read[r].originals[i]].live
  <2>1. matched \in SUBSET Kept(r) BY <1>3
  <2>2. rewritten = Rewritten(r, matched) BY <1>4
  <2>3. /\ DOMAIN Rewritten(r, matched) = {read[r].originals[i] : i \in matched}
        /\ \A i \in matched :
             LET row == Rewritten(r, matched)[read[r].originals[i]]
             IN  /\ row.slot = plan[r][Rank(r, i)] /\ row.group = Original(r)
                 /\ row.live = events[read[r].originals[i]].live
    BY <1>0, <2>1, RewrittenRows
  <2> HIDE <1>3
  <2> QED BY <2>2, <2>3
<1>7. CASE k <= n
  <2>1. k \in 1..n BY <1>1, <1>7
  <2>2. PICK i \in Kept(r) : Rank(r, i) = k BY <1>0, <1>2, <2>1, RanksReachAll
  <2>3. i \in matched BY <1>1, <1>3, <2>2
  <2>4. PICK e : e = read[r].originals[i] OBVIOUS
  <2>5. e \in DOMAIN rewritten BY <1>6, <2>3, <2>4
  <2>6. e \in DOMAIN Rebuilt(r) /\ Rebuilt(r)[e] = rewritten[e] BY <1>5, <2>5 DEF Over
  <2>7. e \in ToSet(read[r].originals) BY <1>0, <2>4 DEF IsListing, Kept
  <2>8. rewritten[e].live BY <1>6, <2>3, <2>4, <2>7
  <2>9. rewritten[e].slot = plan[r][k] /\ rewritten[e].group = Original(r)
    BY <1>6, <2>2, <2>3, <2>4
  <2>10. Takes(r, e, k) BY <2>2, <2>4 DEF Takes
  <2> QED BY <2>6, <2>8, <2>9, <2>10
<1>8. CASE k > n
  <2>1. k \in (n + 1)..m BY <1>1, <1>8
  <2>2. PICK e, seg : e = <<r, k>> /\ seg = Segment(r, k) OBVIOUS
  <2>3. e \in DOMAIN inserted /\ inserted[e] = seg
    <3>1. inserted = Inserted(r) BY <1>4
    <3>2. DOMAIN Inserted(r) = {<<r, j>> : j \in (Cardinality(Kept(r)) + 1)..Len(plan[r])}
          /\ \A j \in (Cardinality(Kept(r)) + 1)..Len(plan[r]) :
               Inserted(r)[<<r, j>>] = Segment(r, j)
      BY <1>0, <1>1, InsertedRows
    <3>3. k \in (Cardinality(Kept(r)) + 1)..Len(plan[r]) BY <1>1, <1>2, <2>1
    <3> QED BY <2>2, <3>1, <3>2, <3>3
  <2>4. e \notin DOMAIN rewritten
    <3>1. k \in Nat BY <1>1
    <3>2. e \notin DOMAIN events BY <2>2, <3>1 DEF FreshIds
    <3>3. DOMAIN rewritten \subseteq ToSet(read[r].originals)
      BY <1>0, <1>3, <1>6 DEF IsListing, Kept
    <3> QED BY <1>0, <3>2, <3>3
  <2>5. e \in DOMAIN Rebuilt(r) /\ Rebuilt(r)[e] = seg BY <1>5, <2>3, <2>4 DEF Over
  <2>6. seg.live /\ seg.slot = plan[r][k] /\ seg.group = Original(r) BY <2>2 DEF Segment
  <2>7. Takes(r, e, k) BY <1>2, <1>8, <2>2 DEF Takes
  <2> QED BY <2>5, <2>6, <2>7
<1>9. k <= n \/ k > n BY <1>1
<1> QED BY <1>7, <1>8, <1>9

\* An event takes one segment only.
LEMMA TakenOnce ==
    ASSUME EventsInv, FreshIds, NEW r \in Requests, pc[r] = "rebuild",
           NEW e, NEW k \in DOMAIN plan[r], NEW l \in DOMAIN plan[r],
           Takes(r, e, k), Takes(r, e, l)
    PROVE  k = l
<1>0. /\ IsListing(read[r].originals)
      /\ ToSet(read[r].originals) \subseteq DOMAIN events
  BY DEF EventsInv, EventTypes, Listed
<1>1. k \in Nat /\ l \in Nat BY DEF EventsInv, Follows
<1>2. <<r, k>> \notin DOMAIN events /\ <<r, l>> \notin DOMAIN events
  BY <1>1 DEF FreshIds
<1>3. \A i \in Kept(r) : i \in 1..Len(read[r].originals) BY DEF Kept
<1>4. \A i \in Kept(r) : read[r].originals[i] \in DOMAIN events
  BY <1>0, <1>3 DEF IsListing
<1>5. \A i, j \in Kept(r) : read[r].originals[i] = read[r].originals[j] => i = j
  BY <1>0, <1>3 DEF IsListing
<1>6. CASE e = <<r, k>>
  <2>1. e = <<r, l>> BY <1>2, <1>4, <1>6 DEF Takes
  <2> QED BY <1>6, <2>1
<1>7. CASE e = <<r, l>>
  <2>1. e = <<r, k>> BY <1>2, <1>4, <1>7 DEF Takes
  <2> QED BY <1>7, <2>1
<1>8. CASE e # <<r, k>> /\ e # <<r, l>>
  <2>1. PICK i \in Kept(r) : read[r].originals[i] = e /\ Rank(r, i) = k BY <1>8 DEF Takes
  <2>2. PICK j \in Kept(r) : read[r].originals[j] = e /\ Rank(r, j) = l BY <1>8 DEF Takes
  <2> QED BY <1>5, <2>1, <2>2
<1> QED BY <1>6, <1>7, <1>8
\* What can be numbered off has that many members.
LEMMA Numbered ==
    ASSUME NEW S, NEW m \in Nat, NEW g, g \in [1..m -> S],
           \A k, l \in 1..m : g[k] = g[l] => k = l,
           \A e \in S : \E k \in 1..m : g[k] = e
    PROVE  Cardinality(S) = m
<1>1. DOMAIN g = 1..m OBVIOUS
<1>2. g \in Injection(1..m, S) BY <1>1 DEF Injection, IsInjective
<1>3. g \in Surjection(1..m, S) BY DEF Surjection
<1>4. ExistsBijection(1..m, S) BY <1>2, <1>3 DEF ExistsBijection, Bijection
<1>5. /\ IsFiniteSet(1..m)
      /\ Cardinality(1..m) = IF 1 > m THEN 0 ELSE m - 1 + 1
  BY FS_Interval
<1>6. Cardinality(1..m) = m BY <1>5
<1>7. Cardinality(S) = Cardinality(1..m) BY <1>4, <1>5, FS_Bijection
<1> QED BY <1>6, <1>7

\* rebuildBooking: for any requests, bookings and plans, a rebuilt booking whose
\* events are still those that were listed consists of exactly the chosen
\* segments.
THEOREM RebuildsAreExact == Spec => RebuiltExactly
<1>1. ASSUME SeatsInv, EventsInv, FreshIds, [Next]_vars, NEW r \in Requests, Commits(r),
             pc[r] = "rebuild", LiveIn(events, Original(r)) = ToSet(read[r].originals)
      PROVE  LET now == LiveIn(events', Original(r))
             IN  /\ {events'[e].slot : e \in now} = ToSet(plan[r])
                 /\ Cardinality(now) = Len(plan[r])
  <2>0. /\ EventTypes /\ OwnEvents(pc[r], writes[r], plan[r], r)
        /\ IsListing(read[r].originals)
    BY <1>1 DEF EventsInv, EventTypes, Listed
  <2>1. PICK m \in Nat : m = Len(plan[r]) /\ DOMAIN plan[r] = 1..m
    BY <1>1 DEF EventsInv, Follows
  <2>2. Rebuild(r)
    <3>1. Rewrite(r) \/ Rebuild(r) \/ Sync(r) \/ Finish(r)
      BY <1>1, CommitWays DEF Next, vars, Commits
    <3> QED BY <1>1, <3>1 DEF Rewrite, Sync, Finish
  <2>3. PICK new : new = Rebuilt(r) /\ events' = Over(new, EventsSeen(r))
    BY <1>1, <2>2, EventsAfter
  <2>4. DOMAIN writes[r].events = {} BY <1>1, <2>0 DEF OwnEvents, Moving
  <2>5. /\ DOMAIN events' = DOMAIN new \union DOMAIN events
        /\ \A x \in DOMAIN events' :
             events'[x] = IF x \in DOMAIN new THEN new[x] ELSE events[x]
    BY <2>3, <2>4 DEF Over, EventsSeen
  <2>6. PICK g : g = Original(r) OBVIOUS
  <2>7. PICK now : now = LiveIn(events', g) OBVIOUS
  <2>8. \A e \in now : e \in DOMAIN events' /\ events'[e].group = g /\ events'[e].live
    BY <2>7 DEF LiveIn, EventsIn
  <2>9. ASSUME NEW e \in now
        PROVE  \E k \in 1..m : Takes(r, e, k) /\ events'[e].slot = plan[r][k]
    <3>1. e \in DOMAIN new
      <4> SUFFICES ASSUME e \notin DOMAIN new PROVE FALSE OBVIOUS
      <4>1. e \in DOMAIN events /\ events[e].group = g /\ events[e].live BY <2>5, <2>8
      <4>2. e \in LiveIn(events, g) BY <4>1 DEF LiveIn, EventsIn
      <4> QED BY <1>1, <2>3, <2>6, <4>2, RebuiltRows
    <3>2. events'[e] = new[e] BY <2>5, <2>8, <3>1
    <3> QED BY <1>1, <2>1, <2>3, <2>8, <3>1, <3>2, RebuiltRows
  <2>10. ASSUME NEW k \in 1..m
         PROVE  \E e \in now : Takes(r, e, k) /\ events'[e].slot = plan[r][k]
    <3>1. \A e \in ToSet(read[r].originals) : events[e].live BY <1>1 DEF LiveIn
    <3>2. PICK e \in DOMAIN new : /\ Takes(r, e, k) /\ new[e].live
                                  /\ new[e].slot = plan[r][k] /\ new[e].group = g
      BY <1>1, <2>1, <2>3, <2>6, <3>1, SegmentsTaken
    <3>3. e \in DOMAIN events' /\ events'[e] = new[e] BY <2>5, <3>2
    <3>4. e \in now BY <2>7, <3>2, <3>3 DEF LiveIn, EventsIn
    <3> QED BY <3>2, <3>3, <3>4
  <2>11. {events'[e].slot : e \in now} = ToSet(plan[r])
    <3>1. ToSet(plan[r]) = {plan[r][k] : k \in 1..m} BY <2>1 DEF ToSet
    <3> QED BY <2>9, <2>10, <3>1
  <2>12. Cardinality(now) = m
    <3>1. PICK take : take = [k \in 1..m |-> CHOOSE e \in now : Takes(r, e, k)] OBVIOUS
    <3>2. \A k \in 1..m : take[k] \in now /\ Takes(r, take[k], k) BY <2>10, <3>1
    <3>3. take \in [1..m -> now] BY <3>1, <3>2
    <3>4. \A k, l \in 1..m : take[k] = take[l] => k = l
      BY <1>1, <2>1, <3>2, TakenOnce
    <3>5. \A e \in now : \E k \in 1..m : take[k] = e
      <4> SUFFICES ASSUME NEW e \in now PROVE \E k \in 1..m : take[k] = e OBVIOUS
      <4>1. PICK k \in 1..m : Takes(r, e, k) BY <2>9
      <4>2. take[k] = e BY <2>0, <3>2, <4>1, TakesOne
      <4> QED BY <4>2
    <3> QED BY <3>3, <3>4, <3>5, Numbered
  <2> QED BY <2>1, <2>6, <2>7, <2>11, <2>12
<1>2. SeatsInv /\ EventsInv /\ FreshIds /\ [Next]_vars =>
        [\A r \in Requests :
          (/\ Commits(r) /\ pc[r] = "rebuild"
           /\ LiveIn(events, Original(r)) = ToSet(read[r].originals))
          => LET now == LiveIn(events', Original(r))
             IN  /\ {events'[e].slot : e \in now} = ToSet(plan[r])
                 /\ Cardinality(now) = Len(plan[r])]_vars
  BY <1>1
<1>3. Init => FreshIds BY InitFreshIds
<1>4. SeatsInv /\ EventsInv /\ FreshIds /\ [Next]_vars => FreshIds' BY StepFreshIds
<1> QED BY <1>2, <1>3, <1>4, ChecksAreKept, PTL DEF Spec, RebuiltExactly
=============================================================================
