------------------------ MODULE BookingGuardsProofs ------------------------
(***************************************************************************)
(* Proofs about BookingGuards: for any number of requests, bookings and    *)
(* configurations; and, in the second half, about RoundRobin (Turns).      *)
(*                                                                         *)
(* An addition keeps what it counted, and what was there then, until it is *)
(* made.  Hence a booking of now that had an event in the span at the      *)
(* count was counted, if that event lay inside the dates of its group; and *)
(* one that was counted has an event in the span, if the dates of its      *)
(* group are those of its event.                                           *)
(***************************************************************************)
EXTENDS BookingGuards, FairShares, FiniteSetTheorems, TLAPS

USE GuardsAssumption

-----------------------------------------------------------------------------
Labels ==
    {"idle", "fetch", "store", "client", "day", "concurrent", "act",
     "limited", "refused", "done"}

Rows ==
    [window : Time, events : SUBSET Time, dead : SUBSET Time, class : BOOLEAN,
     seat : {"active", "cancelled"}, group : {"active", "cancelled"}]

\* Finitely many bookings, named after requests
IsBookings(rows) ==
    /\ rows \in [DOMAIN rows -> Rows]
    /\ DOMAIN rows \subseteq Requests
    /\ IsFiniteSet(DOMAIN rows)

IsCount(c) ==
    /\ c \in [day : SUBSET Requests, concurrent : SUBSET Requests]
    /\ IsFiniteSet(c.day) /\ IsFiniteSet(c.concurrent)

\* What was there at each count
IsPast(p) ==
    /\ p = [day |-> p.day, concurrent |-> p.concurrent]
    /\ IsBookings(p.day) /\ IsBookings(p.concurrent)

TypeInv ==
    /\ config \in Configs
    /\ brief \in Configs \union {NoBrief}
    /\ IsBookings(bookings)
    /\ ask \in [Requests -> Asks]
    /\ pc \in [Requests -> Labels]
    /\ ctx \in [Requests -> Configs \union {NoBrief}]
    /\ counted = [r \in Requests |-> counted[r]]
    /\ \A r \in Requests : IsCount(counted[r])
    /\ before = [r \in Requests |-> before[r]]
    /\ \A r \in Requests : IsPast(before[r])

-----------------------------------------------------------------------------
\* The groups that the count of a limit finds among bookings
Found(rows, limit, t) ==
    {b \in DOMAIN rows :
        rows[b].group = "active" /\ Overlap(rows[b].window, Span(limit, t))}

\* Between its counts and its step, an addition knows what was there at each.
CountInv ==
    \A r \in Requests :
        /\ pc[r] \in {"day", "concurrent"} => ask[r].kind = "add"
        /\ pc[r] \in {"concurrent", "act"} /\ ask[r].kind = "add" =>
            counted[r].day = Found(before[r].day, "day", ask[r].time)
        /\ pc[r] = "act" /\ ask[r].kind = "add" =>
            /\ counted[r].concurrent
                 = Found(before[r].concurrent, "concurrent", ask[r].time)
            /\ \A limit \in {"day", "concurrent"} :
                 ~Reached(Cardinality(counted[r][limit]), ctx[r], limit)

IInv == TypeInv /\ CountInv
-----------------------------------------------------------------------------
(***************************************************************************)
(* Types                                                                   *)
(***************************************************************************)

\* What an addition or a move asks for is a time.
LEMMA AskTypes ==
    ASSUME TypeInv, NEW r \in Requests
    PROVE  /\ ask[r].kind \in {"add", "update", "other", "cancel"}
           /\ ask[r].kind # "cancel" => ask[r].time \in Time
           /\ ask[r].kind \in {"add", "update"} => ask[r].class \in BOOLEAN
<1>1. ask[r] \in Ask BY DEF TypeInv
<1> QED BY <1>1 DEF Ask

\* A subset of finitely many bookings is finite.
LEMMA FoundIsFinite ==
    ASSUME NEW rows, IsBookings(rows), NEW limit, NEW t
    PROVE  /\ Found(rows, limit, t) \subseteq Requests
           /\ IsFiniteSet(Found(rows, limit, t))
<1>1. Found(rows, limit, t) \subseteq DOMAIN rows BY DEF Found
<1> QED BY <1>1, FS_Subset DEF IsBookings

\* A new booking is one, and so is a seat in a class.
LEMMA RowType ==
    ASSUME NEW t \in Time
    PROVE  /\ \A class \in BOOLEAN : Row(t, class) \in Rows
           /\ \A g \in Classes : SeatIn(g) \in Rows
<1>1. \A class \in BOOLEAN : Row(t, class) \in Rows BY DEF Row, Rows
<1>2. \A g \in Classes : SeatIn(g) \in Rows BY DEF SeatIn, Rows, Group
<1> QED BY <1>1, <1>2

\* A booking stays one when events are deleted, move away or are rewritten.
LEMMA ChangedRow ==
    ASSUME NEW g \in Rows, NEW t \in Time
    PROVE  /\ \A alone \in BOOLEAN : Left(g, alone) \in Rows
           /\ Taken(g, t) \in Rows
           /\ Rewritten(g, t) \subseteq Rows
           /\ [g EXCEPT !.events = @ \union {t}] \in Rows
           /\ [g EXCEPT !.dead = @ \union {t}] \in Rows
<1>1. \A alone \in BOOLEAN : Left(g, alone) \in Rows BY DEF Left, Slots, Rows
<1>2. Taken(g, t) \in Rows BY DEF Taken, Rows
<1>3. Rewritten(g, t) \subseteq Rows
  <2>1. ASSUME NEW gone \in SUBSET g.events
        PROVE  [g EXCEPT !.events = {t}, !.dead = @ \union gone] \in Rows
    BY DEF Rows
  <2>2. ASSUME NEW live \in {g.events, {t}}, NEW e \in g.dead
        PROVE  [g EXCEPT !.events = live, !.dead = (@ \ {e}) \union {t}] \in Rows
    BY DEF Rows
  <2>3. {[g EXCEPT !.events = {t}, !.dead = @ \union gone] : gone \in SUBSET g.events}
          \subseteq Rows
    BY <2>1
  <2>4. ASSUME NEW e \in g.dead
        PROVE  {[g EXCEPT !.events = live, !.dead = (@ \ {e}) \union {t}] :
                   live \in {g.events, {t}}} \subseteq Rows
    BY <2>2
  <2>5. UNION {{[g EXCEPT !.events = live, !.dead = (@ \ {e}) \union {t}] :
                   live \in {g.events, {t}}} : e \in g.dead} \subseteq Rows
    BY <2>4
  <2> QED BY <2>3, <2>5 DEF Rewritten
<1>4. [g EXCEPT !.events = @ \union {t}] \in Rows BY DEF Rows
<1>5. [g EXCEPT !.dead = @ \union {t}] \in Rows BY DEF Rows
<1> QED BY <1>1, <1>2, <1>3, <1>4, <1>5

\* The least and the greatest of one or two numbers
LEMMA LeastOfPair ==
    ASSUME NEW a \in Nat, NEW S, a \in S, NEW T \in SUBSET Nat, S = T \union {a},
           \A x, y \in T : x = y
    PROVE  Min(S) \in Nat /\ Max(S) \in Nat
<1>1. CASE T = {}
  BY <1>1 DEF Min, Max
<1>2. CASE T # {}
  <2>1. PICK x : x \in T BY <1>2
  <2>2. S = {a, x} BY <2>1
  <2>3. x \in Nat BY <2>1
  <2>4. \E m \in S : \A y \in S : m <= y
    BY <2>2, <2>3
  <2>5. \E m \in S : \A y \in S : m >= y
    BY <2>2, <2>3
  <2> QED BY <2>2, <2>3, <2>4, <2>5 DEF Min, Max
<1> QED BY <1>1, <1>2

\* An event created in a group of at most one
LEMMA CreatedType ==
    ASSUME NEW g \in Rows, NEW t \in Time, \A e, f \in g.events : e = f
    PROVE  Created(g, t) \in Rows
<1> DEFINE events == g.events \union {t}
           starts == {e.start : e \in events}
           ends == {e.end : e \in events}
<1>1. events \subseteq Time BY DEF Rows
<1>2. Min(starts) \in Nat
  <2>1. starts = {e.start : e \in g.events} \union {t.start} OBVIOUS
  <2>2. {e.start : e \in g.events} \subseteq Nat BY DEF Rows, Time
  <2>3. t.start \in Nat BY DEF Time
  <2>4. \A x, y \in {e.start : e \in g.events} : x = y OBVIOUS
  <2>5. t.start \in starts OBVIOUS
  <2> HIDE DEF starts
  <2> QED BY <2>1, <2>2, <2>3, <2>4, <2>5, LeastOfPair
<1>3. Max(ends) \in Nat
  <2>1. ends = {e.end : e \in g.events} \union {t.end} OBVIOUS
  <2>2. {e.end : e \in g.events} \subseteq Nat BY DEF Rows, Time
  <2>3. t.end \in Nat BY DEF Time
  <2>4. \A x, y \in {e.end : e \in g.events} : x = y OBVIOUS
  <2>5. t.end \in ends OBVIOUS
  <2> HIDE DEF ends
  <2> QED BY <2>1, <2>2, <2>3, <2>4, <2>5, LeastOfPair
<1>4. Created(g, t) = [g EXCEPT !.events = events,
                                !.window = [start |-> Min(starts), end |-> Max(ends)]]
  BY DEF Created
<1> HIDE DEF events, starts, ends
<1>5. [start |-> Min(starts), end |-> Max(ends)] \in Time BY <1>2, <1>3 DEF Time
<1> QED BY <1>1, <1>4, <1>5 DEF Rows

\* One booking more, and one less
LEMMA WithType ==
    ASSUME NEW rows, IsBookings(rows), NEW b \in Requests, NEW row \in Rows
    PROVE  IsBookings(With(rows, b, row))
<1>1. PICK new : new = With(rows, b, row) OBVIOUS
<1>2. new = [x \in DOMAIN rows \union {b} |-> IF x = b THEN row ELSE rows[x]]
  BY <1>1 DEF With
<1>3. DOMAIN new = DOMAIN rows \union {b} BY <1>2
<1>4. IsFiniteSet(DOMAIN rows \union {b}) BY FS_AddElement DEF IsBookings
<1>5. new \in [DOMAIN rows \union {b} -> Rows] BY <1>2 DEF IsBookings
<1> QED BY <1>1, <1>3, <1>4, <1>5 DEF IsBookings

LEMMA WithoutType ==
    ASSUME IsBookings(bookings), NEW b
    PROVE  IsBookings(Without(b))
<1>1. PICK new : new = Without(b) OBVIOUS
<1>2. new = [x \in DOMAIN bookings \ {b} |-> bookings[x]] BY <1>1 DEF Without
<1>3. DOMAIN new = DOMAIN bookings \ {b} BY <1>2
<1>4. IsFiniteSet(DOMAIN bookings \ {b})
  <2>1. DOMAIN bookings \ {b} \subseteq DOMAIN bookings OBVIOUS
  <2> QED BY <2>1, FS_Subset DEF IsBookings
<1>5. new \in [DOMAIN bookings \ {b} -> Rows] BY <1>2 DEF IsBookings
<1> QED BY <1>1, <1>3, <1>4, <1>5 DEF IsBookings

\* A booking changed
LEMMA ChangedType ==
    ASSUME IsBookings(bookings), NEW b \in DOMAIN bookings, NEW row \in Rows
    PROVE  IsBookings([bookings EXCEPT ![b] = row])
<1>1. PICK new : new = [bookings EXCEPT ![b] = row] OBVIOUS
<1>2. DOMAIN new = DOMAIN bookings BY <1>1
<1>3. new \in [DOMAIN bookings -> Rows] BY <1>1 DEF IsBookings
<1> QED BY <1>1, <1>2, <1>3 DEF IsBookings

\* At the start there are no bookings, and nothing is counted.
LEMMA InitTypes == Init => TypeInv
<1> SUFFICES ASSUME Init PROVE TypeInv OBVIOUS
<1>1. IsBookings(bookings)
  <2>1. DOMAIN bookings = {} BY DEF Init
  <2>2. bookings \in [{} -> Rows] BY DEF Init
  <2> QED BY <2>1, <2>2, FS_EmptySet DEF IsBookings
<1>2. \A r \in Requests : IsCount(counted[r])
  BY FS_EmptySet DEF Init, IsCount
<1>3. \A r \in Requests : IsPast(before[r]) BY <1>1 DEF Init, IsPast
<1>4. ask \in [Requests -> Asks] BY DEF Init
<1> QED BY <1>1, <1>2, <1>3, <1>4 DEF Init, TypeInv, Labels

\* A client's booking moved to a class
LEMMA MovedType ==
    ASSUME TypeInv, NEW r \in Requests, MoveToClass(r)
    PROVE  IsBookings(bookings')
<1>0. IsBookings(bookings) BY DEF TypeInv
<1>1. PICK b \in DOMAIN bookings, alone \in BOOLEAN :
        LET t == ask[r].time
            seat == [bookings[b] EXCEPT !.seat = "active", !.class = TRUE]
        IN  /\ OneEvent(bookings[b])
            /\ \/ bookings' = [bookings EXCEPT ![b] = Created(Left(seat, alone), t)]
               \/ /\ t \in Slots(bookings[b])
                  /\ bookings' = [bookings EXCEPT ![b] = Left(seat, alone)]
               \/ \E g \in Classes :
                    /\ t \in Slots(g)
                    /\ bookings' = With(Without(b), r, Taken(SeatIn(g), t))
               \/ \E c \in DOMAIN bookings \ {b} :
                    /\ t \in Slots(bookings[c])
                    /\ bookings' = With(Without(b), c, Taken(bookings[c], t))
  BY DEF MoveToClass
<1>2. PICK t : t = ask[r].time OBVIOUS
<1>3. PICK seat : seat = [bookings[b] EXCEPT !.seat = "active", !.class = TRUE] OBVIOUS
<1>4. t \in Time BY <1>2, AskTypes DEF MoveToClass
<1>5. bookings[b] \in Rows BY <1>0 DEF IsBookings
<1>6. seat \in Rows /\ seat.events = bookings[b].events BY <1>3, <1>5 DEF Rows
<1>7. Left(seat, alone) \in Rows BY <1>4, <1>6, ChangedRow
<1>8. \A e, f \in Left(seat, alone).events : e = f
  <2>1. \A e, f \in seat.events : e = f BY <1>1, <1>6 DEF OneEvent
  <2> QED BY <1>6, <2>1 DEF Left, Rows
<1>9. IsBookings(Without(b)) BY <1>0, WithoutType
<1>10. CASE bookings' = [bookings EXCEPT ![b] = Created(Left(seat, alone), t)]
  <2>1. Created(Left(seat, alone), t) \in Rows BY <1>4, <1>7, <1>8, CreatedType
  <2> QED BY <1>0, <1>10, <2>1, ChangedType
<1>11. CASE bookings' = [bookings EXCEPT ![b] = Left(seat, alone)]
  BY <1>0, <1>7, <1>11, ChangedType
<1>12. ASSUME NEW g \in Classes, bookings' = With(Without(b), r, Taken(SeatIn(g), t))
       PROVE  IsBookings(bookings')
  <2>1. Taken(SeatIn(g), t) \in Rows BY <1>4, RowType, ChangedRow
  <2> QED BY <1>9, <1>12, <2>1, WithType
<1>13. ASSUME NEW c \in DOMAIN bookings \ {b},
              bookings' = With(Without(b), c, Taken(bookings[c], t))
       PROVE  IsBookings(bookings')
  <2>1. bookings[c] \in Rows /\ c \in Requests BY <1>0 DEF IsBookings
  <2>2. Taken(bookings[c], t) \in Rows BY <1>4, <2>1, ChangedRow
  <2> QED BY <1>9, <1>13, <2>1, <2>2, WithType
<1> QED BY <1>1, <1>2, <1>3, <1>10, <1>11, <1>12, <1>13

\* What another client does leaves bookings.
LEMMA OtherType ==
    ASSUME TypeInv, NEW r \in Requests, Other(r)
    PROVE  IsBookings(bookings')
<1>0. IsBookings(bookings) BY DEF TypeInv
<1>1. PICK b \in DOMAIN bookings :
        LET g == bookings[b]
            t == ask[r].time
        IN  \/ /\ OneEvent(g)
               /\ \E row \in {[Created(g, t) EXCEPT !.class = TRUE],
                              [g EXCEPT !.events = @ \union {t}],
                              [g EXCEPT !.dead = @ \union {t}]} :
                      bookings' = [bookings EXCEPT ![b] = row]
            \/ /\ t \in Slots(g)
               /\ bookings' = [bookings EXCEPT ![b] = Taken(g, t)]
            \/ /\ Slots(g) # {}
               /\ \E row \in Rewritten(g, t), class \in BOOLEAN :
                      bookings' = [bookings EXCEPT ![b] = [row EXCEPT !.class = class]]
            \/ bookings' = [bookings EXCEPT ![b].group = "cancelled"]
            \/ bookings' = Without(b)
  BY DEF Other
<1>2. PICK t : t = ask[r].time OBVIOUS
<1>3. PICK g : g = bookings[b] OBVIOUS
<1>4. t \in Time BY <1>2, AskTypes DEF Other
<1>5. g \in Rows BY <1>0, <1>3 DEF IsBookings
<1>6. CASE OneEvent(g) /\ bookings' = [bookings EXCEPT ![b] = [Created(g, t) EXCEPT !.class = TRUE]]
  <2>1. Created(g, t) \in Rows BY <1>4, <1>5, <1>6, CreatedType DEF OneEvent
  <2>2. [Created(g, t) EXCEPT !.class = TRUE] \in Rows BY <2>1 DEF Rows
  <2> QED BY <1>0, <1>6, <2>2, ChangedType
<1>7. CASE bookings' = [bookings EXCEPT ![b] = [g EXCEPT !.events = @ \union {t}]]
  BY <1>0, <1>4, <1>5, <1>7, ChangedRow, ChangedType
<1>8. CASE bookings' = [bookings EXCEPT ![b] = [g EXCEPT !.dead = @ \union {t}]]
  BY <1>0, <1>4, <1>5, <1>8, ChangedRow, ChangedType
<1>9. CASE bookings' = [bookings EXCEPT ![b] = Taken(g, t)]
  BY <1>0, <1>4, <1>5, <1>9, ChangedRow, ChangedType
<1>10. ASSUME NEW row \in Rewritten(g, t), NEW class \in BOOLEAN,
              bookings' = [bookings EXCEPT ![b] = [row EXCEPT !.class = class]]
       PROVE  IsBookings(bookings')
  <2>1. row \in Rows BY <1>4, <1>5, ChangedRow
  <2>2. [row EXCEPT !.class = class] \in Rows BY <2>1 DEF Rows
  <2> QED BY <1>0, <1>10, <2>2, ChangedType
<1>11. CASE bookings' = [bookings EXCEPT ![b].group = "cancelled"]
  <2>1. [g EXCEPT !.group = "cancelled"] \in Rows BY <1>5 DEF Rows
  <2>2. bookings' = [bookings EXCEPT ![b] = [g EXCEPT !.group = "cancelled"]]
    BY <1>3, <1>11
  <2> QED BY <1>0, <2>1, <2>2, ChangedType
<1>12. CASE bookings' = Without(b) BY <1>0, <1>12, WithoutType
<1> QED BY <1>1, <1>2, <1>3, <1>6, <1>7, <1>8, <1>9, <1>10, <1>11, <1>12

\* The bookings stay bookings.
LEMMA BookingsType ==
    ASSUME TypeInv, [Next]_vars
    PROVE  IsBookings(bookings')
<1>0. IsBookings(bookings) BY DEF TypeInv
<1>1. ASSUME NEW r \in Requests, Add(r) PROVE IsBookings(bookings')
  <2>1. ask[r].time \in Time /\ ask[r].class \in BOOLEAN BY <1>1, AskTypes DEF Add
  <2>2. CASE bookings' = With(bookings, r, Row(ask[r].time, ask[r].class))
    BY <1>0, <2>1, <2>2, RowType, WithType
  <2>3. ASSUME NEW g \in Classes, bookings' = With(bookings, r, SeatIn(g))
        PROVE  IsBookings(bookings')
    BY <1>0, <2>1, <2>3, RowType, WithType
  <2>4. CASE UNCHANGED bookings BY <1>0, <2>4
  <2> QED BY <1>1, <2>2, <2>3, <2>4 DEF Add
<1>2. ASSUME NEW r \in Requests, MoveInPlace(r) PROVE IsBookings(bookings')
  <2>1. PICK b \in DOMAIN bookings : \E row \in Rewritten(bookings[b], ask[r].time) :
          bookings' = [bookings EXCEPT ![b] = [row EXCEPT !.class = ask[r].class]]
    BY <1>2 DEF MoveInPlace
  <2>2. PICK row \in Rewritten(bookings[b], ask[r].time) :
          bookings' = [bookings EXCEPT ![b] = [row EXCEPT !.class = ask[r].class]]
    BY <2>1
  <2>3. ask[r].time \in Time /\ ask[r].class \in BOOLEAN BY <1>2, AskTypes DEF MoveInPlace
  <2>4. bookings[b] \in Rows BY <1>0 DEF IsBookings
  <2>5. row \in Rows BY <2>2, <2>3, <2>4, ChangedRow
  <2>6. [row EXCEPT !.class = ask[r].class] \in Rows BY <2>3, <2>5 DEF Rows
  <2> QED BY <1>0, <2>2, <2>6, ChangedType
<1>3. ASSUME NEW r \in Requests, Cancel(r) PROVE IsBookings(bookings')
  <2>1. PICK b \in DOMAIN bookings :
          \/ bookings' = [bookings EXCEPT ![b].seat = "cancelled"]
          \/ bookings' = Without(b)
          \/ bookings' = [bookings EXCEPT ![b].seat = "cancelled", ![b].group = "cancelled"]
    BY <1>3 DEF Cancel
  <2>2. PICK g : g = bookings[b] OBVIOUS
  <2>3. g \in Rows BY <1>0, <2>2 DEF IsBookings
  <2>4. CASE bookings' = [bookings EXCEPT ![b].seat = "cancelled"]
    <3>1. [g EXCEPT !.seat = "cancelled"] \in Rows BY <2>3 DEF Rows
    <3>2. bookings' = [bookings EXCEPT ![b] = [g EXCEPT !.seat = "cancelled"]]
      BY <2>2, <2>4
    <3> QED BY <1>0, <3>1, <3>2, ChangedType
  <2>5. CASE bookings' = Without(b) BY <1>0, <2>5, WithoutType
  <2>6. CASE bookings' = [bookings EXCEPT ![b].seat = "cancelled", ![b].group = "cancelled"]
    <3>1. [g EXCEPT !.seat = "cancelled", !.group = "cancelled"] \in Rows BY <2>3 DEF Rows
    <3>2. bookings' = [bookings EXCEPT ![b] = [g EXCEPT !.seat = "cancelled",
                                                        !.group = "cancelled"]]
      BY <2>2, <2>6
    <3> QED BY <1>0, <3>1, <3>2, ChangedType
  <2> QED BY <2>1, <2>4, <2>5, <2>6
<1> QED BY <1>0, <1>1, <1>2, <1>3, MovedType, OtherType DEF Next, vars, Resolve, Fetch,
       Store, Client, CountDay, CountConcurrent, Refuse, Configure, Expire

\* So do the counts, and what was there when they were made.
LEMMA CountsType ==
    ASSUME TypeInv, [Next]_vars
    PROVE  /\ counted' = [r \in Requests |-> counted'[r]]
           /\ \A r \in Requests : IsCount(counted'[r])
           /\ before' = [r \in Requests |-> before'[r]]
           /\ \A r \in Requests : IsPast(before'[r])
<1>0. IsBookings(bookings) BY DEF TypeInv
<1>1. ASSUME NEW q \in Requests, CountDay(q) \/ CountConcurrent(q)
      PROVE  /\ counted' = [r \in Requests |-> counted'[r]]
             /\ \A r \in Requests : IsCount(counted'[r])
             /\ before' = [r \in Requests |-> before'[r]]
             /\ \A r \in Requests : IsPast(before'[r])
  <2>1. PICK limit \in {"day", "concurrent"} :
          /\ counted' = [counted EXCEPT ![q] = [@ EXCEPT ![limit] = Found(bookings, limit, ask[q].time)]]
          /\ before' = [before EXCEPT ![q] = [@ EXCEPT ![limit] = bookings]]
    BY <1>1 DEF CountDay, CountConcurrent, InGroups, Found
  <2>2. PICK F : F = Found(bookings, limit, ask[q].time) OBVIOUS
  <2>3. F \in SUBSET Requests /\ IsFiniteSet(F) BY <1>0, <2>2, FoundIsFinite
  <2>4. IsCount([counted[q] EXCEPT ![limit] = F]) BY <2>3 DEF TypeInv, IsCount
  <2>5. IsPast([before[q] EXCEPT ![limit] = bookings])
    <3>1. PICK p : p = before[q] OBVIOUS
    <3>2. IsPast(p) BY <3>1 DEF TypeInv
    <3>3. PICK new : new = [p EXCEPT ![limit] = bookings] OBVIOUS
    <3>4. new = [day |-> IF limit = "day" THEN bookings ELSE p.day,
                 concurrent |-> IF limit = "day" THEN p.concurrent ELSE bookings]
      BY <3>2, <3>3 DEF IsPast
    <3>5. new.day \in {bookings, p.day} /\ new.concurrent \in {bookings, p.concurrent}
             /\ new = [day |-> new.day, concurrent |-> new.concurrent]
      BY <3>4
    <3> QED BY <1>0, <3>1, <3>2, <3>3, <3>5 DEF IsPast
  <2> QED BY <2>1, <2>2, <2>4, <2>5 DEF TypeInv
<1>2. CASE UNCHANGED <<counted, before>>
  BY <1>2 DEF TypeInv
<1> QED BY <1>1, <1>2 DEF Next, vars, Resolve, Fetch, Store,
       Client, Refuse, Add, MoveToClass, MoveInPlace, Cancel, Other, Configure, Expire

\* A step keeps the types.
LEMMA StepTypes == TypeInv /\ [Next]_vars => TypeInv'
<1> SUFFICES ASSUME TypeInv, [Next]_vars PROVE TypeInv' OBVIOUS
<1>1. IsBookings(bookings)' BY BookingsType DEF IsBookings
<1>2. (counted = [r \in Requests |-> counted[r]])' BY CountsType
<1>3. (\A r \in Requests : IsCount(counted[r]))' BY CountsType
<1>4. (before = [r \in Requests |-> before[r]])' BY CountsType
<1>5. (\A r \in Requests : IsPast(before[r]))' BY CountsType
<1>6. ask' \in [Requests -> Asks]
  BY DEF TypeInv, Next, vars, Resolve, Fetch, Store, Client, CountDay, CountConcurrent,
     Refuse, Add, MoveToClass, MoveInPlace, Cancel, Other, Configure, Expire
<1>7. config' \in Configs /\ brief' \in Configs \union {NoBrief}
         /\ ctx' \in [Requests -> Configs \union {NoBrief}]
  <2>1. ASSUME NEW r \in Requests, Resolve(r) \/ Fetch(r) \/ Store(r)
         PROVE  /\ config' \in Configs /\ brief' \in Configs \union {NoBrief}
                /\ ctx' \in [Requests -> Configs \union {NoBrief}]
    BY <2>1 DEF TypeInv, Resolve, Fetch, Store
  <2>2. ASSUME NEW r \in Requests,
               Client(r) \/ CountDay(r) \/ CountConcurrent(r) \/ Refuse(r)
        PROVE  UNCHANGED <<config, brief, ctx>>
    BY <2>2 DEF Client, CountDay, CountConcurrent, Refuse
  <2>3. ASSUME NEW r \in Requests,
               Add(r) \/ MoveToClass(r) \/ MoveInPlace(r) \/ Cancel(r) \/ Other(r)
        PROVE  UNCHANGED <<config, brief, ctx>>
    BY <2>3 DEF Add, MoveToClass, MoveInPlace, Cancel, Other
  <2>4. CASE Configure \/ Expire
    BY <2>4 DEF TypeInv, Configure, Expire
  <2>5. CASE UNCHANGED vars
    BY <2>5 DEF TypeInv, vars
  <2> QED BY <2>1, <2>2, <2>3, <2>4, <2>5 DEF TypeInv, Next
<1>8. pc' \in [Requests -> Labels]
  <2>1. pc' = pc \/ \E r \in Requests, label \in Labels : Goto(r, label)
    <3>1. ASSUME NEW r \in Requests, Resolve(r) \/ Fetch(r) \/ Store(r) \/ Client(r)
          PROVE  \E label \in Labels : Goto(r, label)
      BY <3>1 DEF Resolve, Fetch, Store, Client, Labels
    <3>2. ASSUME NEW r \in Requests, CountDay(r) \/ CountConcurrent(r) \/ Refuse(r)
          PROVE  \E label \in Labels : Goto(r, label)
      BY <3>2 DEF CountDay, CountConcurrent, Refuse, Labels
    <3>3. ASSUME NEW r \in Requests,
                 Add(r) \/ MoveToClass(r) \/ MoveInPlace(r) \/ Cancel(r) \/ Other(r)
          PROVE  \E label \in Labels : Goto(r, label)
      BY <3>3 DEF Add, MoveToClass, MoveInPlace, Cancel, Other, Labels
    <3> QED BY <3>1, <3>2, <3>3 DEF Next, vars, Configure, Expire
  <2> QED BY <2>1 DEF TypeInv, Goto
<1> QED BY <1>1, <1>2, <1>3, <1>4, <1>5, <1>6, <1>7, <1>8 DEF TypeInv
-----------------------------------------------------------------------------
\* A step keeps what was counted in step with what was there.
LEMMA StepCounts == TypeInv /\ CountInv /\ [Next]_vars => CountInv'
<1> SUFFICES ASSUME TypeInv, CountInv, [Next]_vars, NEW r \in Requests
             PROVE  /\ pc'[r] \in {"day", "concurrent"} => ask'[r].kind = "add"
                    /\ pc'[r] \in {"concurrent", "act"} /\ ask'[r].kind = "add" =>
                        counted'[r].day = Found(before'[r].day, "day", ask'[r].time)
                    /\ pc'[r] = "act" /\ ask'[r].kind = "add" =>
                        /\ counted'[r].concurrent
                             = Found(before'[r].concurrent, "concurrent", ask'[r].time)
                        /\ \A limit \in {"day", "concurrent"} :
                             ~Reached(Cardinality(counted'[r][limit]), ctx'[r], limit)
  BY DEF CountInv
<1>0. ask' = ask
  BY DEF Next, vars, Resolve, Fetch, Store, Client, CountDay, CountConcurrent,
     Refuse, Add, MoveToClass, MoveInPlace, Cancel, Other, Configure, Expire
<1>1. CASE CountDay(r)
  <2>1. pc[r] = "day" /\ pc'[r] = "concurrent" BY <1>1 DEF CountDay, Goto, TypeInv
  <2>2. ask[r].kind = "add" BY <2>1 DEF CountInv
  <2>3. before'[r].day = bookings BY <1>1 DEF CountDay, TypeInv, IsPast
  <2>4. counted'[r].day = Found(bookings, "day", ask[r].time)
    BY <1>1 DEF CountDay, TypeInv, IsCount, InGroups, Found
  <2> QED BY <1>0, <2>1, <2>2, <2>3, <2>4
<1>2. CASE CountConcurrent(r)
  <2>1. pc[r] = "concurrent" /\ pc'[r] \in {"limited", "act"}
    BY <1>2 DEF CountConcurrent, Goto, TypeInv
  <2>2. ask[r].kind = "add" BY <2>1 DEF CountInv
  <2>3. before'[r].concurrent = bookings /\ before'[r].day = before[r].day /\ ctx' = ctx
    BY <1>2 DEF CountConcurrent, TypeInv, IsPast
  <2>4. counted'[r].day = counted[r].day
           /\ counted'[r].concurrent = Found(bookings, "concurrent", ask[r].time)
    BY <1>2 DEF CountConcurrent, TypeInv, IsCount, InGroups, Found
  <2>5. counted[r].day = Found(before[r].day, "day", ask[r].time)
    BY <2>1, <2>2 DEF CountInv
  <2>6. pc'[r] = "act" => \A limit \in {"day", "concurrent"} :
                             ~Reached(Cardinality(counted'[r][limit]), ctx[r], limit)
    BY <1>2 DEF CountConcurrent, Goto, TypeInv
  <2> QED BY <1>0, <2>1, <2>2, <2>3, <2>4, <2>5, <2>6
<1>3. CASE ~CountDay(r) /\ ~CountConcurrent(r)
  <2>1. /\ before'[r] = before[r]
        /\ counted'[r] = counted[r]
    <3>1. ASSUME NEW q \in Requests \ {r}, CountDay(q) \/ CountConcurrent(q)
          PROVE  before'[r] = before[r] /\ counted'[r] = counted[r]
      BY <3>1 DEF TypeInv, CountDay, CountConcurrent
    <3>2. ASSUME NEW q \in Requests, Resolve(q) \/ Fetch(q) \/ Store(q) \/ Client(q)
          PROVE  before' = before /\ counted' = counted
      BY <3>2 DEF Resolve, Fetch, Store, Client
    <3>3. ASSUME NEW q \in Requests,
                 Refuse(q) \/ Add(q) \/ MoveToClass(q) \/ MoveInPlace(q) \/ Cancel(q) \/ Other(q)
          PROVE  before' = before /\ counted' = counted
      BY <3>3 DEF Refuse, Add, MoveToClass, MoveInPlace, Cancel, Other
    <3>4. Configure \/ Expire \/ UNCHANGED vars => before' = before /\ counted' = counted
      BY DEF Configure, Expire, vars
    <3> QED BY <1>3, <3>1, <3>2, <3>3, <3>4 DEF Next
  <2>2. /\ pc'[r] = "day" => pc[r] = "day" \/ ask[r].kind = "add"
        /\ pc'[r] = "concurrent" => pc[r] = "concurrent"
        /\ pc'[r] = "act" => pc[r] = "act" \/ ask[r].kind # "add"
    <3>1. CASE pc'[r] = pc[r] BY <3>1
    <3>2. CASE Resolve(r) \/ Fetch(r) \/ Store(r)
      BY <3>2 DEF TypeInv, Resolve, Fetch, Store, Goto
    <3>3. CASE Client(r) BY <3>3 DEF TypeInv, Client, Goto
    <3>4. CASE Refuse(r) \/ Add(r) \/ MoveToClass(r) \/ MoveInPlace(r) \/ Cancel(r) \/ Other(r)
      BY <3>4 DEF TypeInv, Refuse, Add, MoveToClass, MoveInPlace, Cancel, Other, Goto
    <3>5. ASSUME NEW q \in Requests \ {r},
                 Resolve(q) \/ Fetch(q) \/ Store(q) \/ Client(q) \/ CountDay(q)
                   \/ CountConcurrent(q)
          PROVE  pc'[r] = pc[r]
      BY <3>5 DEF TypeInv, Resolve, Fetch, Store, Client, CountDay, CountConcurrent, Goto
    <3>6. ASSUME NEW q \in Requests \ {r},
                 Refuse(q) \/ Add(q) \/ MoveToClass(q) \/ MoveInPlace(q) \/ Cancel(q) \/ Other(q)
          PROVE  pc'[r] = pc[r]
      BY <3>6 DEF TypeInv, Refuse, Add, MoveToClass, MoveInPlace, Cancel, Other, Goto
    <3>7. Configure \/ Expire \/ UNCHANGED vars => pc'[r] = pc[r]
      BY DEF Configure, Expire, vars
    <3> QED BY <1>3, <3>1, <3>2, <3>3, <3>4, <3>5, <3>6, <3>7 DEF Next
  <2>3. pc[r] = "act" => ctx'[r] = ctx[r]
    BY DEF TypeInv, Next, vars, Resolve, Fetch, Store, Client, CountDay, CountConcurrent,
       Refuse, Add, MoveToClass, MoveInPlace, Cancel, Other, Configure, Expire
  <2> QED BY <1>0, <2>1, <2>2, <2>3 DEF CountInv
<1> QED BY <1>1, <1>2, <1>3
-----------------------------------------------------------------------------
\* The inductive invariant holds in every state.
THEOREM CountsAreKept == Spec => []IInv
<1>1. Init => IInv
  <2> SUFFICES ASSUME Init PROVE IInv OBVIOUS
  <2>1. CountInv BY DEF Init, CountInv
  <2> QED BY <2>1, InitTypes DEF IInv
<1>2. IInv /\ [Next]_vars => IInv'
  BY StepTypes, StepCounts DEF IInv
<1> QED BY <1>1, <1>2, PTL DEF Spec

\* A larger set reaches whatever limit a smaller one does.
LEMMA ReachedGrows ==
    ASSUME NEW c \in Configs, NEW limit, NEW S, NEW T, IsFiniteSet(T), S \subseteq T,
           Reached(Cardinality(S), c, limit)
    PROVE  Reached(Cardinality(T), c, limit)
<1>1. IsFiniteSet(S) /\ Cardinality(S) <= Cardinality(T) BY FS_Subset
<1>2. Cardinality(S) \in Nat /\ Cardinality(T) \in Nat BY <1>1, FS_CardinalityType
<1>3. Allowed(c, limit) \in Nat
  <2>1. /\ c.perDay \in Nat \union {Unset}
        /\ c.concurrent \in Nat \union {Unset}
    BY DEF Config
  <2> QED BY <2>1 DEF Allowed
<1> QED BY <1>1, <1>2, <1>3 DEF Reached

\* The spans that the limits look at are intervals of natural numbers.
LEMMA SpanTypes ==
    ASSUME NEW t \in Time, NEW limit
    PROVE  Span(limit, t).start \in Nat /\ Span(limit, t).end \in Nat
<1>1. t.start \in Nat /\ t.end \in Nat BY DEF Time
<1>2. DayLength \in Nat /\ DayLength > 0 OBVIOUS
<1>3. t.start \div DayLength \in Nat BY <1>1, <1>2
<1> QED BY <1>1, <1>2, <1>3 DEF Span, DayOf

\* A booking with an event in the span, and no event outside the dates of its
\* group, is found.
LEMMA SeenIfInside ==
    ASSUME NEW rows, IsBookings(rows), NEW limit, NEW t \in Time,
           NEW b \in Has(rows, limit, t), ~Outside(rows[b])
    PROVE  b \in Found(rows, limit, t)
<1>1. /\ b \in DOMAIN rows
      /\ rows[b].group = "active"
      /\ \E e \in rows[b].events : Overlap(e, Span(limit, t))
  BY DEF Has
<1>2. PICK e \in rows[b].events : Overlap(e, Span(limit, t)) BY <1>1
<1>3. rows[b] \in Rows BY <1>1 DEF IsBookings
<1>4. rows[b].window \in Time /\ e \in Time BY <1>3 DEF Rows
<1>5. /\ rows[b].window.start \in Nat /\ rows[b].window.end \in Nat
      /\ e.start \in Nat /\ e.end \in Nat
  BY <1>4 DEF Time
<1>6. rows[b].window.start <= e.start /\ e.end <= rows[b].window.end
  BY <1>5 DEF Outside
<1>7. Span(limit, t).start \in Nat /\ Span(limit, t).end \in Nat BY SpanTypes
<1>8. e.start < Span(limit, t).end /\ e.end > Span(limit, t).start BY <1>2 DEF Overlap
<1>9. Overlap(rows[b].window, Span(limit, t)) BY <1>5, <1>6, <1>7, <1>8 DEF Overlap
<1> QED BY <1>1, <1>9 DEF Found

\* EnforceUserLimits, in front of addEventFromWeb: "máximo de reservas por
\* día".  For any number of requests, bookings and configurations, an addition
\* exceeds a limit only for one of the reasons that LimitsHoldUnlessExplained
\* names.
THEOREM LimitsHold == Spec => LimitsHoldUnlessExplained
<1>1. ASSUME IInv, [Next]_vars, NEW r \in Requests,
             pc[r] = "act", pc'[r] = "done", ask[r].kind = "add",
             NEW limit \in {"day", "concurrent"}
      PROVE  LET t == ask[r].time
                 has == Has(bookings, limit, t)
                 rows == before[r][limit]
             IN \/ ~Reached(Cardinality(has), config, limit)
                \/ ctx[r] # config
                \/ has \ Has(rows, limit, t) # {}
                \/ \E b \in has \ counted[r][limit] : Outside(rows[b])
  <2> DEFINE t == ask[r].time
             has == Has(bookings, limit, t)
             rows == before[r][limit]
  <2> SUFFICES ASSUME ctx[r] = config,
                      has \subseteq Has(rows, limit, t),
                      \A b \in has \ counted[r][limit] : ~Outside(rows[b]),
                      Reached(Cardinality(has), config, limit)
               PROVE  FALSE
    OBVIOUS
  <2>1. IsCount(counted[r]) /\ IsPast(before[r]) /\ config \in Configs
    BY <1>1 DEF IInv, TypeInv
  <2>2. ~Reached(Cardinality(counted[r][limit]), config, limit)
    BY <1>1 DEF IInv, CountInv
  <2>3. counted[r][limit] = Found(rows, limit, t)
    BY <1>1 DEF IInv, CountInv
  <2>4. t \in Time BY <1>1, AskTypes DEF IInv
  <2>5. IsBookings(rows) BY <2>1 DEF IsPast
  <2>6. has \subseteq counted[r][limit] BY <2>3, <2>4, <2>5, SeenIfInside
  <2>7. IsFiniteSet(counted[r][limit]) BY <2>1 DEF IsCount
  <2> HIDE DEF has, t, rows
  <2> QED BY <2>1, <2>2, <2>6, <2>7, ReachedGrows
<1>2. IInv /\ [Next]_vars =>
        [\A r \in Requests : pc[r] = "act" /\ pc'[r] = "done" /\ ask[r].kind = "add" =>
          \A limit \in {"day", "concurrent"} :
            LET t == ask[r].time
                has == Has(bookings, limit, t)
                rows == before[r][limit]
            IN \/ ~Reached(Cardinality(has), config, limit)
               \/ ctx[r] # config
               \/ has \ Has(rows, limit, t) # {}
               \/ \E b \in has \ counted[r][limit] : Outside(rows[b])]_vars
  BY <1>1
<1> QED BY <1>2, CountsAreKept, PTL DEF Spec, LimitsHoldUnlessExplained

\* EnforceUserLimits: "Has alcanzado el máximo".  For any number of requests,
\* bookings and configurations, a client is refused for having too many
\* bookings only with as many, or for one of the reasons that
\* RefusalsAreExplained names.
THEOREM RefusalsHaveCauses == Spec => RefusalsAreExplained
<1>1. ASSUME IInv, [Next]_vars, NEW r \in Requests,
             pc[r] = "concurrent", pc'[r] = "limited"
      PROVE  \E limit \in {"day", "concurrent"} :
               LET t == ask[r].time
                   rows == before'[r][limit]
               IN \/ Reached(Cardinality(Has(bookings, limit, t)), config, limit)
                  \/ ctx[r] # config
                  \/ \E b \in counted'[r][limit] :
                       \/ rows[b].seat = "cancelled" /\ rows[b].group = "active"
                       \/ Misdated(rows[b]) /\ b \notin Has(rows, limit, t)
                       \/ b \in Has(rows, limit, t) \ Has(bookings, limit, t)
  <2>1. CountConcurrent(r)
    <3>1. TypeInv BY <1>1 DEF IInv
    <3>2. ASSUME NEW q \in Requests,
                 Resolve(q) \/ Fetch(q) \/ Store(q) \/ Client(q) \/ CountDay(q)
          PROVE  FALSE
      BY <1>1, <3>1, <3>2 DEF TypeInv, Resolve, Fetch, Store, Client, CountDay, Goto
    <3>3. ASSUME NEW q \in Requests,
                 Refuse(q) \/ Add(q) \/ MoveToClass(q) \/ MoveInPlace(q) \/ Cancel(q) \/ Other(q)
          PROVE  FALSE
      BY <1>1, <3>1, <3>3 DEF TypeInv, Refuse, Add, MoveToClass, MoveInPlace, Cancel, Other, Goto
    <3>4. ASSUME NEW q \in Requests \ {r}, CountConcurrent(q) PROVE FALSE
      BY <1>1, <3>1, <3>4 DEF TypeInv, CountConcurrent, Goto
    <3>5. ~(Configure \/ Expire \/ UNCHANGED vars)
      BY <1>1 DEF Configure, Expire, vars
    <3> QED BY <1>1, <3>2, <3>3, <3>4, <3>5 DEF Next
  <2>2. PICK limit \in {"day", "concurrent"} :
          Reached(Cardinality(counted'[r][limit]), ctx[r], limit)
    BY <1>1, <2>1 DEF CountConcurrent, Goto, IInv, TypeInv
  <2> DEFINE t == ask[r].time
             rows == before'[r][limit]
  <2>3. counted'[r][limit] = Found(rows, limit, t) /\ IsBookings(rows)
    <3>1. ask[r].kind = "add" BY <1>1 DEF IInv, CountInv
    <3>2. counted[r].day = Found(before[r].day, "day", t) BY <1>1, <3>1 DEF IInv, CountInv
    <3>3. counted'[r].day = counted[r].day
             /\ counted'[r].concurrent = Found(bookings, "concurrent", t)
      BY <2>1, <1>1 DEF CountConcurrent, IInv, TypeInv, IsCount, InGroups, Found
    <3>4. before'[r].day = before[r].day /\ before'[r].concurrent = bookings
      BY <2>1, <1>1 DEF CountConcurrent, IInv, TypeInv, IsPast
    <3>5. IsBookings(before[r].day) /\ IsBookings(bookings)
      BY <1>1 DEF IInv, TypeInv, IsPast
    <3> QED BY <3>2, <3>3, <3>4, <3>5
  <2> SUFFICES ASSUME ctx[r] = config,
                      \A b \in Found(rows, limit, t) :
                        /\ ~(rows[b].seat = "cancelled" /\ rows[b].group = "active")
                        /\ ~(Misdated(rows[b]) /\ b \notin Has(rows, limit, t))
                        /\ b \notin Has(rows, limit, t) \ Has(bookings, limit, t)
               PROVE  Reached(Cardinality(Has(bookings, limit, t)), config, limit)
    BY <2>3
  <2>4. IsBookings(bookings) /\ config \in Configs
    BY <1>1 DEF IInv, TypeInv
  <2>5. Found(rows, limit, t) \subseteq Has(bookings, limit, t)
    <3> SUFFICES ASSUME NEW b \in Found(rows, limit, t)
                 PROVE  b \in Has(bookings, limit, t)
      OBVIOUS
    <3>1. b \in DOMAIN rows /\ rows[b].group = "active"
             /\ Overlap(rows[b].window, Span(limit, t))
      BY DEF Found
    <3>2. rows[b].seat = "active" BY <2>3, <3>1 DEF IsBookings, Rows
    <3>3. b \in Has(rows, limit, t)
      <4> SUFFICES ASSUME ~Misdated(rows[b]) PROVE b \in Has(rows, limit, t) OBVIOUS
      <4>1. rows[b].window \in rows[b].events BY DEF Misdated
      <4> QED BY <3>1, <3>2, <4>1 DEF Has
    <3> QED BY <3>3
  <2>6. IsFiniteSet(Has(bookings, limit, t))
    <3>1. Has(bookings, limit, t) \subseteq DOMAIN bookings BY DEF Has
    <3> QED BY <2>4, <3>1, FS_Subset DEF IsBookings
  <2> HIDE DEF rows, t
  <2> QED BY <2>2, <2>3, <2>4, <2>5, <2>6, ReachedGrows
<1>2. IInv /\ [Next]_vars =>
        [\A r \in Requests : pc[r] = "concurrent" /\ pc'[r] = "limited" =>
          \E limit \in {"day", "concurrent"} :
            LET t == ask[r].time
                rows == before'[r][limit]
            IN \/ Reached(Cardinality(Has(bookings, limit, t)), config, limit)
               \/ ctx[r] # config
               \/ \E b \in counted'[r][limit] :
                    \/ rows[b].seat = "cancelled" /\ rows[b].group = "active"
                    \/ Misdated(rows[b]) /\ b \notin Has(rows, limit, t)
                    \/ b \in Has(rows, limit, t) \ Has(bookings, limit, t)]_vars
  BY <1>1
<1> QED BY <1>2, CountsAreKept, PTL DEF Spec, RefusalsAreExplained
-----------------------------------------------------------------------------
(***************************************************************************)
(* Whose turn it is: proofs about RoundRobin, for any number of            *)
(* professionals and picks, whoever is eligible and whatever the weights.  *)
(*                                                                         *)
(* That nobody falls behind by more than the bound is not inductive by     *)
(* itself: a pick compares the members of its pool only.  What is          *)
(* inductive bounds, for every group of k of the n professionals, what     *)
(* they are behind together, by k * (n - k) times the greatest weight.     *)
(***************************************************************************)
CONSTANTS WeightMaps, Pickers, MaxLost

VARIABLES state, pick, writes

Turns == INSTANCE RoundRobin

HIDE GuardsAssumption

LEMMA LeastNumber ==
    ASSUME NEW T, T \subseteq Nat, T # {}
    PROVE  \E x \in T : \A y \in T : x <= y
<1>1. PICK R : R = OpToRel(<, Nat)
  OBVIOUS
<1>2. IsWellFoundedOn(R, Nat)
  BY <1>1, NatLessThanWellFounded
<1>3. PICK x \in T : \A y \in T : ~ (<<y, x>> \in R)
  BY <1>2, WFMin
<1>4. ASSUME NEW y \in T, ~(x <= y) PROVE FALSE
  <2>1. x \in Nat /\ y \in Nat /\ y < x
    BY <1>4
  <2>2. PICK p : p = <<y, x>>
    OBVIOUS
  <2>3. p \in Nat \X Nat /\ p[1] = y /\ p[2] = x
    BY <2>1, <2>2
  <2>4. p[1] < p[2]
    BY <2>1, <2>3
  <2>5. R = {ss \in Nat \X Nat : ss[1] < ss[2]}
    BY <1>1 DEF OpToRel
  <2>6. p \in R
    BY <2>3, <2>4, <2>5
  <2> QED
    BY <1>3, <2>2, <2>6
<1> QED
  BY <1>4

\* Of the finite sets in question one has no smaller one below it: what holds
\* the induction on sets.
LEMMA LeastSet ==
    ASSUME NEW Bad, Bad # {}, \A S \in Bad : IsFiniteSet(S)
    PROVE  \E S \in Bad : \A x \in S : S \ {x} \notin Bad
<1> DEFINE Sizes == {Cardinality(S) : S \in Bad}
<1>1. Sizes \subseteq Nat /\ Sizes # {}
  BY FS_CardinalityType
<1>2. PICK n \in Sizes : \A m \in Sizes : n <= m
  BY <1>1, LeastNumber
<1>3. PICK S \in Bad : Cardinality(S) = n
  OBVIOUS
<1>4. ASSUME NEW x \in S, S \ {x} \in Bad PROVE FALSE
  <2>1. Cardinality(S \ {x}) = n - 1 /\ n \in Nat
    BY <1>1, <1>3, FS_RemoveElement
  <2>2. n <= Cardinality(S \ {x})
    BY <1>2, <1>4
  <2> QED
    BY <2>1, <2>2
<1> QED
  BY <1>4

-----------------------------------------------------------------------------
\* The sum of f over a set, as the pick computes it
Sum(f, S) == Turns!Total(S, f)

First(S) == CHOOSE x \in S : TRUE

\* What the sum over a set takes from the sums over smaller ones
Summed(f, g, s) == IF s = {} THEN 0 ELSE f[First(s)] + g[s \ {First(s)}]

SumsUp(f, g, D) == g = [s \in D |-> Summed(f, g, s)]

SumsBelow(f, g, S) == SumsUp(f, g, SUBSET S)

\* The recursion over the subsets of a finite set defines a function.
LEMMA SumsDefined ==
    ASSUME NEW S, IsFiniteSet(S), NEW f
    PROVE  \E g : SumsBelow(f, g, S)
<1> DEFINE Sets(k) == {s \in SUBSET S : Cardinality(s) <= k}
           Bad == {k \in Nat : ~\E g : SumsUp(f, g, Sets(k))}
<1>0. \A s \in SUBSET S : IsFiniteSet(s) /\ Cardinality(s) \in Nat
  BY FS_Subset, FS_CardinalityType
<1>1. \A k \in Nat : \E g : SumsUp(f, g, Sets(k))
  <2> SUFFICES ASSUME Bad # {} PROVE FALSE
    OBVIOUS
  <2>0. Bad \subseteq Nat
    OBVIOUS
  <2>1. PICK k \in Bad : \A m \in Bad : k <= m
    BY <2>0, LeastNumber
  <2>2. k \in Nat /\ ~\E g : SumsUp(f, g, Sets(k))
    OBVIOUS
  <2>3. k # 0
    <3> SUFFICES ASSUME k = 0 PROVE FALSE
      OBVIOUS
    <3>1. \A s \in Sets(0) : s = {}
      BY <1>0, FS_EmptySet
    <3>2. PICK g : g = [s \in Sets(0) |-> 0]
      OBVIOUS
    <3>3. SumsUp(f, g, Sets(0))
      BY <3>1, <3>2 DEF SumsUp, Summed
    <3> QED
      BY <2>2, <3>3
  <2>4. k - 1 \in Nat /\ ~(k <= k - 1)
    BY <2>2, <2>3
  <2>5. PICK g : SumsUp(f, g, Sets(k - 1))
    <3>1. k - 1 \notin Bad
      BY <2>1, <2>4
    <3> QED
      BY <2>4, <3>1
  <2>6. PICK h : h = [s \in Sets(k) |-> Summed(f, g, s)]
    OBVIOUS
  <2>7. \A s \in Sets(k - 1) : s \in Sets(k) /\ h[s] = g[s]
    <3>1. Sets(k - 1) \subseteq Sets(k)
      BY <1>0, <2>2, <2>4
    <3>2. g = [s \in Sets(k - 1) |-> Summed(f, g, s)]
      BY <2>5 DEF SumsUp
    <3> HIDE DEF Sets
    <3> QED
      BY <2>6, <3>1, <3>2
  <2>8. \A s \in Sets(k) : s # {} => s \ {First(s)} \in Sets(k - 1)
    <3> TAKE s \in Sets(k)
    <3> HAVE s # {}
    <3>1. First(s) \in s
      BY DEF First
    <3>2. Cardinality(s \ {First(s)}) = Cardinality(s) - 1
      BY <1>0, <3>1, FS_RemoveElement
    <3> QED
      BY <1>0, <2>2, <3>2
  <2>9. \A s \in Sets(k) : Summed(f, g, s) = Summed(f, h, s)
    BY <2>7, <2>8 DEF Summed
  <2>10. SumsUp(f, h, Sets(k))
    BY <2>6, <2>9 DEF SumsUp
  <2> QED
    BY <2>2, <2>10
<1>2. SUBSET S = Sets(Cardinality(S)) /\ Cardinality(S) \in Nat
  <2>1. \A s \in SUBSET S : Cardinality(s) <= Cardinality(S)
    BY FS_Subset
  <2> QED
    BY <1>0, <2>1
<1> QED
  BY <1>1, <1>2 DEF SumsBelow

\* Two such functions agree where both are defined.
LEMMA SumsAgree ==
    ASSUME NEW D, IsFiniteSet(D), NEW E, E \subseteq D, NEW f,
           NEW g, SumsBelow(f, g, D), NEW h, SumsBelow(f, h, E)
    PROVE  g[E] = h[E]
<1> DEFINE Bad == {s \in SUBSET E : g[s] # h[s]}
<1> SUFFICES ASSUME Bad # {} PROVE FALSE
  OBVIOUS
<1>1. \A s \in Bad : IsFiniteSet(s)
  BY FS_Subset
<1>2. PICK s \in Bad : \A x \in s : s \ {x} \notin Bad
  <2> HIDE DEF Bad
  <2> QED
    BY <1>1, LeastSet
<1>3. s \in SUBSET E /\ s \in SUBSET D /\ g[s] # h[s]
  OBVIOUS
<1>4. g[s] = Summed(f, g, s) /\ h[s] = Summed(f, h, s)
  BY <1>3 DEF SumsBelow, SumsUp
<1>5. CASE s = {}
  BY <1>3, <1>4, <1>5 DEF Summed
<1>6. CASE s # {}
  <2>1. First(s) \in s
    BY <1>6 DEF First
  <2>2. g[s \ {First(s)}] = h[s \ {First(s)}]
    BY <1>2, <1>3, <2>1
  <2> QED
    BY <1>3, <1>4, <2>2 DEF Summed
<1> QED
  BY <1>5, <1>6

\* The sum over a set is that over the rest and its first element.
LEMMA SumSteps ==
    ASSUME NEW S, IsFiniteSet(S), NEW f
    PROVE  /\ Sum(f, {}) = 0
           /\ S # {} => Sum(f, S) = f[First(S)] + Sum(f, S \ {First(S)})
<1> DEFINE It(D) == CHOOSE g : SumsBelow(f, g, D)
<1>1. \A D : Sum(f, D) = It(D)[D]
  BY DEF Sum, Turns!Total, Turns!MapThenSumSet, Turns!MapThenFoldSet, SumsBelow, SumsUp, Summed, First
<1>2. \A D : IsFiniteSet(D) => SumsBelow(f, It(D), D)
  BY SumsDefined
<1>3. \A D : IsFiniteSet(D) => Sum(f, D) = Summed(f, It(D), D)
  <2> TAKE D
  <2> HAVE IsFiniteSet(D)
  <2>1. PICK g : g = It(D)
    OBVIOUS
  <2>2. g = [s \in SUBSET D |-> Summed(f, g, s)]
    BY <1>2, <2>1 DEF SumsBelow, SumsUp
  <2>3. D \in SUBSET D /\ Sum(f, D) = g[D]
    BY <1>1, <2>1
  <2> HIDE DEF It
  <2> QED
    BY <2>1, <2>2, <2>3
<1> HIDE DEF It
<1>4. Sum(f, {}) = 0
  BY <1>3, FS_EmptySet DEF Summed
<1>5. ASSUME S # {} PROVE Sum(f, S) = f[First(S)] + Sum(f, S \ {First(S)})
  <2> DEFINE R == S \ {First(S)}
  <2>1. IsFiniteSet(R) /\ R \subseteq S
    BY FS_Subset
  <2>2. It(S)[R] = It(R)[R]
    <3> HIDE DEF R
    <3> QED
      BY <1>2, <2>1, SumsAgree
  <2>3. Sum(f, R) = It(S)[R]
    BY <1>1, <2>2
  <2> QED
    BY <1>3, <1>5, <2>3 DEF Summed
<1> QED
  BY <1>4, <1>5

LEMMA SumEmpty == \A f : Sum(f, {}) = 0
BY FS_EmptySet, SumSteps

LEMMA SumInt ==
    ASSUME NEW S, IsFiniteSet(S), NEW f, \A x \in S : f[x] \in Int
    PROVE  Sum(f, S) \in Int
<1> DEFINE Bad == {D \in SUBSET S : Sum(f, D) \notin Int}
<1> SUFFICES ASSUME Bad # {} PROVE FALSE
  OBVIOUS
<1>1. \A D \in Bad : IsFiniteSet(D)
  BY FS_Subset
<1>2. PICK D \in Bad : \A x \in D : D \ {x} \notin Bad
  <2> HIDE DEF Bad
  <2> QED
    BY <1>1, LeastSet
<1>3. D \in SUBSET S /\ Sum(f, D) \notin Int /\ IsFiniteSet(D)
  BY <1>1
<1>4. D # {}
  <2>1. Sum(f, {}) = 0
    BY SumEmpty
  <2>2. 0 \in Int
    OBVIOUS
  <2> QED
    BY <1>3, <2>1, <2>2
<1>5. PICK c \in D : Sum(f, D) = f[c] + Sum(f, D \ {c})
  BY <1>3, <1>4, SumSteps DEF First
<1>6. f[c] \in Int /\ Sum(f, D \ {c}) \in Int
  BY <1>2, <1>3
<1> QED
  BY <1>3, <1>5, <1>6

\* The order in which the elements are taken does not matter.
LEMMA SumRemove ==
    ASSUME NEW S, IsFiniteSet(S), NEW f, \A x \in S : f[x] \in Int
    PROVE  \A x \in S : Sum(f, S) = f[x] + Sum(f, S \ {x})
<1> DEFINE Good(D) == \A x \in D : Sum(f, D) = f[x] + Sum(f, D \ {x})
           Bad == {D \in SUBSET S : ~Good(D)}
<1> SUFFICES ASSUME Bad # {} PROVE FALSE
  OBVIOUS
<1>0. \A D \in SUBSET S : IsFiniteSet(D) /\ Sum(f, D) \in Int
  BY FS_Subset, SumInt
<1>1. \A D \in Bad : IsFiniteSet(D)
  BY <1>0
<1>2. PICK D \in Bad : \A x \in D : D \ {x} \notin Bad
  <2> HIDE DEF Bad
  <2> QED
    BY <1>1, LeastSet
<1>3. D \in SUBSET S /\ IsFiniteSet(D)
  BY <1>0
<1>4. PICK x \in D : Sum(f, D) # f[x] + Sum(f, D \ {x})
  OBVIOUS
<1>5. PICK c \in D : Sum(f, D) = f[c] + Sum(f, D \ {c})
  BY <1>3, <1>4, SumSteps DEF First
<1>6. x # c
  BY <1>4, <1>5
<1>7. PICK R : R = (D \ {c}) \ {x} /\ R = (D \ {x}) \ {c}
  OBVIOUS
<1>8. Good(D \ {c}) /\ Good(D \ {x})
  BY <1>2, <1>3
<1>9. Sum(f, D \ {c}) = f[x] + Sum(f, R) /\ Sum(f, D \ {x}) = f[c] + Sum(f, R)
  <2> HIDE DEF Bad
  <2> QED
    BY <1>6, <1>7, <1>8
<1>10. f[x] \in Int /\ f[c] \in Int /\ Sum(f, R) \in Int
  BY <1>0, <1>3, <1>7
<1> HIDE DEF Bad, Good
<1> QED
  BY <1>4, <1>5, <1>9, <1>10

\* The sum over a set is that over a part and over the rest.
LEMMA SumUnion ==
    ASSUME NEW S, IsFiniteSet(S), NEW A, A \subseteq S, NEW f, \A x \in S : f[x] \in Int
    PROVE  Sum(f, S) = Sum(f, A) + Sum(f, S \ A)
<1> DEFINE Bad == {D \in SUBSET A : Sum(f, D \union (S \ A)) # Sum(f, D) + Sum(f, S \ A)}
<1>0. \A D \in SUBSET S : IsFiniteSet(D) /\ Sum(f, D) \in Int
  BY FS_Subset, SumInt
<1>1. Bad = {}
  <2> SUFFICES ASSUME Bad # {} PROVE FALSE
    OBVIOUS
  <2>1. PICK D \in Bad : \A x \in D : D \ {x} \notin Bad
    <3>1. \A D \in Bad : IsFiniteSet(D)
      BY <1>0
    <3> HIDE DEF Bad
    <3> QED
      BY <3>1, LeastSet
  <2>2. PICK E : E = D \union (S \ A)
    OBVIOUS
  <2>3. D \in SUBSET S /\ E \in SUBSET S /\ D \subseteq A
    BY <2>2
  <2>4. Sum(f, E) # Sum(f, D) + Sum(f, S \ A)
    BY <2>2
  <2>5. D # {}
    <3> SUFFICES ASSUME D = {} PROVE FALSE
      OBVIOUS
    <3>1. E = S \ A /\ Sum(f, D) = 0
      BY <2>2, SumEmpty
    <3> QED
      BY <1>0, <2>4, <3>1
  <2>6. PICK x : x \in D
    BY <2>5
  <2>7. /\ Sum(f, D) = f[x] + Sum(f, D \ {x})
        /\ Sum(f, E) = f[x] + Sum(f, E \ {x})
    BY <1>0, <2>2, <2>3, <2>6, SumRemove
  <2>8. Sum(f, E \ {x}) = Sum(f, D \ {x}) + Sum(f, S \ A)
    <3>1. E \ {x} = (D \ {x}) \union (S \ A)
      BY <2>2, <2>3, <2>6
    <3> QED
      BY <2>1, <2>3, <2>6, <3>1
  <2>9. f[x] \in Int /\ Sum(f, D \ {x}) \in Int /\ Sum(f, S \ A) \in Int
    BY <1>0, <2>3, <2>6
  <2> HIDE DEF Bad
  <2> QED
    BY <2>4, <2>7, <2>8, <2>9
<1>2. A \union (S \ A) = S
  OBVIOUS
<1> QED
  BY <1>1, <1>2

LEMMA SumSame ==
    ASSUME NEW S, IsFiniteSet(S), NEW f, NEW g, \A x \in S : f[x] = g[x] /\ f[x] \in Int
    PROVE  Sum(f, S) = Sum(g, S)
<1> DEFINE Bad == {D \in SUBSET S : Sum(f, D) # Sum(g, D)}
<1> SUFFICES ASSUME Bad # {} PROVE FALSE
  OBVIOUS
<1>1. PICK D \in Bad : \A x \in D : D \ {x} \notin Bad
  <2>1. \A D \in Bad : IsFiniteSet(D)
    BY FS_Subset
  <2> HIDE DEF Bad
  <2> QED
    BY <2>1, LeastSet
<1>2. D \in SUBSET S /\ IsFiniteSet(D) /\ Sum(f, D) # Sum(g, D)
  BY FS_Subset
<1>3. D # {}
  BY <1>2, SumEmpty
<1>4. PICK x : x \in D
  BY <1>3
<1>5. Sum(f, D) = f[x] + Sum(f, D \ {x}) /\ Sum(g, D) = g[x] + Sum(g, D \ {x})
  BY <1>2, <1>4, SumRemove
<1>6. Sum(f, D \ {x}) = Sum(g, D \ {x})
  BY <1>1, <1>2, <1>4
<1> QED
  BY <1>2, <1>4, <1>5, <1>6

LEMMA SumPlus ==
    ASSUME NEW S, IsFiniteSet(S), NEW f, NEW g, NEW h,
           \A x \in S : f[x] \in Int /\ g[x] \in Int /\ h[x] = f[x] + g[x]
    PROVE  Sum(h, S) = Sum(f, S) + Sum(g, S)
<1> DEFINE Bad == {D \in SUBSET S : Sum(h, D) # Sum(f, D) + Sum(g, D)}
<1> SUFFICES ASSUME Bad # {} PROVE FALSE
  OBVIOUS
<1>0. \A D \in SUBSET S : IsFiniteSet(D) /\ Sum(f, D) \in Int /\ Sum(g, D) \in Int
  BY FS_Subset, SumInt
<1>1. PICK D \in Bad : \A x \in D : D \ {x} \notin Bad
  <2>1. \A D \in Bad : IsFiniteSet(D)
    BY <1>0
  <2> HIDE DEF Bad
  <2> QED
    BY <2>1, LeastSet
<1>2. D \in SUBSET S /\ Sum(h, D) # Sum(f, D) + Sum(g, D)
  OBVIOUS
<1>3. D # {}
  <2>1. Sum(f, {}) = 0 /\ Sum(g, {}) = 0 /\ Sum(h, {}) = 0
    BY SumEmpty
  <2>2. Sum(h, {}) = Sum(f, {}) + Sum(g, {})
    BY <2>1
  <2> HIDE DEF Bad
  <2> QED
    BY <1>2, <2>2
<1>4. PICK x : x \in D
  BY <1>3
<1>5. /\ Sum(f, D) = f[x] + Sum(f, D \ {x})
      /\ Sum(g, D) = g[x] + Sum(g, D \ {x})
      /\ Sum(h, D) = h[x] + Sum(h, D \ {x})
  BY <1>0, <1>2, <1>4, SumRemove
<1>6. Sum(h, D \ {x}) = Sum(f, D \ {x}) + Sum(g, D \ {x})
  BY <1>1, <1>2, <1>4
<1>7. /\ f[x] \in Int /\ g[x] \in Int /\ h[x] = f[x] + g[x]
      /\ Sum(f, D \ {x}) \in Int /\ Sum(g, D \ {x}) \in Int
  BY <1>0, <1>2, <1>4
<1> HIDE DEF Bad
<1> QED
  BY <1>2, <1>5, <1>6, <1>7

LEMMA SumMonotone ==
    ASSUME NEW S, IsFiniteSet(S), NEW f, NEW g,
           \A x \in S : f[x] \in Int /\ g[x] \in Int /\ f[x] <= g[x]
    PROVE  Sum(f, S) <= Sum(g, S)
<1> DEFINE Bad == {D \in SUBSET S : ~(Sum(f, D) <= Sum(g, D))}
<1> SUFFICES ASSUME Bad # {} PROVE FALSE
  OBVIOUS
<1>0. \A D \in SUBSET S : IsFiniteSet(D) /\ Sum(f, D) \in Int /\ Sum(g, D) \in Int
  BY FS_Subset, SumInt
<1>1. PICK D \in Bad : \A x \in D : D \ {x} \notin Bad
  <2>1. \A D \in Bad : IsFiniteSet(D)
    BY <1>0
  <2> HIDE DEF Bad
  <2> QED
    BY <2>1, LeastSet
<1>2. D \in SUBSET S /\ ~(Sum(f, D) <= Sum(g, D))
  OBVIOUS
<1>3. D # {}
  <2>1. Sum(f, {}) = 0 /\ Sum(g, {}) = 0
    BY SumEmpty
  <2>2. Sum(f, {}) <= Sum(g, {})
    BY <2>1
  <2> HIDE DEF Bad
  <2> QED
    BY <1>2, <2>2
<1>4. PICK x : x \in D
  BY <1>3
<1>5. Sum(f, D) = f[x] + Sum(f, D \ {x}) /\ Sum(g, D) = g[x] + Sum(g, D \ {x})
  BY <1>0, <1>2, <1>4, SumRemove
<1>6. Sum(f, D \ {x}) <= Sum(g, D \ {x})
  BY <1>1, <1>2, <1>4
<1>7. /\ f[x] \in Int /\ g[x] \in Int /\ f[x] <= g[x]
      /\ Sum(f, D \ {x}) \in Int /\ Sum(g, D \ {x}) \in Int
  BY <1>0, <1>2, <1>4
<1> HIDE DEF Bad
<1> QED
  BY <1>2, <1>5, <1>6, <1>7

LEMMA Multiply ==
    ASSUME NEW n \in Int, NEW c \in Int
    PROVE  n * c = c + (n - 1) * c
OBVIOUS

LEMMA SumConstant ==
    ASSUME NEW S, IsFiniteSet(S), NEW f, NEW c \in Int, \A x \in S : f[x] = c
    PROVE  Sum(f, S) = Cardinality(S) * c
<1> DEFINE Bad == {D \in SUBSET S : Sum(f, D) # Cardinality(D) * c}
<1> SUFFICES ASSUME Bad # {} PROVE FALSE
  OBVIOUS
<1>0. \A D \in SUBSET S : IsFiniteSet(D) /\ Cardinality(D) \in Nat
  BY FS_Subset, FS_CardinalityType
<1>1. PICK D \in Bad : \A x \in D : D \ {x} \notin Bad
  <2>1. \A D \in Bad : IsFiniteSet(D)
    BY <1>0
  <2> HIDE DEF Bad
  <2> QED
    BY <2>1, LeastSet
<1>2. D \in SUBSET S /\ Sum(f, D) # Cardinality(D) * c
  OBVIOUS
<1>3. D # {}
  <2>1. Sum(f, {}) = 0 /\ Cardinality({}) = 0
    BY SumEmpty, FS_EmptySet
  <2>2. Sum(f, {}) = Cardinality({}) * c
    BY <2>1
  <2> HIDE DEF Bad
  <2> QED
    BY <1>2, <2>2
<1>4. PICK x : x \in D
  BY <1>3
<1>5. Sum(f, D) = c + Sum(f, D \ {x})
  BY <1>0, <1>2, <1>4, SumRemove
<1>6. Cardinality(D \ {x}) = Cardinality(D) - 1 /\ Cardinality(D) \in Nat
  BY <1>0, <1>2, <1>4, FS_RemoveElement
<1>7. Sum(f, D \ {x}) = (Cardinality(D) - 1) * c
  BY <1>1, <1>2, <1>4, <1>6
<1> HIDE DEF Bad
<1> QED
  BY <1>2, <1>5, <1>6, <1>7, Multiply

LEMMA SumZero ==
    ASSUME NEW S, IsFiniteSet(S), NEW f, \A x \in S : f[x] = 0
    PROVE  Sum(f, S) = 0
<1>1. 0 \in Int
  OBVIOUS
<1>2. Sum(f, S) = Cardinality(S) * 0
  BY <1>1, SumConstant
<1>3. Cardinality(S) \in Nat
  BY FS_CardinalityType
<1> QED
  BY <1>2, <1>3

-----------------------------------------------------------------------------
N == Cardinality(Staff)

\* What k professionals together may have at the least
Floor(k) == -((k * (N - k)) * MaxWeight)

\* The "currents" come to nothing, and no group of professionals is further
\* behind than the others can have got ahead.
Balanced(s) ==
    /\ s \in [Staff -> Int]
    /\ Sum(s, Staff) = 0
    /\ \A S \in SUBSET Staff : Floor(Cardinality(S)) <= Sum(s, S)

LEMMA TimesLeq ==
    ASSUME NEW a \in Int, NEW b \in Int, NEW c \in Nat, a <= b
    PROVE  c * a <= c * b
OBVIOUS

LEMMA TimesCancel ==
    ASSUME NEW a \in Int, NEW b \in Int, NEW c \in Nat, (1 + c) * a <= (1 + c) * b
    PROVE  a <= b
<1> SUFFICES ASSUME b + 1 <= a PROVE FALSE
  OBVIOUS
<1>1. (1 + c) * (b + 1) <= (1 + c) * a
  BY TimesLeq
<1> QED
  BY <1>1

\* a, x and b are what the others of a group, the chosen one and those of the
\* pool outside the group had; zu and zt the weights of the last two.
LEMMA FloorKept ==
    ASSUME N \in Nat, MaxWeight \in Nat,
           NEW a \in Int, NEW x \in Int, NEW b \in Int, NEW zu \in Int, NEW zt \in Int,
           NEW k \in Nat, NEW t \in Nat,
           zu <= MaxWeight, zt <= t * MaxWeight, b + zt <= t * (x + zu),
           Floor(k - 1) <= a, Floor(k + t) <= a + x + b
    PROVE  Floor(k) <= a + x - zt
<1>1. /\ t * zu <= t * MaxWeight
      /\ t * zt <= t * (t * MaxWeight)
  BY TimesLeq
<1>2. Floor(k - 1) \in Int /\ Floor(k + t) \in Int /\ Floor(k) \in Int
  BY DEF Floor
<1>3. t * Floor(k - 1) <= t * a
  BY <1>2, TimesLeq
<1>4. t * Floor(k - 1) + Floor(k + t) - t * MaxWeight - t * (t * MaxWeight)
        = (1 + t) * Floor(k)
  BY DEF Floor
<1>5. (1 + t) * (a + x - zt) = t * a + t * x + a + x - zt - t * zt
  OBVIOUS
<1>6. b + zt <= t * x + t * zu
  OBVIOUS
<1>7. (1 + t) * Floor(k) <= (1 + t) * (a + x - zt)
  <2>1. PICK ta, tx, tzu, tzt, tw, ttw, tf :
          /\ ta = t * a /\ tx = t * x /\ tzu = t * zu /\ tzt = t * zt
          /\ tw = t * MaxWeight /\ ttw = t * (t * MaxWeight) /\ tf = t * Floor(k - 1)
    OBVIOUS
  <2>2. /\ ta \in Int /\ tx \in Int /\ tzu \in Int /\ tzt \in Int
        /\ tw \in Int /\ ttw \in Int /\ tf \in Int
    BY <1>2, <2>1
  <2>3. tf + Floor(k + t) - tw - ttw <= ta + tx + a + x - zt - tzt
    BY <1>1, <1>2, <1>3, <1>6, <2>1, <2>2
  <2> QED
    BY <1>4, <1>5, <2>1, <2>3
<1> QED
  BY <1>2, <1>7, TimesCancel

LEMMA TurnsConstants ==
    ASSUME Turns!RoundRobinAssumption
    PROVE  /\ Staff \subseteq Nat /\ IsFiniteSet(Staff) /\ N \in Nat
           /\ MaxWeight \in Nat /\ MaxLost \in Nat
           /\ \A weights \in WeightMaps : weights \in [Staff -> 0..MaxWeight]
           /\ \A S \in SUBSET Staff : IsFiniteSet(S) /\ Cardinality(S) \in Nat
           /\ Bound = (N - 1) * MaxWeight
<1>1. /\ Staff \subseteq Nat /\ IsFiniteSet(Staff)
      /\ MaxWeight \in Nat /\ MaxLost \in Nat
      /\ \A weights \in WeightMaps : weights \in [Staff -> 0..MaxWeight]
  BY DEF Turns!RoundRobinAssumption, Turns!IsFiniteSet, IsFiniteSet
<1>2. \A S \in SUBSET Staff : IsFiniteSet(S) /\ Cardinality(S) \in Nat
  BY <1>1, FS_Subset, FS_CardinalityType
<1>3. Bound = (N - 1) * MaxWeight
  BY DEF Bound, N
<1> QED
  BY <1>1, <1>2, <1>3, FS_CardinalityType DEF N

\* One of the pool is ahead of all, by its id where the "currents" are equal.
LEMMA ChosenIsAhead ==
    ASSUME Turns!RoundRobinAssumption, NEW raised \in [Staff -> Int],
           NEW pool \in SUBSET Staff, pool # {}
    PROVE  LET u == Turns!Chosen(raised, pool)
           IN  u \in pool /\ \A v \in pool : raised[v] <= raised[u]
<1> DEFINE Ahead(u, D) == \A v \in D :
             raised[v] < raised[u] \/ (raised[v] = raised[u] /\ u <= v)
           Bad == {D \in SUBSET pool : D # {} /\ ~\E u \in D : Ahead(u, D)}
<1>0. pool \subseteq Nat /\ \A v \in pool : raised[v] \in Int
  BY TurnsConstants
<1>1. Bad = {}
  <2> SUFFICES ASSUME Bad # {} PROVE FALSE
    OBVIOUS
  <2>1. PICK D \in Bad : \A x \in D : D \ {x} \notin Bad
    <3>1. \A D \in Bad : IsFiniteSet(D)
      BY TurnsConstants
    <3> HIDE DEF Bad
    <3> QED
      BY <3>1, LeastSet
  <2>2. D \in SUBSET pool /\ D # {} /\ ~\E u \in D : Ahead(u, D)
    OBVIOUS
  <2>3. PICK x : x \in D
    BY <2>2
  <2>4. CASE D \ {x} = {}
    <3>1. D = {x} /\ raised[x] = raised[x] /\ x <= x
      BY <1>0, <2>2, <2>3, <2>4
    <3>2. Ahead(x, D)
      BY <3>1
    <3> QED
      BY <2>2, <2>3, <3>2
  <2>5. CASE D \ {x} # {}
    <3>1. PICK w \in D \ {x} : Ahead(w, D \ {x})
      <4>1. D \ {x} \in SUBSET pool /\ D \ {x} \notin Bad
        BY <2>1, <2>2, <2>3
      <4> QED
        BY <2>5, <4>1
    <3>2. /\ w \in Nat /\ x \in Nat /\ raised[w] \in Int /\ raised[x] \in Int
          /\ \A v \in D : v \in Nat /\ raised[v] \in Int
      BY <1>0, <2>2, <2>3
    <3>3. CASE raised[x] < raised[w] \/ (raised[x] = raised[w] /\ w <= x)
      <4>1. Ahead(w, D)
        BY <3>1, <3>3
      <4> QED
        BY <2>2, <4>1
    <3>4. CASE raised[w] < raised[x] \/ (raised[w] = raised[x] /\ x <= w)
      <4>1. \A v \in D \ {x} : raised[v] < raised[x] \/ (raised[v] = raised[x] /\ x <= v)
        BY <3>1, <3>2, <3>4
      <4>2. x <= x
        BY <3>2
      <4>3. Ahead(x, D)
        BY <4>1, <4>2
      <4> QED
        BY <2>2, <2>3, <4>3
    <3> QED
      BY <3>2, <3>3, <3>4
  <2> QED
    BY <2>4, <2>5
<1>2. \E u \in pool : Ahead(u, pool)
  BY <1>1
<1>3. PICK u : u = Turns!Chosen(raised, pool)
  OBVIOUS
<1>4. u \in pool /\ Ahead(u, pool)
  BY <1>2, <1>3 DEF Turns!Chosen
<1>5. \A v \in pool : raised[v] <= raised[u]
  BY <1>0, <1>4
<1> QED
  BY <1>3, <1>4, <1>5

\* What the members of the pool are raised by
Raise(pool, weights) == [u \in Staff |-> IF u \in pool THEN weights[u] ELSE 0]

LEMMA RaisedSum ==
    ASSUME Turns!RoundRobinAssumption, NEW pool \in SUBSET Staff, NEW weights \in WeightMaps
    PROVE  LET z == Raise(pool, weights)
           IN  /\ \A x \in Staff : z[x] \in Int /\ 0 <= z[x] /\ z[x] <= MaxWeight
               /\ \A S \in SUBSET Staff :
                    /\ Sum(z, S) = Sum(z, S \intersect pool)
                    /\ 0 <= Sum(z, S)
               /\ Turns!Total(pool, weights) = Sum(z, Staff)
<1> DEFINE z == Raise(pool, weights)
<1>0. MaxWeight \in Nat /\ weights \in [Staff -> 0..MaxWeight]
  BY TurnsConstants
<1>1. \A x \in Staff : z[x] \in Int /\ 0 <= z[x] /\ z[x] <= MaxWeight
  BY <1>0 DEF Raise
<1>2. \A S \in SUBSET Staff : IsFiniteSet(S) /\ Cardinality(S) \in Nat
  BY TurnsConstants
<1>3. \A x \in Staff : z[x] = IF x \in pool THEN weights[x] ELSE 0
  BY DEF Raise
<1> HIDE DEF z
<1>4. ASSUME NEW S \in SUBSET Staff
      PROVE  Sum(z, S) = Sum(z, S \intersect pool) /\ 0 <= Sum(z, S)
  <2> DEFINE A == S \intersect pool
  <2>1. A \subseteq S /\ IsFiniteSet(S) /\ IsFiniteSet(A) /\ IsFiniteSet(S \ A)
    BY <1>2, FS_Subset
  <2>2. \A x \in S : z[x] \in Int /\ 0 <= z[x]
    BY <1>1
  <2>3. Sum(z, S \ A) = 0
    <3>1. \A x \in S \ A : z[x] = 0
      BY <1>3
    <3> QED
      BY <2>1, <3>1, SumZero
  <2>4. Sum(z, S) = Sum(z, A) + Sum(z, S \ A)
    BY <2>1, <2>2, SumUnion
  <2>5. Sum(z, A) \in Int
    BY <2>1, <2>2, SumInt
  <2>6. PICK o : o = [x \in S |-> 0]
    OBVIOUS
  <2>7. Sum(o, S) <= Sum(z, S)
    <3>1. \A x \in S : o[x] \in Int /\ z[x] \in Int /\ o[x] <= z[x]
      BY <2>2, <2>6
    <3> QED
      BY <2>1, <3>1, SumMonotone
  <2>8. Sum(o, S) = 0
    <3>1. \A x \in S : o[x] = 0
      BY <2>6
    <3> QED
      BY <2>1, <3>1, SumZero
  <2> QED
    BY <2>3, <2>4, <2>5, <2>7, <2>8
<1>5. Turns!Total(pool, weights) = Sum(z, Staff)
  <2>1. Staff \intersect pool = pool /\ Staff \in SUBSET Staff
    OBVIOUS
  <2>2. Sum(z, pool) = Sum(weights, pool)
    <3>1. \A x \in pool : z[x] = weights[x] /\ z[x] \in Int
      BY <1>1, <1>3
    <3> QED
      BY <1>2, <3>1, SumSame
  <2>3. Sum(z, Staff) = Sum(z, pool)
    BY <1>4, <2>1
  <2> QED
    BY <2>2, <2>3 DEF Sum
<1> QED
  BY <1>1, <1>4, <1>5 DEF z

\* A pick takes the weights of all from the one who is ahead, whom the others
\* of the pool cannot have left behind: the "currents" stay balanced.
LEMMA PickBalances ==
    ASSUME Turns!RoundRobinAssumption, NEW s, Balanced(s), NEW pool \in SUBSET Staff,
           pool # {}, NEW weights \in WeightMaps
    PROVE  LET r == Turns!Raised(s, pool, weights)
               u == Turns!Chosen(r, pool)
           IN  Balanced(Turns!Paid(r, u, pool, weights))
<1>0. /\ N \in Nat /\ MaxWeight \in Nat
      /\ weights \in [Staff -> 0..MaxWeight] /\ s \in [Staff -> Int]
      /\ \A x \in Staff : s[x] \in Int
  BY TurnsConstants DEF Balanced
<1>1. PICK z : z = Raise(pool, weights)
  OBVIOUS
<1>2. PICK r : r = Turns!Raised(s, pool, weights)
  OBVIOUS
<1>3. PICK u : u = Turns!Chosen(r, pool)
  OBVIOUS
<1>4. PICK zp : zp = Sum(z, Staff)
  OBVIOUS
<1>5. PICK e : e = [v \in Staff |-> IF v = u THEN -zp ELSE 0]
  OBVIOUS
<1>6. PICK next : next = Turns!Paid(r, u, pool, weights)
  OBVIOUS
<1>7. \A x \in Staff : z[x] \in Int /\ 0 <= z[x] /\ z[x] <= MaxWeight
  BY <1>1, RaisedSum
<1>8. r \in [Staff -> Int] /\ \A x \in Staff : r[x] = s[x] + z[x]
  <2>1. r = [x \in Staff |-> IF x \in pool THEN s[x] + weights[x] ELSE s[x]]
    BY <1>2 DEF Turns!Raised
  <2>2. \A x \in Staff : z[x] = IF x \in pool THEN weights[x] ELSE 0
    BY <1>1 DEF Raise
  <2>3. \A x \in Staff : r[x] = s[x] + z[x]
    BY <1>0, <2>1, <2>2
  <2> QED
    BY <1>0, <1>7, <2>1, <2>3
<1>9. u \in pool /\ u \in Staff /\ \A v \in pool : r[v] <= r[u]
  BY <1>3, <1>8, ChosenIsAhead
<1>12. \A S \in SUBSET Staff : IsFiniteSet(S) /\ Cardinality(S) \in Nat
  BY TurnsConstants
<1>10. zp \in Int
  BY <1>4, <1>7, <1>12, SumInt
<1>11. /\ next \in [Staff -> Int]
       /\ \A x \in Staff : e[x] \in Int /\ next[x] = r[x] + e[x]
  <2>1. Turns!Total(pool, weights) = zp
    BY <1>1, <1>4, RaisedSum
  <2>2. next = [r EXCEPT ![u] = @ - zp]
    BY <1>6, <2>1 DEF Turns!Paid
  <2>3. \A x \in Staff : e[x] \in Int /\ r[x] \in Int
    BY <1>5, <1>8, <1>10
  <2>4. \A x \in Staff : next[x] = r[x] + e[x]
    <3> TAKE x \in Staff
    <3>1. CASE x = u
      <4>1. next[x] = r[x] - zp /\ e[x] = -zp
        BY <1>5, <1>8, <2>2, <3>1
      <4> QED
        BY <1>10, <2>3, <4>1
    <3>2. CASE x # u
      <4>1. next[x] = r[x] /\ e[x] = 0
        BY <1>5, <1>8, <2>2, <3>2
      <4> QED
        BY <2>3, <4>1
    <3> QED
      BY <3>1, <3>2
  <2>5. next \in [Staff -> Int]
    BY <1>8, <1>9, <1>10, <2>2
  <2> QED
    BY <2>3, <2>4, <2>5
<1>13. \A S \in SUBSET Staff : \A x \in S :
         s[x] \in Int /\ z[x] \in Int /\ e[x] \in Int /\ r[x] \in Int /\ r[x] = s[x] + z[x]
  BY <1>0, <1>7, <1>8, <1>11
<1>14. \A S \in SUBSET Staff :
         Sum(s, S) \in Int /\ Sum(z, S) \in Int /\ Sum(e, S) \in Int /\ Sum(r, S) \in Int
  BY <1>12, <1>13, SumInt
<1>15. \A S \in SUBSET Staff : Sum(e, S) = IF u \in S THEN -zp ELSE 0
  <2> TAKE S \in SUBSET Staff
  <2>1. IsFiniteSet(S \ {u}) /\ \A x \in S \ {u} : e[x] = 0
    BY <1>5, <1>12
  <2>3. Sum(e, S \ {u}) = 0
    BY <2>1, SumZero
  <2>4. CASE u \in S
    <3>1. Sum(e, S) = e[u] + Sum(e, S \ {u})
      BY <1>12, <1>13, <2>4, SumRemove
    <3>2. e[u] = -zp
      BY <1>5, <1>9
    <3> QED
      BY <1>10, <2>3, <2>4, <3>1, <3>2
  <2>5. CASE u \notin S
    <3>1. S \ {u} = S
      BY <2>5
    <3> QED
      BY <2>3, <2>5, <3>1
  <2> QED
    BY <2>4, <2>5
<1>16. \A S \in SUBSET Staff : Sum(r, S) = Sum(s, S) + Sum(z, S)
  BY <1>12, <1>13, SumPlus
<1>17. \A S \in SUBSET Staff : Sum(next, S) = Sum(r, S) + Sum(e, S)
  <2> TAKE S \in SUBSET Staff
  <2>1. \A x \in S : r[x] \in Int /\ e[x] \in Int /\ next[x] = r[x] + e[x]
    BY <1>11, <1>13
  <2> QED
    BY <1>12, <2>1, SumPlus
<1>18. Sum(next, Staff) = 0
  <2>1. Sum(s, Staff) = 0 /\ Staff \in SUBSET Staff
    BY DEF Balanced
  <2> QED
    BY <1>4, <1>9, <1>10, <1>15, <1>16, <1>17, <2>1
<1>19. ASSUME NEW S \in SUBSET Staff, u \notin S
       PROVE  Floor(Cardinality(S)) <= Sum(next, S)
  <2>1. Sum(next, S) = Sum(s, S) + Sum(z, S)
    BY <1>14, <1>15, <1>16, <1>17, <1>19
  <2>2. 0 <= Sum(z, S)
    BY <1>1, RaisedSum
  <2>3. Floor(Cardinality(S)) <= Sum(s, S) /\ Floor(Cardinality(S)) \in Int
    BY <1>0, <1>12 DEF Balanced, Floor
  <2> QED
    BY <1>14, <2>1, <2>2, <2>3
<1>20. ASSUME NEW S \in SUBSET Staff, u \in S
       PROVE  Floor(Cardinality(S)) <= Sum(next, S)
  <2> DEFINE A == S \ {u}
             T == pool \ S
             k == Cardinality(S)
             t == Cardinality(T)
  <2>1. /\ A \in SUBSET Staff /\ T \in SUBSET Staff /\ S \union T \in SUBSET Staff
        /\ IsFiniteSet(S) /\ IsFiniteSet(A) /\ IsFiniteSet(T) /\ IsFiniteSet(S \union T)
        /\ k \in Nat /\ t \in Nat
    <3>1. A \in SUBSET Staff /\ T \in SUBSET Staff /\ S \union T \in SUBSET Staff
      OBVIOUS
    <3> HIDE DEF A, T
    <3> QED
      BY <1>12, <3>1
  <2>2. Cardinality(A) = k - 1 /\ Cardinality(S \union T) = k + t
    <3>1. S \intersect T = {}
      OBVIOUS
    <3>2. Cardinality(S \union T) = k + t
      <4>1. Cardinality(S \intersect T) = 0
        BY <3>1, FS_EmptySet
      <4>2. Cardinality(S \union T) = k + t - Cardinality(S \intersect T)
        BY <2>1, FS_Union
      <4> HIDE DEF k, t
      <4> QED
        BY <2>1, <4>1, <4>2
    <3> QED
      BY <1>20, <2>1, <3>2, FS_RemoveElement
  <2>3. Sum(s, S) = s[u] + Sum(s, A)
    BY <1>13, <1>20, <2>1, SumRemove
  <2>4. Sum(s, S \union T) = Sum(s, S) + Sum(s, T)
    <3>1. (S \union T) \ S = T /\ S \subseteq S \union T
      OBVIOUS
    <3>2. Sum(s, S \union T) = Sum(s, S) + Sum(s, (S \union T) \ S)
      BY <1>13, <2>1, <3>1, SumUnion
    <3> QED
      BY <3>1, <3>2
  <2>5. zp = Sum(z, S) + Sum(z, T)
    <3>1. zp = Sum(z, S) + Sum(z, Staff \ S)
      BY <1>4, <1>7, <1>12, SumUnion
    <3>2. (Staff \ S) \intersect pool = T /\ Staff \ S \in SUBSET Staff
      OBVIOUS
    <3>3. Sum(z, Staff \ S) = Sum(z, (Staff \ S) \intersect pool)
      BY <1>1, <3>2, RaisedSum
    <3> QED
      BY <3>1, <3>2, <3>3
  <2>6. Sum(next, S) = Sum(s, S) - Sum(z, T)
    <3>1. Sum(next, S) = Sum(s, S) + Sum(z, S) + Sum(e, S) /\ Sum(e, S) = -zp
      BY <1>15, <1>16, <1>17, <1>20
    <3>2. Sum(s, S) \in Int /\ Sum(z, S) \in Int /\ Sum(z, T) \in Int
      BY <1>14, <2>1
    <3> HIDE DEF A, T
    <3> QED
      BY <1>10, <2>5, <3>1, <3>2
  <2>7. Sum(z, T) <= t * MaxWeight
    <3>1. PICK c : c = [x \in T |-> MaxWeight]
      OBVIOUS
    <3>2. \A x \in T : z[x] \in Int /\ c[x] \in Int /\ z[x] <= c[x]
      BY <1>0, <1>7, <3>1
    <3>3. Sum(z, T) <= Sum(c, T)
      BY <2>1, <3>2, SumMonotone
    <3>4. (\A x \in T : c[x] = MaxWeight) /\ MaxWeight \in Int
      BY <1>0, <3>1
    <3>5. Sum(c, T) = t * MaxWeight
      BY <2>1, <3>4, SumConstant
    <3> QED
      BY <3>3, <3>5
  <2>8. Sum(s, T) + Sum(z, T) <= t * (s[u] + z[u])
    <3>1. PICK c : c = [x \in T |-> r[u]]
      OBVIOUS
    <3>2. \A x \in T : r[x] \in Int /\ c[x] \in Int /\ r[x] <= c[x]
      BY <1>8, <1>9, <3>1
    <3>3. Sum(r, T) <= Sum(c, T)
      BY <2>1, <3>2, SumMonotone
    <3>4. (\A x \in T : c[x] = r[u]) /\ r[u] \in Int /\ r[u] = s[u] + z[u]
      BY <1>8, <1>9, <3>1
    <3>5. Sum(c, T) = t * r[u]
      BY <2>1, <3>4, SumConstant
    <3>6. Sum(r, T) = Sum(s, T) + Sum(z, T)
      BY <1>16, <2>1
    <3> QED
      BY <3>3, <3>4, <3>5, <3>6
  <2>9. Floor(k - 1) <= Sum(s, A) /\ Floor(k + t) <= Sum(s, A) + s[u] + Sum(s, T)
    <3>1. /\ Floor(Cardinality(A)) <= Sum(s, A)
          /\ Floor(Cardinality(S \union T)) <= Sum(s, S \union T)
      BY <2>1 DEF Balanced
    <3>2. Sum(s, S \union T) = Sum(s, A) + s[u] + Sum(s, T)
      <4>1. s[u] \in Int /\ Sum(s, A) \in Int /\ Sum(s, T) \in Int
        BY <1>0, <1>9, <1>14, <2>1
      <4> HIDE DEF A, T
      <4> QED
        BY <2>3, <2>4, <4>1
    <3> HIDE DEF A, T, k, t
    <3> QED
      BY <2>2, <3>1, <3>2
  <2>10. PICK a, x, b, zu, zt :
           /\ a = Sum(s, A) /\ x = s[u] /\ b = Sum(s, T) /\ zu = z[u] /\ zt = Sum(z, T)
    OBVIOUS
  <2>11. /\ a \in Int /\ x \in Int /\ b \in Int /\ zu \in Int /\ zt \in Int
         /\ zu <= MaxWeight
    BY <1>0, <1>7, <1>9, <1>14, <2>1, <2>10
  <2> HIDE DEF A, T, k, t
  <2>12. Floor(k) <= a + x - zt
    BY <1>0, <2>1, <2>7, <2>8, <2>9, <2>10, <2>11, FloorKept
  <2>13. Sum(next, S) = a + x - zt
    BY <2>3, <2>6, <2>10, <2>11
  <2> QED
    BY <2>12, <2>13 DEF k
<1>21. Balanced(next)
  BY <1>11, <1>18, <1>19, <1>20 DEF Balanced
<1> QED
  BY <1>2, <1>3, <1>6, <1>21

\* Nobody is more than the bound ahead or behind.
LEMMA BalancedBounds ==
    ASSUME Turns!RoundRobinAssumption, NEW s, Balanced(s), NEW u \in Staff
    PROVE  -Bound <= s[u] /\ s[u] <= Bound
<1>0. /\ IsFiniteSet(Staff) /\ N \in Nat /\ MaxWeight \in Nat
      /\ Bound = (N - 1) * MaxWeight
      /\ \A x \in Staff : s[x] \in Int
  BY TurnsConstants DEF Balanced
<1>1. Cardinality({u}) = 1 /\ Cardinality(Staff \ {u}) = N - 1
  BY <1>0, FS_Singleton, FS_RemoveElement DEF N
<1>2. Floor(1) = -Bound /\ Floor(N - 1) = -Bound /\ Bound \in Int
  <2>1. 1 * (N - 1) = N - 1 /\ (N - 1) * (N - (N - 1)) = N - 1
    BY <1>0
  <2> QED
    BY <1>0, <2>1 DEF Floor
<1>3. Sum(s, Staff) = s[u] + Sum(s, Staff \ {u})
  BY <1>0, SumRemove
<1>4. Sum(s, {u}) = s[u]
  <2>1. IsFiniteSet({u}) /\ {u} \ {u} = {} /\ s[u] \in Int
    BY <1>0, FS_Singleton
  <2>2. Sum(s, {u}) = s[u] + Sum(s, {u} \ {u})
    BY <2>1, SumRemove
  <2>3. Sum(s, {u} \ {u}) = 0
    BY <2>1, SumEmpty
  <2> QED
    BY <2>1, <2>2, <2>3
<1>5. Floor(1) <= s[u] /\ Floor(N - 1) <= Sum(s, Staff \ {u}) /\ Sum(s, Staff) = 0
  BY <1>1, <1>4 DEF Balanced
<1>6. Sum(s, Staff \ {u}) \in Int /\ s[u] \in Int
  <2>1. IsFiniteSet(Staff \ {u}) /\ \A x \in Staff \ {u} : s[x] \in Int
    BY <1>0, FS_Subset
  <2> QED
    BY <1>0, <2>1, SumInt
<1> QED
  BY <1>2, <1>3, <1>5, <1>6

LEMMA ZeroBalanced ==
    ASSUME Turns!RoundRobinAssumption
    PROVE  Balanced(Turns!Zero)
<1>0. IsFiniteSet(Staff) /\ N \in Nat /\ MaxWeight \in Nat
  BY TurnsConstants
<1>1. \A S \in SUBSET Staff : IsFiniteSet(S) /\ Cardinality(S) \in Nat /\ Cardinality(S) <= N
  BY <1>0, TurnsConstants, FS_Subset DEF N
<1>2. \A S \in SUBSET Staff : Sum(Turns!Zero, S) = 0
  <2> TAKE S \in SUBSET Staff
  <2>1. \A x \in S : Turns!Zero[x] = 0
    BY DEF Turns!Zero
  <2> QED
    BY <1>1, <2>1, SumZero
<1>3. \A k \in Nat : k <= N => Floor(k) <= 0
  <2> TAKE k \in Nat
  <2> HAVE k <= N
  <2>1. N - k \in Nat
    BY <1>0
  <2>2. PICK m \in Nat : m = k * (N - k)
    BY <2>1
  <2>3. m * MaxWeight \in Nat
    BY <1>0
  <2> QED
    BY <2>2, <2>3 DEF Floor
<1>4. Turns!Zero \in [Staff -> Int]
  BY DEF Turns!Zero
<1> QED
  BY <1>1, <1>2, <1>3, <1>4 DEF Balanced

\* A turn is what the pick has changed, and is no more than the bound.
LEMMA TurnBounds ==
    ASSUME Turns!RoundRobinAssumption, NEW s \in [Staff -> Int],
           NEW pool \in SUBSET Staff, NEW u \in pool, NEW weights \in WeightMaps
    PROVE  LET next == Turns!Paid(Turns!Raised(s, pool, weights), u, pool, weights)
               turn == Turns!Paid(Turns!Raised(Turns!Zero, pool, weights), u, pool, weights)
           IN  /\ turn \in [Staff -> Int]
               /\ \A x \in Staff :
                    /\ next[x] = s[x] + turn[x]
                    /\ -Bound <= turn[x] /\ turn[x] <= Bound
<1>0. /\ IsFiniteSet(Staff) /\ N \in Nat /\ MaxWeight \in Nat
      /\ Bound = (N - 1) * MaxWeight
      /\ weights \in [Staff -> 0..MaxWeight]
      /\ \A x \in Staff : s[x] \in Int
  BY TurnsConstants
<1>1. PICK z : z = Raise(pool, weights)
  OBVIOUS
<1>2. PICK zp : zp = Sum(z, Staff)
  OBVIOUS
<1>3. \A x \in Staff : z[x] \in Int /\ 0 <= z[x] /\ z[x] <= MaxWeight
  BY <1>1, RaisedSum
<1>4. u \in Staff /\ zp \in Int /\ Turns!Total(pool, weights) = zp
  <2>1. zp \in Int
    BY <1>0, <1>2, <1>3, SumInt
  <2> QED
    BY <1>1, <1>2, <2>1, RaisedSum
<1>5. zp = z[u] + Sum(z, Staff \ {u})
  BY <1>0, <1>2, <1>3, <1>4, SumRemove
<1>6. PICK rest : rest = Sum(z, Staff \ {u})
  OBVIOUS
<1>7. rest \in Int /\ 0 <= rest /\ rest <= (N - 1) * MaxWeight
  <2>1. IsFiniteSet(Staff \ {u}) /\ Staff \ {u} \in SUBSET Staff
    BY <1>0, FS_Subset
  <2>2. Cardinality(Staff \ {u}) = N - 1
    BY <1>0, <1>4, FS_RemoveElement DEF N
  <2>3. PICK c : c = [x \in Staff \ {u} |-> MaxWeight]
    OBVIOUS
  <2>4. \A x \in Staff \ {u} : z[x] \in Int /\ c[x] \in Int /\ z[x] <= c[x]
    BY <1>0, <1>3, <2>3
  <2>5. rest <= Sum(c, Staff \ {u})
    BY <1>6, <2>1, <2>4, SumMonotone
  <2>6. Sum(c, Staff \ {u}) = Cardinality(Staff \ {u}) * MaxWeight
    <3>1. MaxWeight \in Int /\ \A x \in Staff \ {u} : c[x] = MaxWeight
      BY <1>0, <2>3
    <3> QED
      BY <2>1, <3>1, SumConstant
  <2>7. rest \in Int
    BY <1>6, <2>1, <2>4, SumInt
  <2>8. 0 <= rest
    BY <1>1, <1>6, <2>1, RaisedSum
  <2> QED
    BY <2>2, <2>5, <2>6, <2>7, <2>8
<1>8. PICK turn, next :
        /\ turn = Turns!Paid(Turns!Raised(Turns!Zero, pool, weights), u, pool, weights)
        /\ next = Turns!Paid(Turns!Raised(s, pool, weights), u, pool, weights)
  OBVIOUS
<1>9. /\ turn = [x \in Staff |-> turn[x]]
      /\ \A x \in Staff :
           /\ x = u => turn[x] = z[x] - zp /\ next[x] = s[x] + z[x] - zp
           /\ x # u => turn[x] = z[x] /\ next[x] = s[x] + z[x]
  <2>1. PICK a, b : /\ a = Turns!Raised(Turns!Zero, pool, weights)
                    /\ b = Turns!Raised(s, pool, weights)
    OBVIOUS
  <2>2. turn = [a EXCEPT ![u] = @ - zp] /\ next = [b EXCEPT ![u] = @ - zp]
    BY <1>4, <1>8, <2>1 DEF Turns!Paid
  <2>3. \A x \in Staff : z[x] = IF x \in pool THEN weights[x] ELSE 0
    BY <1>1 DEF Raise
  <2>4. /\ a = [x \in Staff |-> IF x \in pool THEN Turns!Zero[x] + weights[x] ELSE Turns!Zero[x]]
        /\ b = [x \in Staff |-> IF x \in pool THEN s[x] + weights[x] ELSE s[x]]
        /\ \A x \in Staff : Turns!Zero[x] = 0
    BY <2>1 DEF Turns!Raised, Turns!Zero
  <2>5. \A x \in Staff : a[x] = z[x] /\ b[x] = s[x] + z[x]
    BY <1>0, <1>3, <2>3, <2>4
  <2>6. DOMAIN a = Staff /\ DOMAIN b = Staff
    BY <2>4
  <2>7. /\ turn = [x \in Staff |-> turn[x]]
        /\ \A x \in Staff : /\ turn[x] = IF x = u THEN a[x] - zp ELSE a[x]
                            /\ next[x] = IF x = u THEN b[x] - zp ELSE b[x]
    BY <2>2, <2>6
  <2>8. ASSUME NEW x \in Staff
        PROVE  /\ x = u => turn[x] = z[x] - zp /\ next[x] = s[x] + z[x] - zp
               /\ x # u => turn[x] = z[x] /\ next[x] = s[x] + z[x]
    <3>1. a[x] = z[x] /\ b[x] = s[x] + z[x]
      BY <2>5
    <3>2. ASSUME x = u PROVE turn[x] = z[x] - zp /\ next[x] = s[x] + z[x] - zp
      <4>1. turn[x] = a[x] - zp /\ next[x] = b[x] - zp
        BY <2>7, <3>2
      <4> QED
        BY <1>0, <1>3, <1>4, <3>1, <4>1
    <3>3. ASSUME x # u PROVE turn[x] = z[x] /\ next[x] = s[x] + z[x]
      <4>1. turn[x] = a[x] /\ next[x] = b[x]
        BY <2>7, <3>3
      <4> QED
        BY <3>1, <4>1
    <3> QED
      BY <3>2, <3>3
  <2> QED
    BY <2>7, <2>8
<1>10. Bound \in Int
  BY <1>0
<1>11. ASSUME NEW x \in Staff
       PROVE  /\ turn[x] \in Int
              /\ next[x] = s[x] + turn[x]
              /\ -Bound <= turn[x] /\ turn[x] <= Bound
  <2>1. s[x] \in Int /\ z[x] \in Int /\ 0 <= z[x] /\ z[x] <= MaxWeight
    BY <1>0, <1>3
  <2>2. CASE x = u
    <3>1. turn[x] = z[x] - zp /\ next[x] = s[x] + z[x] - zp /\ zp = z[x] + rest
      BY <1>5, <1>6, <1>9, <2>2
    <3>2. turn[x] = -rest
      BY <1>7, <2>1, <3>1
    <3>3. next[x] = s[x] + turn[x]
      BY <1>4, <2>1, <3>1
    <3> QED
      BY <1>0, <1>7, <1>10, <3>2, <3>3
  <2>3. CASE x # u
    <3>1. turn[x] = z[x] /\ next[x] = s[x] + z[x]
      BY <1>9, <2>3
    <3>2. MaxWeight <= (N - 1) * MaxWeight
      <4>1. 2 <= N
        <5>1. IsFiniteSet({x}) /\ Cardinality({x}) = 1 /\ u \notin {x}
          BY <2>3, FS_Singleton
        <5>2. Cardinality({x} \union {u}) = Cardinality({x}) + 1
          BY <5>1, FS_AddElement
        <5>3. {x} \union {u} \in SUBSET Staff
          BY <1>4
        <5>4. Cardinality({x} \union {u}) <= N
          BY <1>0, <5>3, FS_Subset DEF N
        <5> QED
          BY <5>1, <5>2, <5>4
      <4>2. PICK j \in Nat : N - 1 = 1 + j
        <5>1. N - 2 \in Nat /\ N - 1 = 1 + (N - 2)
          BY <1>0, <4>1
        <5> QED
          BY <5>1
      <4>3. (1 + j) * MaxWeight = MaxWeight + j * MaxWeight /\ j * MaxWeight \in Nat
        BY <1>0
      <4> QED
        BY <1>0, <4>2, <4>3
    <3> QED
      BY <1>0, <1>10, <2>1, <3>1, <3>2
  <2> QED
    BY <2>2, <2>3
<1> QED
  BY <1>8, <1>9, <1>11

-----------------------------------------------------------------------------
\* f is no further from g than the slack.
Near(f, g, slack) ==
    \A u \in Staff : -slack <= f[u] - g[u] /\ f[u] - g[u] <= slack

\* What a pick about to be saved had read
Base(p) == [u \in Staff |-> pick[p].next[u] - pick[p].turn[u]]

\* The value in Redis is balanced, and no more turns are missing from it than
\* those of the picks that were lost; from what a picker has read, no more than
\* those lost and those written since.
TurnsInv ==
    /\ Balanced(state) /\ owed \in [Staff -> Int] /\ lost \in Nat
    /\ writes \in [Pickers -> Nat]
    /\ Near(owed, state, lost * Bound)
    /\ pick = [p \in Pickers |-> pick[p]]
    /\ \A p \in Pickers : pick[p].at = "save" =>
         /\ Balanced(pick[p].next)
         /\ pick[p].turn \in [Staff -> Int]
         /\ Near(pick[p].turn, Turns!Zero, Bound)
         /\ writes[p] <= MaxLost =>
              Near(owed, Base(p), (lost + writes[p]) * Bound)

LEMMA BoundSign ==
    ASSUME Turns!RoundRobinAssumption
    PROVE  Bound \in Int /\ \A u \in Staff : Bound \in Nat
<1>1. N \in Nat /\ MaxWeight \in Nat /\ Bound = (N - 1) * MaxWeight
  BY TurnsConstants
<1>2. \A u \in Staff : N - 1 \in Nat
  <2>1. \A u \in Staff : N # 0
    BY TurnsConstants, FS_EmptySet DEF N
  <2> QED
    BY <1>1, <2>1
<1> QED
  BY <1>1, <1>2

\* More turns leave more slack.
LEMMA MoreSlack ==
    ASSUME NEW B \in Nat, NEW a \in Nat, NEW b \in Nat, a <= b
    PROVE  a * B <= b * B /\ (a + 1) * B = a * B + B /\ a * B \in Nat /\ b * B \in Nat
<1>1. PICK d \in Nat : b = a + d
  <2>1. b - a \in Nat /\ b = a + (b - a)
    OBVIOUS
  <2> QED
    BY <2>1
<1>2. b * B = a * B + d * B /\ d * B \in Nat /\ a * B \in Nat
  BY <1>1
<1> QED
  BY <1>2

LEMMA TurnsInit ==
    ASSUME Turns!RoundRobinAssumption, Turns!Init
    PROVE  TurnsInv
<1>1. /\ state = Turns!Zero /\ owed = Turns!Zero /\ lost = 0
      /\ pick = [p \in Pickers |-> [at |-> "idle"]] /\ writes = [p \in Pickers |-> 0]
  BY DEF Turns!Init
<1>2. Balanced(state) /\ owed \in [Staff -> Int]
  BY <1>1, ZeroBalanced DEF Turns!Zero
<1>3. Near(owed, state, lost * Bound)
  <2>1. lost * Bound = 0
    BY <1>1, BoundSign
  <2>2. \A u \in Staff : owed[u] - state[u] = 0
    BY <1>1 DEF Turns!Zero
  <2> QED
    BY <2>1, <2>2 DEF Near
<1>4. \A p \in Pickers : pick[p].at # "save"
  BY <1>1
<1>5. writes \in [Pickers -> Nat] /\ pick = [p \in Pickers |-> pick[p]] /\ lost \in Nat
  BY <1>1
<1> QED
  BY <1>2, <1>3, <1>4, <1>5 DEF TurnsInv

LEMMA TurnsRead ==
    ASSUME Turns!RoundRobinAssumption, TurnsInv, NEW p \in Pickers, Turns!Read(p)
    PROVE  TurnsInv'
<1>1. PICK eligible \in (SUBSET Staff) \ {{}}, weights \in WeightMaps :
        LET pool == Turns!Pool(eligible, weights)
            raised == Turns!Raised(state, pool, weights)
            u == Turns!Chosen(raised, pool)
        IN /\ pool # {}
           /\ pick' = [pick EXCEPT ![p] =
                 [at |-> "save", next |-> Turns!Paid(raised, u, pool, weights),
                  turn |-> Turns!Paid(Turns!Raised(Turns!Zero, pool, weights), u, pool, weights)]]
  BY DEF Turns!Read
<1>2. PICK pool : pool = Turns!Pool(eligible, weights)
  OBVIOUS
<1>3. PICK raised : raised = Turns!Raised(state, pool, weights)
  OBVIOUS
<1>4. PICK u : u = Turns!Chosen(raised, pool)
  OBVIOUS
<1>5. PICK next, turn :
        /\ next = Turns!Paid(raised, u, pool, weights)
        /\ turn = Turns!Paid(Turns!Raised(Turns!Zero, pool, weights), u, pool, weights)
  OBVIOUS
<1>6. pool \in SUBSET Staff /\ pool # {}
  BY <1>1, <1>2 DEF Turns!Pool
<1>7. pick' = [pick EXCEPT ![p] = [at |-> "save", next |-> next, turn |-> turn]]
  BY <1>1, <1>2, <1>3, <1>4, <1>5
<1>8. Balanced(next)
  BY <1>3, <1>4, <1>5, <1>6, PickBalances DEF TurnsInv
<1>9. u \in pool
  <2>1. raised \in [Staff -> Int]
    <3>1. weights \in [Staff -> 0..MaxWeight] /\ state \in [Staff -> Int] /\ MaxWeight \in Nat
      BY TurnsConstants DEF TurnsInv, Balanced
    <3> QED
      BY <1>3, <3>1 DEF Turns!Raised
  <2> QED
    BY <1>4, <1>6, <2>1, ChosenIsAhead
<1>10. /\ turn \in [Staff -> Int]
       /\ \A x \in Staff :
            /\ next[x] = state[x] + turn[x]
            /\ -Bound <= turn[x] /\ turn[x] <= Bound
  <2>1. state \in [Staff -> Int]
    BY DEF TurnsInv, Balanced
  <2>2. /\ next = Turns!Paid(Turns!Raised(state, pool, weights), u, pool, weights)
        /\ turn = Turns!Paid(Turns!Raised(Turns!Zero, pool, weights), u, pool, weights)
    BY <1>3, <1>5
  <2>3. weights \in WeightMaps /\ u \in pool /\ pool \in SUBSET Staff
    BY <1>1, <1>6, <1>9
  <2>4. LET n == Turns!Paid(Turns!Raised(state, pool, weights), u, pool, weights)
            t == Turns!Paid(Turns!Raised(Turns!Zero, pool, weights), u, pool, weights)
        IN  /\ t \in [Staff -> Int]
            /\ \A x \in Staff :
                 /\ n[x] = state[x] + t[x]
                 /\ -Bound <= t[x] /\ t[x] <= Bound
    BY <2>1, <2>3, TurnBounds
  <2> QED
    BY <2>2, <2>4
<1>11. UNCHANGED <<state, owed, lost>> /\ writes' = [writes EXCEPT ![p] = 0]
  BY DEF Turns!Read
<1>12. /\ writes' \in [Pickers -> Nat] /\ writes'[p] = 0
       /\ pick' = [q \in Pickers |-> pick'[q]]
       /\ pick'[p] = [at |-> "save", next |-> next, turn |-> turn]
       /\ \A q \in Pickers : q # p => pick'[q] = pick[q] /\ writes'[q] = writes[q]
  BY <1>7, <1>11 DEF TurnsInv
<1>13. Near(turn, Turns!Zero, Bound)
  <2>1. \A x \in Staff : turn[x] - Turns!Zero[x] = turn[x]
    BY <1>10 DEF Turns!Zero
  <2> QED
    BY <1>10, <2>1 DEF Near
<1>14. Near(owed', Base(p)', (lost' + writes'[p]) * Bound)
  <2>1. \A x \in Staff : Base(p)'[x] = state[x]
    <3> TAKE x \in Staff
    <3>1. Base(p)'[x] = next[x] - turn[x]
      BY <1>12 DEF Base
    <3>2. next[x] = state[x] + turn[x] /\ state[x] \in Int /\ turn[x] \in Int
      BY <1>10 DEF TurnsInv, Balanced
    <3> QED
      BY <3>1, <3>2
  <2>2. lost' + writes'[p] = lost /\ owed' = owed
    BY <1>11, <1>12 DEF TurnsInv
  <2>3. Near(owed, state, lost * Bound)
    BY DEF TurnsInv
  <2> QED
    BY <2>1, <2>2, <2>3 DEF Near
<1>15. ASSUME NEW q \in Pickers, q # p
       PROVE  pick'[q] = pick[q] /\ writes'[q] = writes[q] /\ Base(q)' = Base(q)
  BY <1>12, <1>15 DEF Base
<1>16. ASSUME NEW q \in Pickers, pick'[q].at = "save"
       PROVE  /\ Balanced(pick'[q].next)
              /\ pick'[q].turn \in [Staff -> Int]
              /\ Near(pick'[q].turn, Turns!Zero, Bound)
              /\ writes'[q] <= MaxLost =>
                   Near(owed', Base(q)', (lost' + writes'[q]) * Bound)
  <2>1. CASE q = p
    BY <1>8, <1>10, <1>12, <1>13, <1>14, <2>1
  <2>2. CASE q # p
    BY <1>11, <1>15, <1>16, <2>2 DEF TurnsInv
  <2> QED
    BY <2>1, <2>2
<1> QED
  BY <1>11, <1>12, <1>16 DEF TurnsInv

LEMMA LeastOfTwo ==
    ASSUME NEW a \in Nat, NEW b \in Nat
    PROVE  Turns!Min({a, b}) = IF a <= b THEN a ELSE b
<1>1. PICK m \in {a, b} : m = (IF a <= b THEN a ELSE b) /\ \A y \in {a, b} : m <= y
  OBVIOUS
<1>2. \A x \in {a, b} : (\A y \in {a, b} : x <= y) => x = m
  BY <1>1
<1> QED
  BY <1>1, <1>2 DEF Turns!Min

LEMMA TurnsSave ==
    ASSUME Turns!RoundRobinAssumption, TurnsInv, NEW p \in Pickers, Turns!Save(p)
    PROVE  TurnsInv'
<1>1. /\ pick[p].at = "save"
      /\ lost + writes[p] <= MaxLost
      /\ state' = pick[p].next
      /\ owed' = [u \in Staff |-> owed[u] + pick[p].turn[u]]
      /\ lost' = lost + writes[p]
      /\ writes' = [q \in Pickers |->
                      IF q = p THEN 0 ELSE Turns!Min({writes[q] + 1, MaxLost + 1})]
      /\ pick' = [pick EXCEPT ![p] = [at |-> "idle"]]
  BY DEF Turns!Save
<1>2. /\ lost \in Nat /\ MaxLost \in Nat /\ lost' \in Nat /\ lost <= lost'
      /\ \A q \in Pickers : writes[q] \in Nat
  BY <1>1, TurnsConstants DEF TurnsInv
<1>3. writes[p] <= MaxLost
  BY <1>1, <1>2
<1>4. /\ \A x \in Staff : /\ owed[x] \in Int /\ pick[p].turn[x] \in Int
                          /\ pick[p].next[x] \in Int
                          /\ owed'[x] = owed[x] + pick[p].turn[x]
      /\ owed' \in [Staff -> Int]
  BY <1>1 DEF TurnsInv, Balanced
<1>5. Balanced(state')
  BY <1>1 DEF TurnsInv
<1>6. Near(owed', state', lost' * Bound)
  <2>1. Near(owed, Base(p), lost' * Bound)
    BY <1>1, <1>3 DEF TurnsInv
  <2>2. ASSUME NEW x \in Staff
        PROVE  owed'[x] - state'[x] = owed[x] - Base(p)[x]
    <3>1. state'[x] = pick[p].next[x] /\ Base(p)[x] = pick[p].next[x] - pick[p].turn[x]
      BY <1>1 DEF Base
    <3>2. PICK o, t, n : o = owed[x] /\ t = pick[p].turn[x] /\ n = pick[p].next[x]
      OBVIOUS
    <3>3. o \in Int /\ t \in Int /\ n \in Int /\ owed'[x] = o + t
      BY <1>4, <3>2
    <3>4. (o + t) - n = o - (n - t)
      BY <3>3
    <3> QED
      BY <3>1, <3>2, <3>3, <3>4
  <2> QED
    BY <2>1, <2>2 DEF Near
<1>7. /\ \A q \in Pickers : writes'[q] \in Nat
      /\ \A q \in Pickers : q # p /\ writes'[q] <= MaxLost =>
           writes'[q] = writes[q] + 1 /\ writes[q] <= MaxLost
  <2> SUFFICES ASSUME NEW q \in Pickers
               PROVE  /\ writes'[q] \in Nat
                      /\ q # p /\ writes'[q] <= MaxLost =>
                           writes'[q] = writes[q] + 1 /\ writes[q] <= MaxLost
    OBVIOUS
  <2>1. CASE q = p
    BY <1>1, <2>1
  <2>2. CASE q # p
    <3>1. writes'[q] = Turns!Min({writes[q] + 1, MaxLost + 1})
      BY <1>1, <2>2
    <3>2. writes[q] + 1 \in Nat /\ MaxLost + 1 \in Nat
      BY <1>2
    <3>3. writes'[q] = IF writes[q] + 1 <= MaxLost + 1 THEN writes[q] + 1 ELSE MaxLost + 1
      BY <3>1, <3>2, LeastOfTwo
    <3> QED
      BY <1>2, <3>3
  <2> QED
    BY <2>1, <2>2
<1>8. /\ writes' \in [Pickers -> Nat]
      /\ pick' = [q \in Pickers |-> pick'[q]] /\ pick'[p].at = "idle"
      /\ \A q \in Pickers : q # p => pick'[q] = pick[q]
  BY <1>1, <1>7 DEF TurnsInv
<1>9. ASSUME NEW q \in Pickers, pick'[q].at = "save"
      PROVE  /\ Balanced(pick'[q].next)
             /\ pick'[q].turn \in [Staff -> Int]
             /\ Near(pick'[q].turn, Turns!Zero, Bound)
             /\ writes'[q] <= MaxLost =>
                  Near(owed', Base(q)', (lost' + writes'[q]) * Bound)
  <2>1. q # p /\ pick'[q] = pick[q] /\ Base(q)' = Base(q)
    <3>1. q # p
      BY <1>8, <1>9
    <3> QED
      BY <1>8, <3>1 DEF Base
  <2>2. /\ Balanced(pick'[q].next) /\ pick'[q].turn \in [Staff -> Int]
        /\ Near(pick'[q].turn, Turns!Zero, Bound)
    BY <1>9, <2>1 DEF TurnsInv
  <2>3. ASSUME writes'[q] <= MaxLost, NEW x \in Staff
        PROVE  LET slack == (lost' + writes'[q]) * Bound
               IN  -slack <= owed'[x] - Base(q)'[x] /\ owed'[x] - Base(q)'[x] <= slack
    <3>1. writes'[q] = writes[q] + 1 /\ writes[q] <= MaxLost
      BY <1>7, <2>1, <2>3
    <3>2. Near(owed, Base(q), (lost + writes[q]) * Bound)
      BY <1>9, <2>1, <3>1 DEF TurnsInv
    <3>3. PICK n \in Nat, m \in Nat : n = lost + writes[q] /\ m = lost' + writes[q] /\ n <= m
      BY <1>2
    <3>4. PICK B \in Nat : B = Bound
      BY BoundSign
    <3>5. (m + 1) * B = m * B + B /\ n * B <= m * B /\ n * B \in Nat /\ m * B \in Nat
      BY <3>3, MoreSlack
    <3>6. lost' + writes'[q] = m + 1
      BY <1>2, <3>1, <3>3
    <3>7. PICK d, t : d = owed[x] - Base(q)[x] /\ t = pick[p].turn[x]
      OBVIOUS
    <3>8. d \in Int /\ t \in Int /\ owed'[x] - Base(q)'[x] = d + t
      <4>1. Base(q)[x] \in Int
        <5>1. pick[q].next[x] \in Int /\ pick[q].turn[x] \in Int
          BY <1>9, <2>1 DEF TurnsInv, Balanced
        <5> QED
          BY <5>1 DEF Base
      <4> QED
        BY <1>4, <2>1, <3>7, <4>1
    <3>9. -(n * B) <= d /\ d <= n * B
      BY <3>2, <3>3, <3>4, <3>7 DEF Near
    <3>10. -B <= t /\ t <= B
      <4>1. Near(pick[p].turn, Turns!Zero, Bound)
        BY <1>1 DEF TurnsInv
      <4>2. -B <= t - Turns!Zero[x] /\ t - Turns!Zero[x] <= B
        BY <3>4, <3>7, <4>1 DEF Near
      <4>3. Turns!Zero[x] = 0 /\ t \in Int
        BY <1>4, <3>7 DEF Turns!Zero
      <4> QED
        BY <4>2, <4>3
    <3>11. PICK nb \in Nat, mb \in Nat : nb = n * B /\ mb = m * B
      BY <3>5
    <3>12. -(mb + B) <= d + t /\ d + t <= mb + B
      BY <3>5, <3>8, <3>9, <3>10, <3>11
    <3>13. (lost' + writes'[q]) * Bound = mb + B
      BY <3>4, <3>5, <3>6, <3>11
    <3> QED
      BY <3>8, <3>12, <3>13
  <2> QED
    BY <2>2, <2>3 DEF Near
<1> QED
  BY <1>2, <1>4, <1>5, <1>6, <1>8, <1>9 DEF TurnsInv

LEMMA TurnsFail ==
    ASSUME TurnsInv, NEW p \in Pickers, Turns!Fail(p)
    PROVE  TurnsInv'
<1>1. UNCHANGED <<state, owed, writes, lost>> /\ pick' = [pick EXCEPT ![p] = [at |-> "idle"]]
  BY DEF Turns!Fail
<1>2. /\ pick' = [q \in Pickers |-> pick'[q]] /\ pick'[p].at = "idle"
      /\ \A q \in Pickers : q # p => pick'[q] = pick[q] /\ Base(q)' = Base(q)
  BY <1>1 DEF TurnsInv, Base
<1>3. ASSUME NEW q \in Pickers, pick'[q].at = "save"
      PROVE  q # p /\ pick'[q] = pick[q] /\ Base(q)' = Base(q)
  BY <1>2, <1>3
<1> QED
  BY <1>1, <1>2, <1>3 DEF TurnsInv

LEMMA TurnsExpire ==
    ASSUME Turns!RoundRobinAssumption, TurnsInv, Turns!Expire
    PROVE  TurnsInv'
<1>1. /\ \A p \in Pickers : pick[p].at = "idle"
      /\ state' = Turns!Zero /\ owed' = Turns!Zero /\ lost' = 0
      /\ UNCHANGED <<pick, writes>>
  BY DEF Turns!Expire
<1>2. Balanced(state') /\ owed' \in [Staff -> Int]
  BY <1>1, ZeroBalanced DEF Turns!Zero
<1>3. Near(owed', state', lost' * Bound)
  <2>1. lost' * Bound = 0
    BY <1>1, BoundSign
  <2>2. \A u \in Staff : owed'[u] - state'[u] = 0
    BY <1>1 DEF Turns!Zero
  <2> QED
    BY <2>1, <2>2 DEF Near
<1>4. \A p \in Pickers : pick'[p].at # "save"
  BY <1>1
<1> QED
  BY <1>1, <1>2, <1>3, <1>4 DEF TurnsInv

LEMMA TurnsStep ==
    ASSUME Turns!RoundRobinAssumption, TurnsInv, [Turns!Next]_(Turns!vars)
    PROVE  TurnsInv'
<1>1. CASE UNCHANGED Turns!vars
  BY <1>1 DEF Turns!vars, TurnsInv, Base
<1>2. ASSUME NEW p \in Pickers, Turns!Read(p) \/ Turns!Save(p) \/ Turns!Fail(p)
      PROVE  TurnsInv'
  BY <1>2, TurnsRead, TurnsSave, TurnsFail
<1>3. CASE Turns!Expire
  BY <1>3, TurnsExpire
<1> QED
  BY <1>1, <1>2, <1>3 DEF Turns!Next

LEMMA TurnsShares ==
    ASSUME Turns!RoundRobinAssumption, TurnsInv
    PROVE  SharesAreFair
<1> SUFFICES ASSUME NEW u \in Staff
             PROVE  LET slack == (1 + lost) * Bound
                    IN  -slack <= owed[u] /\ owed[u] <= slack
  BY DEF SharesAreFair
<1>1. PICK B \in Nat : B = Bound
  BY BoundSign
<1>2. lost \in Nat /\ owed[u] \in Int /\ state[u] \in Int
  BY DEF TurnsInv, Balanced
<1>3. PICK lb \in Nat : lb = lost * B /\ (1 + lost) * B = B + lb
  <2>1. lost * B \in Nat /\ (1 + lost) * B = B + lost * B
    BY <1>2
  <2> QED
    BY <2>1
<1>4. -B <= state[u] /\ state[u] <= B
  BY <1>1, BalancedBounds DEF TurnsInv
<1>5. -lb <= owed[u] - state[u] /\ owed[u] - state[u] <= lb
  BY <1>1, <1>3 DEF TurnsInv, Near
<1>6. -(B + lb) <= owed[u] /\ owed[u] <= B + lb
  BY <1>2, <1>4, <1>5
<1> QED
  BY <1>1, <1>3, <1>6

\* Whoever is eligible for each pick, whatever the weights and however the
\* picks overlap, nobody is ever owed more turns, nor has had more than its
\* share, than the bound, and the bound again for each pick whose update was
\* lost.
THEOREM TurnsAreShared ==
    Turns!RoundRobinAssumption => (Turns!Spec => []SharesAreFair)
<1> SUFFICES ASSUME Turns!RoundRobinAssumption
             PROVE  Turns!Spec => []SharesAreFair
  OBVIOUS
<1>1. Turns!Init => TurnsInv
  BY TurnsInit
<1>2. TurnsInv /\ [Turns!Next]_(Turns!vars) => TurnsInv'
  BY TurnsStep
<1>3. TurnsInv => SharesAreFair
  BY TurnsShares
<1> QED
  BY <1>1, <1>2, <1>3, PTL DEF Turns!Spec
=============================================================================
