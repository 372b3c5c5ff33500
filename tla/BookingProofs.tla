--------------------------- MODULE BookingProofs ---------------------------
(***************************************************************************)
(* Proofs about Booking, for any requests, cancellations, clients,         *)
(* professionals, services and capacities: the slots under the locks; the  *)
(* seats; and the refinement of Attendance.                                *)
(***************************************************************************)
EXTENDS BookingRefinement, SequenceTheorems, FiniteSetTheorems, TLAPS

USE BookingAssumption

-----------------------------------------------------------------------------
\* What a request may assume of its input.
LEMMA Inputs ==
    ASSUME TypeOK, NEW r \in Requests
    PROVE  /\ input[r].start \in Nat
           /\ Client(r) \in Clients
           /\ input[r].attendees \in Seq(Attendee)
           /\ Len(input[r].attendees) \in Nat \ {0}
           /\ \A i \in 1..Len(input[r].attendees) :
                input[r].attendees[i] \in Attendee
           /\ First(r) \in Attendee
           /\ First(r).staff \subseteq Users
<1>1. input[r] \in Booking /\ input[r].attendees # <<>>
  BY DEF TypeOK
<1>2. input[r].attendees \in Seq(Attendee)
  BY <1>1 DEF Booking
<1>3. Len(input[r].attendees) \in Nat \ {0}
  BY <1>1, <1>2, EmptySeq
<1>4. \A i \in 1..Len(input[r].attendees) : input[r].attendees[i] \in Attendee
  BY <1>2, ElementOfSeq
<1>5. First(r) \in Attendee
  BY <1>3, <1>4 DEF First
<1> QED
  BY <1>1, <1>2, <1>3, <1>4, <1>5 DEF Booking, Client, Attendee

LEMMA SlotTypes ==
    ASSUME NEW a \in Attendee, NEW u \in Users, NEW t \in Nat
    PROVE  SlotAt(a, u, t) \in Slot
BY DEF SlotAt, Slot, Attendee

LEMMA FirstSlot ==
    ASSUME TypeOK, NEW r \in Requests, NEW u \in Users
    PROVE  SlotOf(input[r], u) \in Slot
BY Inputs, SlotTypes DEF SlotOf, First

\* A plan for several services is a sequence of slots, one per service.
LEMMA PlanTypes ==
    ASSUME TypeOK, NEW r \in Requests, NEW p \in Plans(r)
    PROVE  p \in Seq(Slot) /\ p # <<>>
<1> DEFINE wanted == input[r].attendees
           n == Len(wanted)
<1>0. p \in Chains(input[r])
  BY DEF Plans
<1>1. PICK user \in [1..n -> Users], start \in [1..n -> input[r].start..input[r].start + Horizon] :
        p = Laid(wanted, user, start)
  BY <1>0 DEF Chains
<1>2. \A i \in 1..n : SlotAt(wanted[i], user[i], start[i]) \in Slot
  BY Inputs, SlotTypes
<1>4. n \in Nat \ {0}
  BY Inputs
<1> HIDE DEF wanted, n
<1>3. p \in [1..n -> Slot]
  BY <1>1, <1>2 DEF Laid, n
<1>5. p \in Seq(Slot)
  BY <1>3, <1>4, SeqDef
<1>6. 1 \in DOMAIN p
  BY <1>3, <1>4
<1>7. DOMAIN p = 1..Len(p)
  BY <1>5, LenProperties
<1> QED
  BY <1>5, <1>6, <1>7, EmptySeq

\* A singleton plan
LEMMA OneSlot ==
    ASSUME NEW s \in Slot
    PROVE  <<s>> \in Seq(Slot) /\ <<s>> # <<>>
BY EmptySeq, AppendProperties

-----------------------------------------------------------------------------
\* The labels at which a request has a segment to book.
Segmented == {"lock", "find", "join", "create"}

PlanOK == \A r \in Requests : pc[r] \in Segmented => plan[r] # <<>>

FoundOK == \A r \in Requests : pc[r] = "join" => tx[r].found.some

TypeInv == TypeOK /\ PlanOK /\ FoundOK

LEMMA Segments ==
    ASSUME TypeInv, NEW r \in Requests, pc[r] \in Segmented
    PROVE  /\ Segment(r) \in Slot
           /\ plan[r] \in Seq(Slot)
           /\ Tail(plan[r]) \in Seq(Slot)
           /\ Len(plan[r]) \in Nat \ {0}
           /\ Len(plan[r]) # 1 => Tail(plan[r]) # <<>>
<1>1. plan[r] \in Seq(Slot) /\ plan[r] # <<>>
  BY DEF TypeInv, TypeOK, PlanOK
<1>2. /\ Head(plan[r]) \in Slot
      /\ Tail(plan[r]) \in Seq(Slot)
      /\ Len(Tail(plan[r])) = Len(plan[r]) - 1
  BY <1>1, HeadTailProperties
<1>3. Len(plan[r]) \in Nat \ {0}
  BY <1>1, EmptySeq
<1>4. Len(<<>>) = 0
  OBVIOUS
<1>5. Len(plan[r]) # 1 => Len(Tail(plan[r])) # Len(<<>>)
  BY <1>2, <1>3, <1>4
<1> QED
  BY <1>1, <1>2, <1>3, <1>5 DEF Segment

\* The part of the invariant that concerns the requests.
RequestsTyped ==
    /\ pc \in [Requests -> {"idle"} \union Planning \union InTx \union Answered]
    /\ plan \in [Requests -> Seq(Slot)]
    /\ tx \in [Requests -> Tx]
    /\ held \in [Requests -> SUBSET (Users \X Services \X Nat)]
    /\ PlanOK
    /\ FoundOK

LEMMA OneRequest ==
    ASSUME TypeInv, NEW r \in Requests,
           NEW label \in Planning \union InTx \union Answered,
           NEW newPlan \in Seq(Slot), NEW newTx \in Tx,
           NEW newHeld \in SUBSET (Users \X Services \X Nat),
           pc' = [pc EXCEPT ![r] = label],
           plan' = [plan EXCEPT ![r] = newPlan],
           tx' = [tx EXCEPT ![r] = newTx],
           held' = [held EXCEPT ![r] = newHeld],
           label \in Segmented => newPlan # <<>>,
           label = "join" => newTx.found.some
    PROVE  RequestsTyped'
BY DEF TypeInv, TypeOK, PlanOK, FoundOK, RequestsTyped

LEMMA Same ==
    ASSUME TypeInv, NEW r \in Requests
    PROVE  /\ plan = [plan EXCEPT ![r] = plan[r]] /\ plan[r] \in Seq(Slot)
           /\ tx = [tx EXCEPT ![r] = tx[r]] /\ tx[r] \in Tx
           /\ held = [held EXCEPT ![r] = held[r]]
           /\ held[r] \in SUBSET (Users \X Services \X Nat)
BY DEF TypeInv, TypeOK

LEMMA EmptyTxTypes == EmptyTx \in Tx
<1>1. <<>> \in Seq(Core)
  BY EmptySeq
<1> QED
  BY <1>1 DEF EmptyTx, Tx, Found

LEMMA RejectTypes ==
    ASSUME TypeInv, NEW r \in Requests,
           NEW label \in Answered, Goto(r, label), EndTx(r), UNCHANGED plan
    PROVE  RequestsTyped'
<1>1. label \notin Segmented /\ label # "join"
  BY DEF Answered, Segmented
<1>2. tx' = [tx EXCEPT ![r] = EmptyTx] /\ held' = [held EXCEPT ![r] = {}]
      /\ pc' = [pc EXCEPT ![r] = label]
  BY DEF EndTx, Goto
<1>3. plan' = [plan EXCEPT ![r] = plan[r]] /\ plan[r] \in Seq(Slot)
  BY Same
<1> QED
  BY <1>1, <1>2, <1>3, OneRequest, EmptyTxTypes DEF Answered

LEMMA Rejects ==
    ASSUME TypeInv, NEW r \in Requests, Reject(r), UNCHANGED plan
    PROVE  RequestsTyped'
<1>1. "rejected" \in Answered
  BY DEF Answered
<1> QED
  BY <1>1, RejectTypes DEF Reject

\* The next segment, or the end of the transaction
LEMMA AdvanceTypes ==
    ASSUME TypeInv, NEW r \in Requests, pc[r] \in Segmented, Advance(r),
           NEW newTx \in Tx, tx' = [tx EXCEPT ![r] = newTx], UNCHANGED held
    PROVE  RequestsTyped'
<1> DEFINE label == IF Len(plan[r]) = 1 THEN "commit" ELSE "lock"
<1>1. Tail(plan[r]) \in Seq(Slot) /\ (label \in Segmented => Tail(plan[r]) # <<>>)
  BY Segments DEF Segmented
<1>2. /\ plan' = [plan EXCEPT ![r] = Tail(plan[r])]
      /\ pc' = [pc EXCEPT ![r] = label]
  BY DEF Advance, Goto
<1>3. label \in Planning \union InTx \union Answered /\ label # "join"
  BY DEF InTx
<1>4. held' = [held EXCEPT ![r] = held[r]]
      /\ held[r] \in SUBSET (Users \X Services \X Nat)
  BY Same
<1> QED
  BY <1>1, <1>2, <1>3, <1>4, OneRequest

\* A plan that has been made
LEMMA PlanMade ==
    ASSUME TypeInv, NEW r \in Requests, NEW p \in Seq(Slot), p # <<>>,
           plan' = [plan EXCEPT ![r] = p], Goto(r, "lock"), UNCHANGED <<tx, held>>
    PROVE  RequestsTyped'
BY DEF TypeInv, TypeOK, PlanOK, FoundOK, RequestsTyped, Goto, InTx

\* A step that only changes the place
LEMMA PlaceOnly ==
    ASSUME TypeInv, NEW r \in Requests,
           NEW label \in Planning \union InTx, label \notin {"join", "lock"},
           label \in Segmented => pc[r] \in Segmented,
           Goto(r, label), UNCHANGED <<plan, tx, held>>
    PROVE  RequestsTyped'
BY DEF TypeInv, TypeOK, PlanOK, FoundOK, RequestsTyped, Goto

-----------------------------------------------------------------------------
LEMMA CoreTypes ==
    ASSUME TypeOK, NEW r \in Requests, NEW e \in Event
    PROVE  CoreOf(r, e) \in Seq(Core)
<1>1. [id |-> e.id, group |-> e.group] \in Core
  BY DEF Event, Core
<1> QED
  BY <1>1, EmptySeq DEF CoreOf

LEMMA NewStatusTypes == NewStatus \in Status
BY DEF NewStatus, Status

LEMMA KeyTypes ==
    ASSUME NEW s \in Slot
    PROVE  Key(s) \in Users \X Services \X Nat
BY DEF Key, Slot

LEMMA RegroupedTypes ==
    ASSUME TypeOK, NEW r \in Requests
    PROVE  Regrouped(r) \subseteq Event
<1>1. EventsSeen(r) \subseteq Event
  BY DEF TypeOK, Tx, EventsSeen
<1>2. CASE tx[r].core = <<>>
  BY <1>1, <1>2 DEF Regrouped
<1>3. CASE tx[r].core # <<>>
  <2>1. tx[r].core \in Seq(Core)
    BY DEF TypeOK, Tx
  <2>2. Len(tx[r].core) \in Nat \ {0}
    BY <2>1, <1>3, EmptySeq
  <2>3. tx[r].core[1] \in Core
    BY <2>1, <2>2, ElementOfSeq
  <2>4. \A e \in Event : [e EXCEPT !.group = tx[r].core[1].group] \in Event
    BY <2>3 DEF Event, Core
  <2> QED
    BY <1>1, <1>3, <2>4 DEF Regrouped
<1> QED
  BY <1>2, <1>3

-----------------------------------------------------------------------------
\* The other variables' types
TablesTyped ==
    /\ events \subseteq Event
    /\ groups \subseteq Group
    /\ seats \subseteq Seat

RestTyped ==
    /\ holds \subseteq Services \X Nat \X Nat
    /\ input \in [Requests -> Bookings]
    /\ seen \in [Requests -> SUBSET Slot]
    /\ cancel \in [Cancels -> CancelState]

LEMMA TypeParts ==
    ASSUME RequestsTyped', TablesTyped', RestTyped'
    PROVE  TypeInv'
BY DEF TypeInv, TypeOK, RequestsTyped, TablesTyped, RestTyped

LEMMA HoldTypes ==
    ASSUME TypeOK, NEW r \in Requests
    PROVE  Hold(r) \in Services \X Nat \X Nat
BY Inputs DEF Hold, SlotOf, SlotAt, First, Attendee

\* While it plans, a request changes only its own variables and the holds.
LEMMA PlanningStep ==
    ASSUME TypeInv, NEW r \in Requests,
           Post(r) \/ TryJoin(r) \/ CheckHold(r) \/ SetHold(r) \/ Pick(r) \/ Assign(r)
    PROVE  TypeInv'
<1> USE DEF tables, planning
<1>1. CASE Post(r)
  <2>1. {e.slot : e \in {f \in events : Live(f)}} \subseteq Slot
    BY DEF TypeInv, TypeOK, Event
  <2>2. RestTyped' /\ TablesTyped'
    BY <1>1, <2>1 DEF Post, TypeInv, TypeOK, RestTyped, TablesTyped
  <2>3. RequestsTyped'
    BY <1>1, PlaceOnly DEF Post, Planning, Segmented
  <2> QED
    BY <2>2, <2>3, TypeParts
<1>2. CASE TryJoin(r)
  <2>1. RestTyped' /\ TablesTyped'
    BY <1>2 DEF TryJoin, TypeInv, TypeOK, RestTyped, TablesTyped
  <2>0. UNCHANGED <<tx, held>>
    BY <1>2 DEF TryJoin
  <2>2. ASSUME Goto(r, "checkHold") /\ UNCHANGED plan
       PROVE  RequestsTyped'
    BY <2>0, <2>2, PlaceOnly DEF Planning, Segmented
  <2>3. ASSUME \E e \in JoinTargets(r) :
                 /\ plan' = [plan EXCEPT ![r] = <<SlotOf(input[r], e.slot.user)>>]
                 /\ Goto(r, "lock")
        PROVE  RequestsTyped'
    <3>0. PICK e \in JoinTargets(r) :
               /\ plan' = [plan EXCEPT ![r] = <<SlotOf(input[r], e.slot.user)>>]
               /\ Goto(r, "lock")
      BY <2>3
    <3>1. e.slot.user \in Users
      BY DEF JoinTargets, TypeInv, TypeOK, Event, Slot
    <3>2. SlotOf(input[r], e.slot.user) \in Slot
      BY <3>1, FirstSlot DEF TypeInv
    <3> QED
      BY <2>0, <3>0, <3>2, OneSlot, PlanMade
  <2>4. RequestsTyped'
    BY <1>2, <2>2, <2>3 DEF TryJoin
  <2> QED
    BY <2>1, <2>4, TypeParts
<1>3. CASE CheckHold(r)
  <2>1. RestTyped' /\ TablesTyped'
    BY <1>3 DEF CheckHold, TypeInv, TypeOK, RestTyped, TablesTyped
  <2>2. ASSUME Reject(r)
       PROVE  RequestsTyped'
    BY <1>3, <2>2, Rejects DEF CheckHold
  <2>3. ASSUME Goto(r, "setHold") /\ UNCHANGED <<tx, held>>
       PROVE  RequestsTyped'
    BY <1>3, <2>3, PlaceOnly DEF CheckHold, Planning, Segmented
  <2> QED
    BY <1>3, <2>1, <2>2, <2>3, TypeParts DEF CheckHold
<1>4. CASE SetHold(r)
  <2>1. RestTyped' /\ TablesTyped'
    BY <1>4, HoldTypes DEF SetHold, TypeInv, TypeOK, RestTyped, TablesTyped
  <2>2. RequestsTyped'
    BY <1>4, PlaceOnly DEF SetHold, Planning, Segmented
  <2> QED
    BY <2>1, <2>2, TypeParts
<1>5. CASE Pick(r)
  <2>1. RestTyped' /\ TablesTyped'
    BY <1>5 DEF Pick, TypeInv, TypeOK, RestTyped, TablesTyped
  <2>2. ASSUME Reject(r) /\ UNCHANGED plan
       PROVE  RequestsTyped'
    BY <2>2, Rejects
  <2>3. ASSUME NEW u \in Available(r),
               plan' = [plan EXCEPT ![r] = <<SlotOf(input[r], u)>>],
               Goto(r, "lock"), UNCHANGED <<tx, held>>
        PROVE  RequestsTyped'
    <3>1. SlotOf(input[r], u) \in Slot
      BY Inputs, FirstSlot DEF TypeInv, Available
    <3> QED
      BY <2>3, <3>1, OneSlot, PlanMade
  <2> QED
    BY <1>5, <2>1, <2>2, <2>3, TypeParts DEF Pick
<1>6. CASE Assign(r)
  <2>1. RestTyped' /\ TablesTyped'
    BY <1>6 DEF Assign, TypeInv, TypeOK, RestTyped, TablesTyped
  <2>2. ASSUME Reject(r) /\ UNCHANGED plan
       PROVE  RequestsTyped'
    BY <2>2, Rejects
  <2>3. ASSUME NEW p \in Plans(r), plan' = [plan EXCEPT ![r] = p],
               Goto(r, "lock"), UNCHANGED <<tx, held>>
        PROVE  RequestsTyped'
    BY <2>3, PlanTypes, PlanMade DEF TypeInv
  <2> QED
    BY <1>6, <2>1, <2>2, <2>3, TypeParts DEF Assign
<1> QED
  BY <1>1, <1>2, <1>3, <1>4, <1>5, <1>6

\* Rows for the transaction, and the core event they give
LEMMA RowTypes ==
    ASSUME TypeInv, NEW r \in Requests, NEW g \in Requests
    PROVE  [id |-> r, group |-> g, client |-> Client(r), status |-> NewStatus] \in Seat
BY Inputs, NewStatusTypes DEF Seat, TypeInv

LEMMA JoinTypes ==
    ASSUME TypeInv, NEW r \in Requests, NEW e \in Event, NEW rows \in SUBSET Seat
    PROVE  [tx[r] EXCEPT !.seats = @ \union rows,
                         !.core = @ \o CoreOf(r, e),
                         !.found = [some |-> FALSE]] \in Tx
<1>1. tx[r] \in Tx /\ tx[r].core \in Seq(Core)
  BY DEF TypeInv, TypeOK, Tx
<1>2. CoreOf(r, e) \in Seq(Core)
  BY CoreTypes DEF TypeInv
<1>3. tx[r].core \o CoreOf(r, e) \in Seq(Core)
  BY <1>1, <1>2, ConcatProperties
<1>4. [some |-> FALSE] \in Found
  BY DEF Found
<1> QED
  BY <1>1, <1>3, <1>4 DEF Tx

LEMMA CreateTypes ==
    ASSUME TypeInv, NEW r \in Requests, pc[r] \in Segmented,
           NEW e, e = [id |-> <<r, Len(plan[r])>>, slot |-> Segment(r), group |-> r]
    PROVE  [tx[r] EXCEPT
             !.events = @ \union {e},
             !.groups = @ \union {[id |-> r, status |-> NewStatus]},
             !.seats = @ \union {[id |-> r, group |-> r,
                                  client |-> Client(r), status |-> NewStatus]},
             !.core = Append(@, [id |-> e.id, group |-> r])] \in Tx
<1>1. tx[r] \in Tx /\ tx[r].core \in Seq(Core)
  BY DEF TypeInv, TypeOK, Tx
<1>2. e \in Event
  BY Segments DEF Event
<1>3. [id |-> r, status |-> NewStatus] \in Group
  BY NewStatusTypes DEF Group
<1>4. [id |-> e.id, group |-> r] \in Core
  BY <1>2 DEF Core, Event
<1>5. Append(tx[r].core, [id |-> e.id, group |-> r]) \in Seq(Core)
  BY <1>1, <1>4, AppendProperties
<1> QED
  BY <1>1, <1>2, <1>3, <1>5, RowTypes DEF Tx

\* The statements of a transaction change its own rows and locks; its end
\* changes the tables.
LEMMA TransactionStep ==
    ASSUME TypeInv, NEW r \in Requests,
           Lock(r) \/ Find(r) \/ Join(r) \/ Create(r) \/ Commit(r) \/ Abort(r)
    PROVE  TypeInv'
<1> USE DEF tables, planning
<1>1. CASE Lock(r)
  <2>1. RestTyped' /\ TablesTyped'
    BY <1>1 DEF Lock, TypeInv, TypeOK, RestTyped, TablesTyped
  <2>2. Key(Segment(r)) \in Users \X Services \X Nat
    BY <1>1, Segments, KeyTypes DEF Lock, Segmented
  <2>3. RequestsTyped'
    BY <1>1, <2>2
    DEF Lock, Goto, TypeInv, TypeOK, RequestsTyped, PlanOK, FoundOK, Segmented, InTx
  <2> QED
    BY <2>1, <2>3, TypeParts
<1>2. CASE Find(r)
  <2>1. RestTyped' /\ TablesTyped'
    BY <1>2 DEF Find, TypeInv, TypeOK, RestTyped, TablesTyped
  <2>2. ASSUME Goto(r, "create"), UNCHANGED tx
        PROVE  RequestsTyped'
    BY <1>2, <2>2, PlaceOnly DEF Find, InTx, Segmented
  <2>3. ASSUME NEW e \in EventsSeen(r), Goto(r, "join"),
               tx' = [tx EXCEPT ![r].found = [some |-> TRUE, event |-> e]]
        PROVE  RequestsTyped'
    <3>1. e \in Event
      BY DEF EventsSeen, TypeInv, TypeOK, Tx
    <3>2. [some |-> TRUE, event |-> e] \in Found
      BY <3>1 DEF Found
    <3>3. [tx[r] EXCEPT !.found = [some |-> TRUE, event |-> e]] \in Tx
      BY <3>2 DEF TypeInv, TypeOK, Tx
    <3>4. tx' = [tx EXCEPT ![r] = [tx[r] EXCEPT !.found = [some |-> TRUE, event |-> e]]]
      BY <2>3
    <3>5. tx' \in [Requests -> Tx] /\ tx'[r].found.some
          /\ \A s \in Requests \ {r} : tx'[s] = tx[s]
      BY <3>3, <3>4 DEF TypeInv, TypeOK, Tx
    <3>6. pc' = [pc EXCEPT ![r] = "join"] /\ pc[r] = "find" /\ UNCHANGED <<plan, held>>
      BY <1>2, <2>3 DEF Find, Goto
    <3> QED
      BY <3>5, <3>6
      DEF TypeInv, TypeOK, RequestsTyped, PlanOK, FoundOK, Segmented, InTx
  <2>4. RequestsTyped'
    BY <1>2, <2>2, <2>3 DEF Find
  <2> QED
    BY <2>1, <2>4, TypeParts
<1>3. CASE Join(r)
  <2> DEFINE e == tx[r].found.event
             seat == [id |-> r, group |-> e.group, client |-> Client(r),
                      status |-> NewStatus]
             Joined(rows) == [tx[r] EXCEPT !.seats = @ \union rows,
                                           !.core = @ \o CoreOf(r, e),
                                           !.found = [some |-> FALSE]]
  <2>1. RestTyped' /\ TablesTyped'
    BY <1>3 DEF Join, TypeInv, TypeOK, RestTyped, TablesTyped
  <2>2. pc[r] = "join" /\ pc[r] \in Segmented
    BY <1>3 DEF Join, Segmented
  <2>3. tx[r].found \in Found /\ tx[r].found.some
    BY <2>2 DEF TypeInv, TypeOK, FoundOK, Tx
  <2>4. e \in Event
    BY <2>3 DEF Found
  <2>5. seat \in Seat
    BY <2>4, RowTypes DEF Event
  <2>6. Joined({}) \in Tx /\ Joined({seat}) \in Tx
    BY <2>4, <2>5, JoinTypes
  <2>7. \/ /\ tx' = [tx EXCEPT ![r] = Joined({})] \/ tx' = [tx EXCEPT ![r] = Joined({seat})]
           /\ Advance(r)
           /\ UNCHANGED held
        \/ Reject(r) /\ UNCHANGED plan
    BY <1>3 DEF Join
  <2> HIDE DEF Joined
  <2>8. RequestsTyped'
    BY <2>2, <2>6, <2>7, AdvanceTypes, Rejects
  <2> QED
    BY <2>1, <2>8, TypeParts
<1>4. CASE Create(r)
  <2>1. RestTyped' /\ TablesTyped'
    BY <1>4 DEF Create, TypeInv, TypeOK, RestTyped, TablesTyped
  <2>2. pc[r] \in Segmented
    BY <1>4 DEF Create, Segmented
  <2> DEFINE e == [id |-> <<r, Len(plan[r])>>, slot |-> Segment(r), group |-> r]
             new == [tx[r] EXCEPT
                      !.events = @ \union {e},
                      !.groups = @ \union {[id |-> r, status |-> NewStatus]},
                      !.seats = @ \union {[id |-> r, group |-> r,
                                           client |-> Client(r), status |-> NewStatus]},
                      !.core = Append(@, [id |-> e.id, group |-> r])]
  <2>3. new \in Tx
    BY <2>2, CreateTypes
  <2>4. \/ tx' = [tx EXCEPT ![r] = new] /\ Advance(r) /\ UNCHANGED held
        \/ Reject(r) /\ UNCHANGED plan
    BY <1>4 DEF Create
  <2> HIDE DEF new
  <2>5. RequestsTyped'
    BY <2>2, <2>3, <2>4, AdvanceTypes, Rejects
  <2> QED
    BY <2>1, <2>5, TypeParts
<1>5. CASE Commit(r)
  <2>1. RestTyped'
    BY <1>5 DEF Commit, TypeInv, TypeOK, RestTyped
  <2>2. TablesTyped'
    <3>1. CASE UNCHANGED <<events, groups, seats>>
      BY <3>1 DEF TypeInv, TypeOK, TablesTyped
    <3>2. CASE events' = Regrouped(r) /\ groups' = GroupsSeen(r) /\ seats' = SeatsSeen(r)
      BY <3>2, RegroupedTypes
      DEF TypeInv, TypeOK, TablesTyped, GroupsSeen, SeatsSeen, Tx
    <3> QED
      BY <1>5, <3>1, <3>2 DEF Commit
  <2>3. ASSUME Goto(r, "booked"), EndTx(r)
        PROVE  RequestsTyped'
    <3>1. "booked" \in Answered /\ UNCHANGED plan
      BY <1>5 DEF Answered, Commit
    <3> QED
      BY <2>3, <3>1, RejectTypes
  <2>4. RequestsTyped'
    BY <1>5, <2>3, Rejects DEF Commit
  <2> QED
    BY <2>1, <2>2, <2>4, TypeParts
<1>6. CASE Abort(r)
  <2>1. RestTyped' /\ TablesTyped'
    BY <1>6 DEF Abort, TypeInv, TypeOK, RestTyped, TablesTyped
  <2>2. "aborted" \in Answered
    BY DEF Answered
  <2>3. RequestsTyped'
    BY <1>6, <2>2, RejectTypes DEF Abort
  <2> QED
    BY <2>1, <2>3, TypeParts
<1> QED
  BY <1>1, <1>2, <1>3, <1>4, <1>5, <1>6

\* A cancellation leaves the requests alone.
LEMMA RequestsUntouched ==
    ASSUME TypeInv, UNCHANGED <<pc, plan, tx, held>>
    PROVE  RequestsTyped'
BY DEF TypeInv, TypeOK, RequestsTyped, PlanOK, FoundOK

LEMMA SeatCancelledTypes ==
    ASSUME TypeOK, NEW p \in Seat
    PROVE  SeatCancelled(p) \subseteq Seat
<1>1. \A q \in Seat : [q EXCEPT !.status = CancelledByClient] \in Seat
  BY DEF Seat, Status
<1> QED
  BY <1>1 DEF SeatCancelled, TypeOK

Running == {"seat", "individual", "deleteEvents", "deleteSeats", "deleteGroup"}

LEMMA RunningCancel ==
    ASSUME TypeOK, NEW k \in Cancels, cancel[k].at \in Running
    PROVE  /\ cancel[k].seat \in Seat
           /\ \A label \in Running \union {"done"} :
                [cancel EXCEPT ![k].at = label] \in [Cancels -> CancelState]
<1>1. cancel[k] \in [at : Running \union {"done"}, seat : Seat, known : SUBSET Seat]
  BY DEF TypeOK, CancelState, Running
<1>2. \A label \in Running \union {"done"} :
        [cancel[k] EXCEPT !.at = label] \in CancelState
  BY <1>1 DEF CancelState, Running
<1>3. \A label \in Running \union {"done"} :
        [cancel EXCEPT ![k].at = label]
          = [cancel EXCEPT ![k] = [cancel[k] EXCEPT !.at = label]]
  OBVIOUS
<1> QED
  BY <1>1, <1>2, <1>3 DEF TypeOK

LEMMA CancellationStep ==
    ASSUME TypeInv, NEW k \in Cancels, CancelStep(k)
    PROVE  TypeInv'
<1> USE DEF tables, planning
<1>1. RequestsTyped'
  BY RequestsUntouched
  DEF CancelStep, CancelRead, CancelIndividual, CancelSeat, DeleteEvents,
      DeleteSeats, DeleteGroup
<1>2. UNCHANGED <<holds, input, seen>>
  BY DEF CancelStep, CancelRead, CancelIndividual, CancelSeat, DeleteEvents,
         DeleteSeats, DeleteGroup
<1>3. ASSUME TablesTyped', cancel' \in [Cancels -> CancelState]
      PROVE  TypeInv'
  <2>1. RestTyped'
    BY <1>2, <1>3 DEF TypeInv, TypeOK, RestTyped
  <2> QED
    BY <1>1, <1>3, <2>1, TypeParts
<1>4. CASE CancelRead(k)
  <2>1. PICK e \in events, p \in seats :
          \/ CancelGoto(k, "done")
          \/ cancel' = [cancel EXCEPT ![k] =
               [at |-> IF IsClass(e.slot.service) THEN "seat" ELSE "individual",
                seat |-> p, known |-> SeatsOf(seats, e.group)]]
    BY <1>4 DEF CancelRead
  <2>2. cancel[k] \in CancelState /\ cancel[k].at = "idle"
    BY <1>4 DEF CancelRead, TypeInv, TypeOK
  <2>3. cancel[k] \in [at : {"idle", "done"}]
    BY <2>2 DEF CancelState
  <2>4. [cancel[k] EXCEPT !.at = "done"] \in CancelState
    BY <2>3 DEF CancelState
  <2>5. CASE CancelGoto(k, "done")
    <3>1. cancel' = [cancel EXCEPT ![k] = [cancel[k] EXCEPT !.at = "done"]]
      BY <2>5 DEF CancelGoto
    <3> QED
      BY <1>3, <1>4, <2>4, <3>1 DEF CancelRead, TypeInv, TypeOK, TablesTyped
  <2>6. CASE ~CancelGoto(k, "done")
    <3>1. p \in Seat /\ SeatsOf(seats, e.group) \subseteq Seat
      BY DEF TypeInv, TypeOK, SeatsOf
    <3>2. [at |-> IF IsClass(e.slot.service) THEN "seat" ELSE "individual",
           seat |-> p, known |-> SeatsOf(seats, e.group)] \in CancelState
      BY <3>1 DEF CancelState
    <3>3. cancel' = [cancel EXCEPT ![k] =
             [at |-> IF IsClass(e.slot.service) THEN "seat" ELSE "individual",
              seat |-> p, known |-> SeatsOf(seats, e.group)]]
      BY <2>1, <2>6
    <3>4. cancel \in [Cancels -> CancelState]
      BY DEF TypeInv, TypeOK
    <3>5. cancel' \in [Cancels -> CancelState]
      BY <3>2, <3>3, <3>4
    <3>6. TablesTyped'
      BY <1>4 DEF CancelRead, TypeInv, TypeOK, TablesTyped
    <3> QED
      BY <1>3, <3>5, <3>6
  <2> QED
    BY <2>5, <2>6
<1>5. CASE CancelIndividual(k)
  <2>1. cancel[k].seat \in Seat /\ cancel' \in [Cancels -> CancelState]
    BY <1>5, RunningCancel DEF CancelIndividual, CancelGoto, Running, TypeInv
  <2>2. \A g \in Group : [g EXCEPT !.status = CancelledByClient] \in Group
    BY DEF Group, Status
  <2>3. TablesTyped'
    BY <1>5, <2>1, <2>2, SeatCancelledTypes
    DEF CancelIndividual, TypeInv, TypeOK, TablesTyped
  <2> QED
    BY <1>3, <2>1, <2>3
<1>6. CASE CancelSeat(k)
  <2>1. cancel[k].seat \in Seat /\ cancel' \in [Cancels -> CancelState]
    BY <1>6, RunningCancel DEF CancelSeat, CancelGoto, Running, TypeInv
  <2>2. TablesTyped'
    BY <1>6, <2>1, SeatCancelledTypes DEF CancelSeat, TypeInv, TypeOK, TablesTyped
  <2> QED
    BY <1>3, <2>1, <2>2
<1>7. CASE DeleteEvents(k)
  BY <1>3, <1>7, RunningCancel
  DEF DeleteEvents, CancelGoto, Running, TypeInv, TypeOK, TablesTyped
<1>8. CASE DeleteSeats(k)
  BY <1>3, <1>8, RunningCancel
  DEF DeleteSeats, CancelGoto, Running, TypeInv, TypeOK, TablesTyped
<1>9. CASE DeleteGroup(k)
  BY <1>3, <1>9, RunningCancel
  DEF DeleteGroup, CancelGoto, Running, TypeInv, TypeOK, TablesTyped
<1> QED
  BY <1>4, <1>5, <1>6, <1>7, <1>8, <1>9 DEF CancelStep

LEMMA TypeStep == TypeInv /\ [Next]_vars => TypeInv'
<1> SUFFICES ASSUME TypeInv, [Next]_vars PROVE TypeInv'
  OBVIOUS
<1>1. ASSUME NEW r \in Requests, RequestStep(r) \/ Abort(r) PROVE TypeInv'
  BY <1>1, PlanningStep, TransactionStep DEF RequestStep
<1>2. ASSUME NEW k \in Cancels, CancelStep(k) PROVE TypeInv'
  BY <1>2, CancellationStep
<1>3. CASE HoldExpires
  BY <1>3 DEF HoldExpires, tables, TypeInv, TypeOK, PlanOK, FoundOK
<1>4. CASE UNCHANGED vars
  BY <1>4 DEF vars, TypeInv, TypeOK, PlanOK, FoundOK
<1> QED
  BY <1>1, <1>2, <1>3, <1>4 DEF Next

LEMMA TypeInit == Init => TypeInv
<1> SUFFICES ASSUME Init PROVE TypeInv
  OBVIOUS
<1>1. <<>> \in Seq(Slot)
  BY EmptySeq
<1>2. [at |-> "idle"] \in CancelState
  BY DEF CancelState
<1> QED
  BY <1>1, <1>2, EmptyTxTypes DEF Init, TypeInv, TypeOK, PlanOK, FoundOK, Segmented

\* Every variable keeps its type: rows, locks and plans are well formed, and
\* a request that books has a segment to book and, to join, an event found.
THEOREM TypeCorrect == Spec => []TypeOK
<1>1. TypeInv => TypeOK
  BY DEF TypeInv
<1> QED
  BY <1>1, TypeInit, TypeStep, PTL DEF Spec

-----------------------------------------------------------------------------
\* Why a slot exists once.  What a transaction inserts it has locked, the
\* locks of two transactions differ, and while a transaction is about to
\* insert no event is at its slot, neither committed nor its own.
Locked == {"find", "join", "create"}

LocksApart ==
    \A r, s \in Requests : r # s => held[r] \intersect held[s] = {}

OwnLocked ==
    \A r \in Requests : \A f \in tx[r].events : Key(f.slot) \in held[r]

OwnApart ==
    \A r \in Requests :
        /\ \A e \in events, f \in tx[r].events : e.slot # f.slot
        /\ \A e, f \in tx[r].events : e.slot = f.slot => e = f

SegmentLocked ==
    \A r \in Requests : pc[r] \in Locked => Key(Segment(r)) \in held[r]

CreateIsNew ==
    \A r \in Requests :
        pc[r] = "create" => \A e \in events \union tx[r].events : e.slot # Segment(r)

SlotInv ==
    /\ SlotOnce
    /\ LocksApart
    /\ OwnLocked
    /\ OwnApart
    /\ SegmentLocked
    /\ CreateIsNew

\* Steps that insert nothing and lock nothing: a request either stays where
\* it is or leaves the part in which it relies on its locks.
LEMMA SlotShrinks ==
    ASSUME SlotInv,
           events' \subseteq events,
           \A s \in Requests :
             /\ tx'[s].events \subseteq tx[s].events
             /\ held'[s] \subseteq held[s]
             /\ held'[s] = held[s] \/ tx'[s].events = {}
             /\ \/ pc'[s] \notin Locked
                \/ pc'[s] = pc[s] /\ plan'[s] = plan[s] /\ held'[s] = held[s]
    PROVE  SlotInv'
<1>1. SlotOnce'
  BY DEF SlotInv, SlotOnce
<1>2. LocksApart'
  BY DEF SlotInv, LocksApart
<1>3. OwnLocked'
  BY DEF SlotInv, OwnLocked, Key
<1>4. OwnApart'
  BY DEF SlotInv, OwnApart
<1>5. SegmentLocked'
  BY DEF SlotInv, SegmentLocked, Key, Segment
<1>6. CreateIsNew'
  BY DEF SlotInv, CreateIsNew, Segment, Locked
<1> QED
  BY <1>1, <1>2, <1>3, <1>4, <1>5, <1>6 DEF SlotInv

\* A request that moves to another part, its transaction unchanged or ended
LEMMA SlotMoves ==
    ASSUME TypeInv, SlotInv, NEW r \in Requests,
           NEW label, label \notin Locked,
           Goto(r, label), UNCHANGED events,
           UNCHANGED <<tx, held>> \/ EndTx(r),
           UNCHANGED plan \/ \E p : plan' = [plan EXCEPT ![r] = p]
    PROVE  SlotInv'
<1>1. /\ pc'[r] \notin Locked
      /\ \A s \in Requests \ {r} : pc'[s] = pc[s] /\ plan'[s] = plan[s]
  BY DEF Goto, TypeInv, TypeOK
<1>2. \A s \in Requests :
        /\ tx'[s].events \subseteq tx[s].events
        /\ held'[s] \subseteq held[s]
        /\ held'[s] = held[s] \/ tx'[s].events = {}
        /\ s # r => held'[s] = held[s]
  BY DEF EndTx, EmptyTx, TypeInv, TypeOK
<1> QED
  BY <1>1, <1>2, SlotShrinks

LEMMA SlotPlanning ==
    ASSUME TypeInv, SlotInv, NEW r \in Requests,
           Post(r) \/ TryJoin(r) \/ CheckHold(r) \/ SetHold(r) \/ Pick(r) \/ Assign(r)
    PROVE  SlotInv'
<1> USE DEF tables, planning
<1>1. PICK label \in Planning \union {"lock", "rejected"} : Goto(r, label)
  BY DEF Post, TryJoin, CheckHold, SetHold, Pick, Assign, Reject, Planning
<1>2. UNCHANGED <<tx, held>> \/ EndTx(r)
  BY DEF Post, TryJoin, CheckHold, SetHold, Pick, Assign, Reject
<1>3. UNCHANGED plan \/ \E p : plan' = [plan EXCEPT ![r] = p]
  BY DEF Post, TryJoin, CheckHold, SetHold, Pick, Assign
<1>4. UNCHANGED events
  BY DEF Post, TryJoin, CheckHold, SetHold, Pick, Assign
<1>5. label \notin Locked
  BY DEF Planning, Locked
<1> QED
  BY <1>1, <1>2, <1>3, <1>4, <1>5, SlotMoves

LEMMA SlotRejects ==
    ASSUME TypeInv, SlotInv, NEW r \in Requests, Reject(r), UNCHANGED <<events, plan>>
    PROVE  SlotInv'
<1>1. "rejected" \notin Locked
  BY DEF Locked
<1> QED
  BY <1>1, SlotMoves DEF Reject

LEMMA SlotLock ==
    ASSUME TypeInv, SlotInv, NEW r \in Requests, Lock(r)
    PROVE  SlotInv'
<1> USE DEF tables, planning
<1> DEFINE key == Key(Segment(r))
<1>1. /\ held'[r] = held[r] \union {key}
      /\ \A s \in Requests \ {r} : held'[s] = held[s] /\ pc'[s] = pc[s]
      /\ pc'[r] = "find"
      /\ UNCHANGED <<events, plan, tx>>
  BY DEF Lock, Goto, TypeInv, TypeOK
<1>2. \A s \in Requests \ {r} : key \notin held[s]
  BY DEF Lock
<1> HIDE DEF key
<1>3. LocksApart'
  BY <1>1, <1>2 DEF SlotInv, LocksApart
<1>4. OwnLocked'
  BY <1>1 DEF SlotInv, OwnLocked, Key
<1>5. SegmentLocked'
  BY <1>1 DEF SlotInv, SegmentLocked, Segment, Key, key
<1>6. CreateIsNew'
  BY <1>1 DEF SlotInv, CreateIsNew, Segment
<1> QED
  BY <1>1, <1>3, <1>4, <1>5, <1>6 DEF SlotInv, SlotOnce, OwnApart

LEMMA SlotFind ==
    ASSUME TypeInv, SlotInv, NEW r \in Requests, Find(r)
    PROVE  SlotInv'
<1> USE DEF tables, planning
<1>1. /\ UNCHANGED <<events, plan, held>>
      /\ pc[r] = "find"
      /\ \A s \in Requests \ {r} : pc'[s] = pc[s]
      /\ \/ pc'[r] = "join"
         \/ pc'[r] = "create" /\ \A e \in EventsSeen(r) : e.slot # Segment(r)
  BY DEF Find, Goto, TypeInv, TypeOK
<1>2. \A s \in Requests : tx'[s].events = tx[s].events
  <2>1. CASE UNCHANGED tx
    BY <2>1
  <2>2. CASE ~ UNCHANGED tx
    <3>1. PICK e \in EventsSeen(r) :
            tx' = [tx EXCEPT ![r].found = [some |-> TRUE, event |-> e]]
      BY <2>2 DEF Find
    <3>2. tx \in [Requests -> Tx]
      BY DEF TypeInv, TypeOK
    <3> DEFINE own == tx[r]
               other == [own EXCEPT !.found = [some |-> TRUE, event |-> e]]
    <3>3. own \in Tx
      BY <3>2
    <3>4. other.events = own.events
      BY <3>3 DEF Tx
    <3>5. tx' = [tx EXCEPT ![r] = other]
      BY <3>1
    <3> HIDE DEF other
    <3>6. \A s \in Requests : tx'[s] = IF s = r THEN other ELSE tx[s]
      BY <3>2, <3>5
    <3> QED
      BY <3>4, <3>6
  <2> QED
    BY <2>1, <2>2
<1>3. SegmentLocked'
  BY <1>1 DEF SlotInv, SegmentLocked, Segment, Key, Locked
<1>4. CreateIsNew'
  BY <1>1, <1>2 DEF SlotInv, CreateIsNew, Segment, EventsSeen
<1>5. OwnLocked' /\ OwnApart'
  BY <1>1, <1>2 DEF SlotInv, OwnLocked, OwnApart, Key
<1> QED
  BY <1>1, <1>3, <1>4, <1>5 DEF SlotInv, SlotOnce, LocksApart

LEMMA AdvanceMoves ==
    ASSUME TypeInv, NEW r \in Requests, Advance(r)
    PROVE  /\ pc'[r] \notin Locked
           /\ \A s \in Requests \ {r} : pc'[s] = pc[s] /\ plan'[s] = plan[s]
BY DEF Advance, Goto, TypeInv, TypeOK, Locked

LEMMA SlotJoin ==
    ASSUME TypeInv, SlotInv, NEW r \in Requests, Join(r)
    PROVE  SlotInv'
<1> USE DEF tables, planning
<1>1. CASE Reject(r) /\ UNCHANGED plan
  BY <1>1, SlotRejects DEF Join
<1>2. CASE ~(Reject(r) /\ UNCHANGED plan)
  <2>1. Advance(r) /\ UNCHANGED <<events, held>>
    BY <1>2 DEF Join
  <2> DEFINE e == tx[r].found.event
             Joined(rows) == [tx[r] EXCEPT !.seats = @ \union rows,
                                           !.core = @ \o CoreOf(r, e),
                                           !.found = [some |-> FALSE]]
  <2>2. PICK rows : tx' = [tx EXCEPT ![r] = Joined(rows)]
    BY <1>2 DEF Join
  <2>3. Joined(rows).events = tx[r].events
    BY DEF TypeInv, TypeOK, Tx
  <2> HIDE DEF Joined
  <2>4. \A s \in Requests : tx'[s].events = tx[s].events
    BY <2>2, <2>3 DEF TypeInv, TypeOK
  <2> QED
    BY <2>1, <2>4, AdvanceMoves, SlotShrinks
<1> QED
  BY <1>1, <1>2

LEMMA SlotCreate ==
    ASSUME TypeInv, SlotInv, NEW r \in Requests, Create(r)
    PROVE  SlotInv'
<1> USE DEF tables, planning
<1>1. CASE Reject(r) /\ UNCHANGED plan
  BY <1>1, SlotRejects DEF Create
<1>2. CASE ~(Reject(r) /\ UNCHANGED plan)
  <2> DEFINE new == [id |-> <<r, Len(plan[r])>>, slot |-> Segment(r), group |-> r]
  <2>1. Advance(r) /\ UNCHANGED <<events, held>> /\ pc[r] = "create"
    BY <1>2 DEF Create
  <2>2. /\ tx'[r].events = tx[r].events \union {new}
        /\ \A s \in Requests \ {r} : tx'[s].events = tx[s].events
    BY <1>2 DEF Create, TypeInv, TypeOK, Tx
  <2>3. new.slot = Segment(r)
    OBVIOUS
  <2>4. /\ Key(Segment(r)) \in held[r]
        /\ \A e \in events \union tx[r].events : e.slot # Segment(r)
    BY <2>1 DEF SlotInv, SegmentLocked, CreateIsNew, Locked
  <2> HIDE DEF new
  <2>5. OwnLocked'
    BY <2>1, <2>2, <2>3, <2>4 DEF SlotInv, OwnLocked, Key
  <2>6. OwnApart'
    BY <2>1, <2>2, <2>3, <2>4 DEF SlotInv, OwnApart
  <2>7. SegmentLocked'
    BY <2>1, AdvanceMoves DEF SlotInv, SegmentLocked, Segment, Key
  <2>8. CreateIsNew'
    BY <2>1, <2>2, AdvanceMoves DEF SlotInv, CreateIsNew, Segment, Locked
  <2> QED
    BY <2>1, <2>5, <2>6, <2>7, <2>8 DEF SlotInv, SlotOnce, LocksApart
<1> QED
  BY <1>1, <1>2

\* Regrouping moves rows between groups and never between slots.
LEMMA RegroupedSlots ==
    ASSUME TypeOK, NEW r \in Requests
    PROVE  \A e \in Regrouped(r) :
             \E f \in EventsSeen(r) : /\ e.slot = f.slot
                                      /\ \A g \in Regrouped(r) :
                                           (\A h \in EventsSeen(r) : h.slot = g.slot => h = f)
                                             => (e.slot = g.slot => e = g)
<1>1. EventsSeen(r) \subseteq Event
  BY DEF TypeOK, Tx, EventsSeen
<1> DEFINE core == tx[r].core
           Moves(e) == \E i \in DOMAIN core : core[i].id = e.id
           To(e) == IF Moves(e) THEN [e EXCEPT !.group = core[1].group] ELSE e
<1>2. \A e \in EventsSeen(r) : To(e).slot = e.slot
  BY <1>1 DEF Event
<1>3. CASE core = <<>>
  BY <1>3 DEF Regrouped
<1>4. CASE core # <<>>
  <2>1. Regrouped(r) = {To(e) : e \in EventsSeen(r)}
    BY <1>4 DEF Regrouped
  <2> HIDE DEF To
  <2> QED
    BY <1>2, <2>1
<1> QED
  BY <1>3, <1>4

LEMMA SlotCommit ==
    ASSUME TypeInv, SlotInv, NEW r \in Requests, Commit(r)
    PROVE  SlotInv'
<1> USE DEF tables, planning
<1>1. CASE Reject(r) /\ UNCHANGED tables
  BY <1>1, SlotRejects DEF Commit
<1>2. CASE ~(Reject(r) /\ UNCHANGED tables)
  <2>1. events' = Regrouped(r) /\ Goto(r, "booked") /\ EndTx(r) /\ UNCHANGED plan
    BY <1>2 DEF Commit
  <2>2. \A e, f \in EventsSeen(r) : e.slot = f.slot => e = f
    BY DEF SlotInv, SlotOnce, OwnApart, EventsSeen
  <2>3. SlotOnce'
    BY <2>1, <2>2, RegroupedSlots DEF SlotOnce, TypeInv
  <2>4. \A e \in events' : \E f \in events \union tx[r].events : e.slot = f.slot
    BY <2>1, RegroupedSlots DEF EventsSeen, TypeInv
  <2>5. /\ tx'[r].events = {} /\ held'[r] = {} /\ pc'[r] \notin Locked
        /\ \A s \in Requests \ {r} : tx'[s] = tx[s] /\ held'[s] = held[s] /\ pc'[s] = pc[s]
    BY <2>1 DEF EndTx, EmptyTx, Goto, Locked, TypeInv, TypeOK
  <2>6. \A s \in Requests \ {r} : held[r] \intersect held[s] = {}
    BY DEF SlotInv, LocksApart
  <2>7. \A s \in Requests \ {r}, f \in tx[r].events : Key(f.slot) \notin held[s]
    BY <2>6 DEF SlotInv, OwnLocked
  <2>8. OwnApart'
    <3>1. \A s \in Requests \ {r}, e \in events' :
            \A g \in tx[s].events : e.slot # g.slot
      BY <2>4, <2>7 DEF SlotInv, OwnLocked, OwnApart
    <3> QED
      BY <2>5, <3>1 DEF SlotInv, OwnApart
  <2>9. CreateIsNew'
    <3>1. ASSUME NEW s \in Requests \ {r}, pc[s] = "create"
          PROVE  \A e \in events' : e.slot # Segment(s)
      <4>1. Key(Segment(s)) \in held[s] /\ \A e \in events : e.slot # Segment(s)
        BY <3>1 DEF SlotInv, SegmentLocked, CreateIsNew, Locked
      <4> QED
        BY <2>4, <2>7, <4>1
    <3>2. \A s \in Requests \ {r} :
            pc[s] = "create" => \A e \in tx[s].events : e.slot # Segment(s)
      BY DEF SlotInv, CreateIsNew
    <3> QED
      BY <2>1, <2>5, <3>1, <3>2 DEF CreateIsNew, Segment, Locked
  <2>10. LocksApart' /\ OwnLocked'
    BY <2>5 DEF SlotInv, LocksApart, OwnLocked, Key
  <2>11. SegmentLocked'
    BY <2>1, <2>5 DEF SlotInv, SegmentLocked, Segment, Key
  <2> QED
    BY <2>3, <2>8, <2>9, <2>10, <2>11 DEF SlotInv
<1> QED
  BY <1>1, <1>2

LEMMA SlotCancellation ==
    ASSUME TypeInv, SlotInv, NEW k \in Cancels, CancelStep(k)
    PROVE  SlotInv'
<1> USE DEF tables, planning
<1>1. UNCHANGED <<pc, plan, tx, held>>
  BY DEF CancelStep, CancelRead, CancelIndividual, CancelSeat, DeleteEvents,
         DeleteSeats, DeleteGroup
<1>2. events' \subseteq events
  BY DEF CancelStep, CancelRead, CancelIndividual, CancelSeat, DeleteEvents,
         DeleteSeats, DeleteGroup
<1> QED
  BY <1>1, <1>2, SlotShrinks

LEMMA SlotInit == Init => SlotInv
BY DEF Init, SlotInv, SlotOnce, LocksApart, OwnLocked, OwnApart, SegmentLocked,
       CreateIsNew, Locked, EmptyTx

LEMMA SlotStep == TypeInv /\ SlotInv /\ [Next]_vars => SlotInv'
<1> SUFFICES ASSUME TypeInv, SlotInv, [Next]_vars PROVE SlotInv'
  OBVIOUS
<1>1. ASSUME NEW r \in Requests, RequestStep(r) \/ Abort(r) PROVE SlotInv'
  <2>1. CASE Abort(r)
    <3>1. "aborted" \notin Locked
      BY DEF Locked
    <3> QED
      BY <2>1, <3>1, SlotMoves DEF Abort, tables, planning
  <2>2. CASE RequestStep(r)
    BY <2>2, SlotPlanning, SlotLock, SlotFind, SlotJoin, SlotCreate, SlotCommit
    DEF RequestStep
  <2> QED
    BY <1>1, <2>1, <2>2
<1>2. ASSUME NEW k \in Cancels, CancelStep(k) PROVE SlotInv'
  BY <1>2, SlotCancellation
<1>3. CASE HoldExpires
  BY <1>3, SlotShrinks DEF HoldExpires, tables
<1>4. CASE UNCHANGED vars
  BY <1>4, SlotShrinks DEF vars
<1> QED
  BY <1>1, <1>2, <1>3, <1>4 DEF Next

\* Two committed events never stand at the same slot, whatever the clients
\* book and cancel, for any number of services, professionals and requests:
\* the advisory lock on professional, service and start covers the lookup,
\* the insertion and the commit.
THEOREM NoSlotTwice == Spec => []SlotOnce
<1>1. SlotInv => SlotOnce
  BY DEF SlotInv
<1> QED
  BY <1>1, SlotInit, SlotStep, TypeInit, TypeStep, PTL DEF Spec

-----------------------------------------------------------------------------
(***************************************************************************)
(* Why two overlapping events of one professional, service and start never *)
(* come about: for any requests, cancellations, clients and services.      *)
(*                                                                         *)
(* An event of an open transaction overlaps no event of its key that is    *)
(* committed and live.  Other transactions keep this true: what they       *)
(* insert, and what they move between groups, has keys that they hold.     *)
(* That a transaction holds the keys of the events it moves follows from   *)
(* the ids it has collected, which name one slot each.                     *)
(***************************************************************************)

HIDE BookingAssumption

Clash(s, t) == Key(s) = Key(t) /\ Overlap(s, t)

LEMMA ClashSymmetric ==
    ASSUME NEW s, NEW t, Clash(s, t)
    PROVE  Clash(t, s)
BY DEF Clash, Overlap

\* The request that gave an id, and the number it gave
Owner(id) == id[1]
Number(id) == id[2]

LEMMA Ids ==
    ASSUME TypeOK
    PROVE  /\ \A id \in Requests \X Nat : Owner(id) \in Requests /\ Number(id) \in Nat
           /\ \A r \in Requests, n \in Nat : Owner(<<r, n>>) = r /\ Number(<<r, n>>) = n
           /\ \A e \in Event : e.id \in Requests \X Nat /\ e.group \in Requests
           /\ \A c \in Core : c.id \in Requests \X Nat /\ c.group \in Requests
           /\ \A e \in events : e \in Event
           /\ \A r \in Requests : \A e \in tx[r].events : e \in Event
BY DEF Owner, Number, Event, Core, TypeOK, Tx

NameOf(e) == [id |-> e.id, group |-> e.group]

\* The events that a transaction has found, joined or inserted, by their names
Named(t) ==
    {t.core[i] : i \in DOMAIN t.core}
      \union {NameOf(f.event) : f \in {g \in {t.found} : g.some}}

\* What r can know of: its own rows and those of requests that have committed
KnownTo(r, s) == s = r \/ pc[s] = "booked"

Committed == \A e \in events : pc[Owner(e.id)] = "booked" /\ pc[e.group] = "booked"

IdNamesSlot == \A e, f \in events : e.id = f.id => e.slot = f.slot

OwnRows ==
    \A r \in Requests :
        /\ \A g \in tx[r].groups : g.id = r
        /\ \A e \in tx[r].events :
             /\ pc[r] \in InTx
             /\ Owner(e.id) = r /\ Number(e.id) > Len(plan[r])
             /\ e.group = r /\ LiveIn(e, tx[r].groups)
        /\ \A e, f \in tx[r].events :
             e # f => e.id # f.id /\ ~Clash(e.slot, f.slot)

\* The name is one that r can know, and the key of its event is locked.
Backed(r, c) ==
    /\ KnownTo(r, Owner(c.id)) /\ KnownTo(r, c.group)
    /\ \A e \in EventsSeen(r) : e.id = c.id => Key(e.slot) \in held[r]

NamesBacked == \A r \in Requests : \A c \in Named(tx[r]) : Backed(r, c)

ClashesAreDead ==
    \A r \in Requests : \A e \in tx[r].events, f \in events :
        Clash(e.slot, f.slot) => ~Live(f)

ApartInv ==
    /\ Committed
    /\ IdNamesSlot
    /\ OwnRows
    /\ NamesBacked
    /\ ClashesAreDead

LEMMA NamedTypes ==
    ASSUME TypeInv, NEW r \in Requests
    PROVE  Named(tx[r]) \subseteq Core
<1>1. tx[r] \in Tx
  BY DEF TypeInv, TypeOK
<1>2. \A i \in DOMAIN tx[r].core : tx[r].core[i] \in Core
  <2>1. tx[r].core \in Seq(Core)
    BY <1>1 DEF Tx
  <2> QED
    BY <2>1, ElementOfSeq, LenProperties
<1>3. tx[r].found.some => tx[r].found.event \in Event
  BY <1>1 DEF Tx, Found
<1>4. \A e \in Event : NameOf(e) \in Core
  BY DEF NameOf, Event, Core
<1> QED
  BY <1>2, <1>3, <1>4 DEF Named

LEMMA EmptyNames ==
    /\ Named(EmptyTx) = {}
    /\ EmptyTx.events = {} /\ EmptyTx.groups = {}
BY DEF Named, EmptyTx

\* A step that inserts nothing, names nothing and revives nothing: each
\* transaction goes on or ends.
LEMMA ApartKeeps ==
    ASSUME TypeInv, ApartInv,
           events' \subseteq events,
           \A f \in events : LiveIn(f, groups') => Live(f),
           \A s \in Requests : pc[s] = "booked" => pc'[s] = "booked",
           \A s \in Requests :
             \/ tx'[s] = EmptyTx
             \/ /\ tx'[s] = tx[s]
                /\ held[s] \subseteq held'[s]
                /\ pc[s] \in InTx => pc'[s] \in InTx /\ plan'[s] = plan[s]
    PROVE  ApartInv'
<1>0. /\ \A e \in events : Owner(e.id) \in Requests /\ e.group \in Requests
      /\ \A s \in Requests : \A c \in Named(tx[s]) :
           Owner(c.id) \in Requests /\ c.group \in Requests
  <2>1. \A e \in events : Owner(e.id) \in Requests /\ e.group \in Requests
    BY Ids DEF TypeInv
  <2>2. ASSUME NEW s \in Requests
        PROVE  Named(tx[s]) \subseteq Core
    BY NamedTypes
  <2> QED
    BY <2>1, <2>2, Ids DEF TypeInv
<1>1. Committed'
  BY <1>0 DEF ApartInv, Committed
<1>2. IdNamesSlot'
  BY DEF ApartInv, IdNamesSlot
<1>3. OwnRows'
  BY EmptyNames DEF ApartInv, OwnRows, Clash, Key, Overlap, LiveIn
<1>4. NamesBacked'
  <2> SUFFICES ASSUME NEW s \in Requests, NEW c \in Named(tx'[s])
               PROVE  Backed(s, c)'
    BY DEF NamesBacked
  <2>1. tx'[s] = tx[s] /\ held[s] \subseteq held'[s]
    BY EmptyNames
  <2>2. Backed(s, c)
    BY <2>1 DEF ApartInv, NamesBacked
  <2>3. KnownTo(s, Owner(c.id))' /\ KnownTo(s, c.group)'
    BY <1>0, <2>1, <2>2 DEF Backed, KnownTo
  <2> QED
    BY <2>1, <2>2, <2>3 DEF Backed, EventsSeen, Key
<1>5. ClashesAreDead'
  BY EmptyNames DEF ApartInv, ClashesAreDead, Clash, Key, Overlap, Live
<1> QED
  BY <1>1, <1>2, <1>3, <1>4, <1>5 DEF ApartInv

\* A step of one transaction that adds backed names to those it has
GoesOn(r) ==
    /\ events' = events /\ groups' = groups /\ held' = held
    /\ pc[r] # "booked" /\ pc'[r] \in InTx
    /\ Len(plan'[r]) <= Len(plan[r]) /\ Len(plan'[r]) \in Nat /\ Len(plan[r]) \in Nat
    /\ \A s \in Requests \ {r} : pc'[s] = pc[s] /\ plan'[s] = plan[s] /\ tx'[s] = tx[s]

AddsNames(r) ==
    /\ tx'[r].events = tx[r].events /\ tx'[r].groups = tx[r].groups
    /\ \A c \in Named(tx'[r]) : c \in Named(tx[r]) \/ (c \in Core /\ Backed(r, c))

LEMMA ApartNames ==
    ASSUME TypeInv, ApartInv, NEW r \in Requests, GoesOn(r), AddsNames(r)
    PROVE  ApartInv'
<1> USE DEF GoesOn, AddsNames
<1>1. \A s \in Requests : pc[s] = "booked" => pc'[s] = "booked"
  OBVIOUS
<1>2. \A s \in Requests : tx'[s].events = tx[s].events /\ tx'[s].groups = tx[s].groups
  OBVIOUS
<1>3. Committed'
  BY <1>1, Ids DEF ApartInv, Committed, TypeInv
<1>4. IdNamesSlot'
  BY DEF ApartInv, IdNamesSlot
<1>5. OwnRows'
  <2> SUFFICES ASSUME NEW s \in Requests
               PROVE  /\ \A g \in tx[s].groups : g.id = s
                      /\ \A e \in tx[s].events :
                           /\ pc'[s] \in InTx
                           /\ Owner(e.id) = s /\ Number(e.id) > Len(plan'[s])
                           /\ e.group = s /\ LiveIn(e, tx[s].groups)
                      /\ \A e, f \in tx[s].events :
                           e # f => e.id # f.id /\ ~Clash(e.slot, f.slot)
    BY <1>2 DEF OwnRows, Clash, Key, Overlap, LiveIn
  <2>1. \A e \in tx[s].events : Number(e.id) \in Nat
    BY Ids DEF TypeInv
  <2> QED
    BY <2>1 DEF ApartInv, OwnRows
<1>6. NamesBacked'
  <2> SUFFICES ASSUME NEW s \in Requests, NEW c \in Named(tx'[s])
               PROVE  Backed(s, c)'
    BY DEF NamesBacked
  <2>1. Backed(s, c)
    BY DEF ApartInv, NamesBacked
  <2>2. Owner(c.id) \in Requests /\ c.group \in Requests
    BY NamedTypes, Ids DEF TypeInv
  <2>3. KnownTo(s, Owner(c.id))' /\ KnownTo(s, c.group)'
    BY <1>1, <2>1, <2>2 DEF Backed, KnownTo
  <2> QED
    BY <1>2, <2>1, <2>3 DEF Backed, EventsSeen, Key
<1>7. ClashesAreDead'
  BY <1>2 DEF ApartInv, ClashesAreDead, Clash, Key, Overlap, Live, LiveIn
<1> QED
  BY <1>3, <1>4, <1>5, <1>6, <1>7 DEF ApartInv

LEMMA Advances ==
    ASSUME TypeInv, NEW r \in Requests, pc[r] \in Segmented, Advance(r)
    PROVE  /\ Len(plan[r]) \in Nat \ {0}
           /\ Len(plan'[r]) = Len(plan[r]) - 1
           /\ pc'[r] \in InTx /\ pc[r] # "booked"
           /\ \A s \in Requests \ {r} : pc'[s] = pc[s] /\ plan'[s] = plan[s]
<1>1. plan[r] \in Seq(Slot) /\ plan[r] # <<>>
  BY DEF TypeInv, TypeOK, PlanOK
<1>2. Len(Tail(plan[r])) = Len(plan[r]) - 1 /\ Len(plan[r]) \in Nat \ {0}
  BY <1>1, HeadTailProperties, EmptySeq
<1> QED
  BY <1>2 DEF Advance, Goto, InTx, Segmented, TypeInv, TypeOK

\* A sequence to which at most one element is added
LEMMA Extended ==
    ASSUME NEW S, NEW s \in Seq(S), NEW x, NEW t, t = <<x>> \/ t = <<>>
    PROVE  \A i \in DOMAIN (s \o t) : \/ i \in DOMAIN s /\ (s \o t)[i] = s[i]
                                      \/ (s \o t)[i] = x
<1>1. CASE t = <<>>
  BY <1>1
<1>2. CASE t = <<x>>
  <2>1. s \o t = Append(s, x)
    BY <1>2
  <2>2. s \in Seq(S \union {x})
    OBVIOUS
  <2>3. /\ Len(Append(s, x)) = Len(s) + 1
        /\ \A i \in 1..Len(s) : Append(s, x)[i] = s[i]
        /\ Append(s, x)[Len(s) + 1] = x
    BY <2>2, AppendProperties
  <2>4. DOMAIN Append(s, x) = 1..Len(s) + 1 /\ DOMAIN s = 1..Len(s) /\ Len(s) \in Nat
    BY <2>2, <2>3, AppendProperties, LenProperties
  <2> QED
    BY <2>1, <2>3, <2>4
<1> QED
  BY <1>1, <1>2

\* What a request finds at its segment is named once, and its key is locked.
LEMMA FoundIsBacked ==
    ASSUME TypeInv, SlotInv, ApartInv, NEW r \in Requests, pc[r] = "find",
           NEW e \in EventsSeen(r), e.slot = Segment(r)
    PROVE  NameOf(e) \in Core /\ Backed(r, NameOf(e))
<1>1. e \in Event
  BY Ids DEF EventsSeen, TypeInv
<1>2. NameOf(e) \in Core /\ NameOf(e).id = e.id /\ NameOf(e).group = e.group
  BY <1>1 DEF NameOf, Event, Core
<1>3. KnownTo(r, Owner(e.id)) /\ KnownTo(r, e.group)
  BY DEF ApartInv, Committed, OwnRows, KnownTo, EventsSeen
<1>4. ASSUME NEW f \in EventsSeen(r), f.id = e.id
      PROVE  Key(f.slot) \in held[r]
  <2>1. CASE f \in tx[r].events
    BY <2>1 DEF SlotInv, OwnLocked
  <2>2. CASE f \in events
    <3>1. e \in events
      BY <1>4, <2>2 DEF ApartInv, Committed, OwnRows, EventsSeen
    <3>2. f.slot = Segment(r)
      BY <1>4, <2>2, <3>1 DEF ApartInv, IdNamesSlot
    <3> QED
      BY <3>2 DEF SlotInv, SegmentLocked, Locked
  <2> QED
    BY <2>1, <2>2 DEF EventsSeen
<1> QED
  BY <1>2, <1>3, <1>4 DEF Backed

LEMMA ApartFind ==
    ASSUME TypeInv, SlotInv, ApartInv, NEW r \in Requests, Find(r)
    PROVE  ApartInv'
<1> USE DEF tables, planning
<1>1. /\ UNCHANGED <<events, groups, plan, held>> /\ pc[r] = "find"
      /\ pc'[r] \in InTx
      /\ \A s \in Requests \ {r} : pc'[s] = pc[s] /\ plan'[s] = plan[s]
  BY DEF Find, Goto, InTx, TypeInv, TypeOK
<1>2. Len(plan[r]) \in Nat
  BY Segments, <1>1 DEF Segmented
<1>3. CASE UNCHANGED tx
  <2>1. GoesOn(r)
    BY <1>1, <1>2, <1>3 DEF GoesOn
  <2>2. AddsNames(r)
    BY <1>3 DEF AddsNames
  <2> QED
    BY <2>1, <2>2, ApartNames
<1>4. CASE ~ UNCHANGED tx
  <2>1. PICK e \in EventsSeen(r) :
          /\ e.slot = Segment(r)
          /\ tx' = [tx EXCEPT ![r].found = [some |-> TRUE, event |-> e]]
    BY <1>4 DEF Find
  <2> DEFINE new == [tx[r] EXCEPT !.found = [some |-> TRUE, event |-> e]]
  <2>2. tx \in [Requests -> Tx] /\ tx[r] \in Tx
    BY DEF TypeInv, TypeOK
  <2>3. /\ new.events = tx[r].events /\ new.groups = tx[r].groups
        /\ new.core = tx[r].core
        /\ new.found = [some |-> TRUE, event |-> e]
    BY <2>2 DEF Tx
  <2>4. tx' = [tx EXCEPT ![r] = new]
    BY <2>1
  <2> HIDE DEF new
  <2>5. tx'[r] = new /\ \A s \in Requests \ {r} : tx'[s] = tx[s]
    BY <2>2, <2>4
  <2>6. \A c \in Named(new) : c \in Named(tx[r]) \/ c = NameOf(e)
    BY <2>3 DEF Named
  <2>7. NameOf(e) \in Core /\ Backed(r, NameOf(e))
    BY <1>1, <2>1, FoundIsBacked
  <2>8. GoesOn(r)
    BY <1>1, <1>2, <2>5 DEF GoesOn
  <2>9. AddsNames(r)
    <3>1. \A c \in Named(tx'[r]) : c \in Named(tx[r]) \/ c = NameOf(e)
      BY <2>5, <2>6
    <3>2. \A c \in Named(tx'[r]) : c \in Named(tx[r]) \/ (c \in Core /\ Backed(r, c))
      BY <2>7, <3>1
    <3> QED
      BY <2>3, <2>5, <3>2 DEF AddsNames
  <2> QED
    BY <2>8, <2>9, ApartNames
<1> QED
  BY <1>3, <1>4

\* A transaction that ends without a commit
LEMMA ApartEnds ==
    ASSUME TypeInv, ApartInv, NEW r \in Requests, NEW label,
           pc[r] # "booked", Goto(r, label), EndTx(r), UNCHANGED <<events, groups, plan>>
    PROVE  ApartInv'
<1>1. \A s \in Requests \ {r} :
        tx'[s] = tx[s] /\ held'[s] = held[s] /\ pc'[s] = pc[s]
  BY DEF EndTx, Goto, TypeInv, TypeOK
<1>2. tx'[r] = EmptyTx
  BY DEF EndTx, TypeInv, TypeOK
<1>3. \A s \in Requests : pc[s] = "booked" => pc'[s] = "booked"
  BY <1>1
<1>4. \A f \in events : LiveIn(f, groups') => Live(f)
  BY DEF Live
<1> QED
  BY <1>1, <1>2, <1>3, <1>4, ApartKeeps

LEMMA ApartJoin ==
    ASSUME TypeInv, SlotInv, ApartInv, NEW r \in Requests, Join(r)
    PROVE  ApartInv'
<1> USE DEF tables, planning
<1>0. pc[r] = "join" /\ UNCHANGED <<events, groups>>
  BY DEF Join
<1>1. CASE Reject(r) /\ UNCHANGED plan
  BY <1>0, <1>1, ApartEnds DEF Reject
<1>2. CASE ~(Reject(r) /\ UNCHANGED plan)
  <2>1. Advance(r) /\ UNCHANGED held
    BY <1>2 DEF Join
  <2> DEFINE e == tx[r].found.event
             Joined(rows) == [tx[r] EXCEPT !.seats = @ \union rows,
                                           !.core = @ \o CoreOf(r, e),
                                           !.found = [some |-> FALSE]]
  <2>2. PICK rows : tx' = [tx EXCEPT ![r] = Joined(rows)]
    BY <1>2 DEF Join
  <2>3. tx \in [Requests -> Tx] /\ tx[r] \in Tx
    BY DEF TypeInv, TypeOK
  <2>4. /\ Joined(rows).events = tx[r].events /\ Joined(rows).groups = tx[r].groups
        /\ Joined(rows).core = tx[r].core \o CoreOf(r, e)
        /\ Joined(rows).found = [some |-> FALSE]
    BY <2>3 DEF Tx
  <2> HIDE DEF Joined
  <2>5. tx'[r] = Joined(rows) /\ \A s \in Requests \ {r} : tx'[s] = tx[s]
    BY <2>2, <2>3
  <2>6. tx[r].found.some /\ NameOf(e) \in Named(tx[r])
    BY <1>0 DEF TypeInv, FoundOK, Named
  <2>7. CoreOf(r, e) = <<NameOf(e)>> \/ CoreOf(r, e) = <<>>
    BY DEF CoreOf, NameOf
  <2>8. tx[r].core \in Seq(Core)
    BY <2>3 DEF Tx
  <2> DEFINE old == tx[r].core
             longer == Joined(rows).core
  <2>9. \A i \in DOMAIN longer : \/ i \in DOMAIN old /\ longer[i] = old[i]
                                 \/ longer[i] = NameOf(e)
    <3> DEFINE name == NameOf(e)
               more == CoreOf(r, e)
    <3>1. old \in Seq(Core) /\ (more = <<name>> \/ more = <<>>)
      BY <2>7, <2>8
    <3> HIDE DEF old, name, more
    <3>2. \A i \in DOMAIN (old \o more) : \/ i \in DOMAIN old /\ (old \o more)[i] = old[i]
                                         \/ (old \o more)[i] = name
      BY <3>1, Extended
    <3> QED
      BY <2>4, <3>2 DEF old, name, more
  <2> HIDE DEF longer, e
  <2>10. \A c \in Named(Joined(rows)) : c \in Named(tx[r])
    <3>1. \A c \in Named(Joined(rows)) : \E i \in DOMAIN longer : c = longer[i]
      BY <2>4 DEF Named, longer
    <3>2. \A i \in DOMAIN old : old[i] \in Named(tx[r])
      BY DEF Named
    <3> QED
      BY <2>6, <2>9, <3>1, <3>2
  <2>11. GoesOn(r)
    <3>1. pc[r] \in Segmented
      BY <1>0 DEF Segmented
    <3> QED
      BY <1>0, <2>1, <2>5, <3>1, Advances DEF GoesOn
  <2>12. AddsNames(r)
    BY <2>4, <2>5, <2>10 DEF AddsNames
  <2> QED
    BY <2>11, <2>12, ApartNames
<1> QED
  BY <1>1, <1>2

\* What Create inserts when it has seen no conflict
NewRow(r) == [id |-> <<r, Len(plan[r])>>, slot |-> Segment(r), group |-> r]

NoConflict(r) ==
    \A f \in EventsSeen(r) :
        LiveIn(f, GroupsSeen(r)) /\ f.slot.user = Segment(r).user
            => ~Overlap(f.slot, Segment(r))

LEMMA NewRowIsApart ==
    ASSUME TypeInv, SlotInv, ApartInv, NEW r \in Requests, pc[r] = "create",
           NoConflict(r)
    PROVE  /\ NewRow(r) \in Event
           /\ Owner(NewRow(r).id) = r /\ Number(NewRow(r).id) = Len(plan[r])
           /\ NewRow(r).group = r
           /\ Key(NewRow(r).slot) \in held[r]
           /\ \A f \in EventsSeen(r) : f.id # NewRow(r).id
           /\ \A f \in tx[r].events :
                ~Clash(f.slot, NewRow(r).slot) /\ ~Clash(NewRow(r).slot, f.slot)
           /\ \A f \in events : Clash(NewRow(r).slot, f.slot) => ~Live(f)
<1> DEFINE e == NewRow(r)
<1>0. pc[r] \in Segmented /\ pc[r] \in Locked
  BY DEF Segmented, Locked
<1>1. Segment(r) \in Slot /\ Len(plan[r]) \in Nat \ {0}
  BY <1>0, Segments
<1>2. e.id = <<r, Len(plan[r])>> /\ e.slot = Segment(r) /\ e.group = r
  BY DEF NewRow
<1>3. e \in Event
  BY <1>1 DEF Event, NewRow
<1>4. Owner(e.id) = r /\ Number(e.id) = Len(plan[r])
  BY <1>1, <1>2, Ids DEF TypeInv
<1>5. Key(e.slot) \in held[r]
  BY <1>0, <1>2 DEF SlotInv, SegmentLocked
<1>6. ASSUME NEW f \in EventsSeen(r)
      PROVE  f.id # e.id
  <2>1. CASE f \in events
    BY <1>4, <2>1 DEF ApartInv, Committed
  <2>2. CASE f \in tx[r].events
    <3>1. Number(f.id) > Len(plan[r])
      BY <2>2 DEF ApartInv, OwnRows
    <3> QED
      BY <1>1, <1>4, <3>1
  <2> QED
    BY <2>1, <2>2 DEF EventsSeen
<1>7. ASSUME NEW f \in EventsSeen(r), LiveIn(f, GroupsSeen(r))
      PROVE  ~Clash(f.slot, Segment(r))
  BY <1>7 DEF NoConflict, Clash, Key
<1>8. ASSUME NEW f \in tx[r].events
      PROVE  ~Clash(f.slot, e.slot) /\ ~Clash(e.slot, f.slot)
  <2>1. LiveIn(f, GroupsSeen(r))
    BY DEF ApartInv, OwnRows, LiveIn, GroupsSeen
  <2> QED
    BY <1>2, <1>7, <2>1, ClashSymmetric DEF EventsSeen
<1>9. ASSUME NEW f \in events, Live(f)
      PROVE  ~Clash(e.slot, f.slot)
  <2>1. LiveIn(f, GroupsSeen(r))
    BY <1>9 DEF Live, LiveIn, GroupsSeen
  <2> QED
    BY <1>2, <1>7, <2>1, ClashSymmetric DEF EventsSeen
<1> QED
  BY <1>2, <1>3, <1>4, <1>5, <1>6, <1>8, <1>9

\* A step of one transaction that inserts the new row
Inserts(r) ==
    /\ events' = events /\ groups' = groups /\ held' = held
    /\ pc[r] # "booked" /\ pc'[r] \in InTx
    /\ Len(plan[r]) \in Nat \ {0} /\ Len(plan'[r]) = Len(plan[r]) - 1
    /\ \A s \in Requests \ {r} : pc'[s] = pc[s] /\ plan'[s] = plan[s] /\ tx'[s] = tx[s]
    /\ tx'[r].events = tx[r].events \union {NewRow(r)}
    /\ tx'[r].groups = tx[r].groups \union {[id |-> r, status |-> NewStatus]}
    /\ \A c \in Named(tx'[r]) : c \in Named(tx[r]) \/ c = NameOf(NewRow(r))

LEMMA ApartInserts ==
    ASSUME TypeInv, SlotInv, ApartInv, NEW r \in Requests, pc[r] = "create",
           NoConflict(r), Inserts(r)
    PROVE  ApartInv'
<1> DEFINE e == NewRow(r)
<1>0. /\ Owner(e.id) = r /\ Number(e.id) = Len(plan[r])
      /\ e.group = r /\ Key(e.slot) \in held[r]
      /\ \A f \in EventsSeen(r) : f.id # e.id
      /\ \A f \in tx[r].events : ~Clash(f.slot, e.slot) /\ ~Clash(e.slot, f.slot)
      /\ \A f \in events : Clash(e.slot, f.slot) => ~Live(f)
  BY NewRowIsApart
<1>1. /\ tx'[r].events = tx[r].events \union {e}
      /\ tx'[r].groups = tx[r].groups \union {[id |-> r, status |-> NewStatus]}
      /\ \A c \in Named(tx'[r]) : c \in Named(tx[r]) \/ c = NameOf(e)
  BY DEF Inserts
<1>2. /\ events' = events /\ groups' = groups /\ held' = held
      /\ \A s \in Requests : pc[s] = "booked" => pc'[s] = "booked"
      /\ \A s \in Requests \ {r} : pc'[s] = pc[s] /\ plan'[s] = plan[s] /\ tx'[s] = tx[s]
      /\ pc'[r] \in InTx
      /\ Len(plan[r]) \in Nat \ {0} /\ Len(plan'[r]) = Len(plan[r]) - 1
  BY DEF Inserts
<1> HIDE DEF e
<1>3. Committed'
  BY <1>2, Ids DEF ApartInv, Committed, TypeInv
<1>4. IdNamesSlot'
  BY <1>2 DEF ApartInv, IdNamesSlot
<1>5. OwnRows'
  <2>1. ASSUME NEW s \in Requests \ {r}
        PROVE  /\ \A g \in tx'[s].groups : g.id = s
               /\ \A x \in tx'[s].events :
                    /\ pc'[s] \in InTx
                    /\ Owner(x.id) = s /\ Number(x.id) > Len(plan'[s])
                    /\ x.group = s /\ LiveIn(x, tx'[s].groups)
               /\ \A x, f \in tx'[s].events :
                    x # f => x.id # f.id /\ ~Clash(x.slot, f.slot)
    BY <1>2 DEF ApartInv, OwnRows
  <2>2. \A g \in tx'[r].groups : g.id = r
    BY <1>1 DEF ApartInv, OwnRows
  <2>3. ASSUME NEW x \in tx'[r].events
        PROVE  /\ Owner(x.id) = r /\ Number(x.id) > Len(plan'[r])
               /\ x.group = r /\ LiveIn(x, tx'[r].groups)
    <3>1. CASE x = e
      <4>1. [id |-> r, status |-> NewStatus] \in tx'[r].groups /\ NewStatus # CancelledByClient
        BY <1>1 DEF NewStatus, CancelledByClient
      <4>2. LiveIn(x, tx'[r].groups)
        BY <1>0, <3>1, <4>1 DEF LiveIn
      <4> QED
        BY <1>0, <1>2, <3>1, <4>2
    <3>2. CASE x \in tx[r].events
      <4>1. Owner(x.id) = r /\ Number(x.id) > Len(plan[r]) /\ x.group = r
            /\ LiveIn(x, tx[r].groups) /\ Number(x.id) \in Nat
        BY <3>2, Ids DEF ApartInv, OwnRows, TypeInv
      <4>2. LiveIn(x, tx'[r].groups)
        BY <1>1, <4>1 DEF LiveIn
      <4> QED
        BY <1>2, <4>1, <4>2
    <3> QED
      BY <1>1, <3>1, <3>2
  <2>4. \A x, f \in tx'[r].events : x # f => x.id # f.id /\ ~Clash(x.slot, f.slot)
    BY <1>0, <1>1 DEF ApartInv, OwnRows, EventsSeen
  <2>5. \A s \in Requests :
          /\ \A g \in tx'[s].groups : g.id = s
          /\ \A x \in tx'[s].events :
               /\ pc'[s] \in InTx
               /\ Owner(x.id) = s /\ Number(x.id) > Len(plan'[s])
               /\ x.group = s /\ LiveIn(x, tx'[s].groups)
          /\ \A x, f \in tx'[s].events :
               x # f => x.id # f.id /\ ~Clash(x.slot, f.slot)
    BY <1>2, <2>1, <2>2, <2>3, <2>4
  <2> QED
    BY <2>5 DEF OwnRows, Clash, Key, Overlap, LiveIn
<1>6. NamesBacked'
  <2> SUFFICES ASSUME NEW s \in Requests, NEW c \in Named(tx'[s])
               PROVE  Backed(s, c)'
    BY DEF NamesBacked
  <2>1. CASE c \in Named(tx[s])
    <3>1. Backed(s, c)
      BY <2>1 DEF ApartInv, NamesBacked
    <3>2. Owner(c.id) \in Requests /\ c.group \in Requests
      BY <2>1, NamedTypes, Ids DEF TypeInv
    <3>3. KnownTo(s, Owner(c.id))' /\ KnownTo(s, c.group)'
      BY <1>2, <3>1, <3>2 DEF Backed, KnownTo
    <3>4. \A x \in events' \union tx'[s].events : x.id = c.id => Key(x.slot) \in held[s]
      BY <1>0, <1>1, <1>2, <3>1 DEF Backed, EventsSeen
    <3> QED
      BY <1>2, <3>3, <3>4 DEF Backed, EventsSeen, Key
  <2>2. CASE c \notin Named(tx[s])
    <3>1. s = r /\ c = NameOf(e)
      BY <1>1, <1>2, <2>2
    <3>2. c.id = e.id /\ c.group = e.group
      BY <3>1 DEF NameOf
    <3>3. \A x \in events' \union tx'[s].events : x.id = c.id => Key(x.slot) \in held[s]
      BY <1>0, <1>1, <1>2, <3>1, <3>2 DEF EventsSeen
    <3> QED
      BY <1>0, <1>2, <3>1, <3>2, <3>3 DEF Backed, EventsSeen, Key, KnownTo
  <2> QED
    BY <2>1, <2>2
<1>7. ClashesAreDead'
  <2>1. \A s \in Requests : \A x \in tx'[s].events, f \in events :
          Clash(x.slot, f.slot) => ~Live(f)
    BY <1>0, <1>1, <1>2 DEF ApartInv, ClashesAreDead
  <2> QED
    BY <1>2, <2>1 DEF ClashesAreDead, Clash, Key, Overlap, Live, LiveIn
<1> QED
  BY <1>3, <1>4, <1>5, <1>6, <1>7 DEF ApartInv

LEMMA ApartCreate ==
    ASSUME TypeInv, SlotInv, ApartInv, NEW r \in Requests, Create(r)
    PROVE  ApartInv'
<1> USE DEF tables, planning
<1>0. pc[r] = "create" /\ UNCHANGED <<events, groups>>
  BY DEF Create
<1>1. CASE Reject(r) /\ UNCHANGED plan
  BY <1>0, <1>1, ApartEnds DEF Reject
<1>2. CASE ~(Reject(r) /\ UNCHANGED plan)
  <2> DEFINE e == NewRow(r)
             name == [id |-> e.id, group |-> r]
             seat == [id |-> r, group |-> r, client |-> Client(r), status |-> NewStatus]
             new == [tx[r] EXCEPT
                      !.events = @ \union {e},
                      !.groups = @ \union {[id |-> r, status |-> NewStatus]},
                      !.seats = @ \union {seat},
                      !.core = Append(@, name)]
  <2>1. Advance(r) /\ UNCHANGED held /\ tx' = [tx EXCEPT ![r] = new]
    BY <1>2 DEF Create, NewRow
  <2>2. NoConflict(r)
    BY <1>2 DEF Create, NoConflict
  <2>3. tx \in [Requests -> Tx] /\ tx[r] \in Tx /\ tx[r].core \in Seq(Core)
    BY DEF TypeInv, TypeOK, Tx
  <2>4. /\ new.events = tx[r].events \union {e}
        /\ new.groups = tx[r].groups \union {[id |-> r, status |-> NewStatus]}
        /\ new.core = Append(tx[r].core, name)
        /\ new.found = tx[r].found
    BY <2>3 DEF Tx
  <2>5. name = NameOf(e)
    BY DEF NameOf, NewRow
  <2> HIDE DEF new, e, name
  <2>6. tx'[r] = new /\ \A s \in Requests \ {r} : tx'[s] = tx[s]
    BY <2>1, <2>3
  <2> DEFINE old == tx[r].core
  <2>7. \A i \in DOMAIN Append(old, name) :
          \/ i \in DOMAIN old /\ Append(old, name)[i] = old[i]
          \/ Append(old, name)[i] = name
    <3>1. old \in Seq(Core \union {name}) /\ name \in Core \union {name}
      BY <2>3
    <3> HIDE DEF old
    <3>2. /\ Len(Append(old, name)) = Len(old) + 1
          /\ \A i \in 1..Len(old) : Append(old, name)[i] = old[i]
          /\ Append(old, name)[Len(old) + 1] = name
      BY <3>1, AppendProperties
    <3>3. DOMAIN Append(old, name) = 1..Len(old) + 1 /\ DOMAIN old = 1..Len(old)
          /\ Len(old) \in Nat
      BY <3>1, <3>2, AppendProperties, LenProperties
    <3> QED
      BY <3>2, <3>3
  <2>8. \A c \in Named(new) : c \in Named(tx[r]) \/ c = NameOf(e)
    <3>1. \A c \in Named(new) : \/ \E i \in DOMAIN Append(old, name) : c = Append(old, name)[i]
                                \/ \E f \in {g \in {tx[r].found} : g.some} : c = NameOf(f.event)
      BY <2>4 DEF Named
    <3>2. /\ \A i \in DOMAIN old : old[i] \in Named(tx[r])
          /\ \A f \in {g \in {tx[r].found} : g.some} : NameOf(f.event) \in Named(tx[r])
      BY DEF Named
    <3> HIDE DEF old
    <3> QED
      BY <2>5, <2>7, <3>1, <3>2
  <2>9. pc[r] \in Segmented
    BY <1>0 DEF Segmented
  <2>10. Inserts(r)
    BY <1>0, <2>1, <2>4, <2>6, <2>8, <2>9, Advances DEF Inserts, e
  <2> QED
    BY <1>0, <2>2, <2>10, ApartInserts
<1> QED
  BY <1>1, <1>2

\* A row that the transaction of r sees, as the commit leaves it
Moves(r, f) == tx[r].core # <<>> /\ \E i \in DOMAIN tx[r].core : tx[r].core[i].id = f.id

After(r, f) == IF Moves(r, f) THEN [f EXCEPT !.group = tx[r].core[1].group] ELSE f

\* What regrouping does to a row: it keeps id and slot, and what it moves is
\* named by the transaction, goes to a group named by it and is left nowhere
\* else.
LEMMA RegroupedRows ==
    ASSUME TypeInv, NEW r \in Requests
    PROVE  /\ Regrouped(r) = {After(r, f) : f \in EventsSeen(r)}
           /\ \A f \in EventsSeen(r) :
                /\ After(r, f).id = f.id /\ After(r, f).slot = f.slot
                /\ \/ After(r, f) = f
                   \/ /\ f \notin Regrouped(r)
                      /\ \E c \in Named(tx[r]) : c.id = f.id
                      /\ \E c \in Named(tx[r]) : After(r, f).group = c.group
<1> DEFINE core == tx[r].core
<1>1. EventsSeen(r) \subseteq Event
  BY Ids DEF EventsSeen, TypeInv
<1>2. \A f \in Event : \A g :
        /\ [f EXCEPT !.group = g].id = f.id /\ [f EXCEPT !.group = g].slot = f.slot
        /\ [f EXCEPT !.group = g].group = g
        /\ f.group = g => [f EXCEPT !.group = g] = f
  BY DEF Event
<1>3. Regrouped(r) = {After(r, f) : f \in EventsSeen(r)}
  BY DEF Regrouped, After, Moves
<1>4. core # <<>> => 1 \in DOMAIN core
  <2>1. core \in Seq(Core)
    BY DEF TypeInv, TypeOK, Tx
  <2> HIDE DEF core
  <2> QED
    BY <2>1, EmptySeq, LenProperties
<1>5. \A i \in DOMAIN core : core[i] \in Named(tx[r])
  BY DEF Named
<1>6. ASSUME NEW f \in EventsSeen(r)
      PROVE  After(r, f).id = f.id /\ After(r, f).slot = f.slot
  BY <1>1, <1>2 DEF After
<1>7. ASSUME NEW f \in EventsSeen(r), After(r, f) # f
      PROVE  /\ f \notin Regrouped(r)
             /\ \E c \in Named(tx[r]) : c.id = f.id
             /\ \E c \in Named(tx[r]) : After(r, f).group = c.group
  <2>1. Moves(r, f) /\ f.group # core[1].group /\ After(r, f).group = core[1].group
    BY <1>1, <1>2, <1>7 DEF After
  <2>2. \E c \in Named(tx[r]) : c.id = f.id
    BY <1>5, <2>1 DEF Moves
  <2>3. \E c \in Named(tx[r]) : After(r, f).group = c.group
    BY <1>4, <1>5, <2>1 DEF Moves
  <2>4. ASSUME NEW h \in EventsSeen(r), f = After(r, h)
        PROVE  FALSE
    <3>1. CASE Moves(r, h)
      BY <1>1, <1>2, <2>1, <2>4, <3>1 DEF After
    <3>2. CASE ~Moves(r, h)
      BY <2>1, <2>4, <3>2 DEF After
    <3> QED
      BY <3>1, <3>2
  <2> QED
    BY <1>3, <2>2, <2>3, <2>4
<1> QED
  BY <1>3, <1>6, <1>7

\* What a commit finds and leaves
Commits(r) ==
    /\ pc[r] = "commit" /\ pc' = [pc EXCEPT ![r] = "booked"]
    /\ events' = Regrouped(r)
    /\ groups' = GroupsSeen(r)
    /\ tx' = [tx EXCEPT ![r] = EmptyTx]
    /\ held' = [held EXCEPT ![r] = {}]
    /\ plan' = plan

\* The rows of r come in alive; those committed before are no more alive.
LEMMA NoneRevived ==
    ASSUME TypeInv, ApartInv, NEW r \in Requests, Commits(r), NEW f \in events,
           LiveIn(f, groups')
    PROVE  Live(f)
<1>1. f.group # r
  BY DEF ApartInv, Committed, Commits
<1> QED
  BY <1>1 DEF ApartInv, OwnRows, Commits, GroupsSeen, LiveIn, Live

LEMMA ApartCommits ==
    ASSUME TypeInv, SlotInv, ApartInv, NEW r \in Requests, Commits(r)
    PROVE  ApartInv'
<1>1. /\ \A s \in Requests \ {r} : pc'[s] = pc[s] /\ tx'[s] = tx[s] /\ held'[s] = held[s]
      /\ pc[r] = "commit" /\ pc'[r] = "booked"
      /\ tx'[r] = EmptyTx /\ plan' = plan
      /\ \A s \in Requests : pc[s] = "booked" => pc'[s] = "booked"
  BY DEF Commits, TypeInv, TypeOK
<1>2. \A e \in events' : \E f \in EventsSeen(r) :
        /\ e.id = f.id /\ e.slot = f.slot
        /\ \/ e = f
           \/ /\ \E c \in Named(tx[r]) : c.id = f.id
              /\ \E c \in Named(tx[r]) : e.group = c.group
  BY RegroupedRows DEF Commits
<1>3. \A f \in EventsSeen(r) :
        /\ Owner(f.id) \in Requests /\ f.group \in Requests
        /\ pc'[Owner(f.id)] = "booked" /\ pc'[f.group] = "booked"
  BY <1>1, Ids DEF ApartInv, Committed, OwnRows, EventsSeen, TypeInv
<1>4. \A c \in Named(tx[r]) :
        /\ pc'[c.group] = "booked"
        /\ \A f \in EventsSeen(r) : f.id = c.id => Key(f.slot) \in held[r]
  <2>1. \A c \in Named(tx[r]) : c.group \in Requests /\ Backed(r, c)
    BY NamedTypes, Ids DEF ApartInv, NamesBacked, TypeInv
  <2> QED
    BY <1>1, <2>1 DEF Backed, KnownTo
<1>5. Committed'
  <2>1. \A e \in events' : pc'[Owner(e.id)] = "booked" /\ pc'[e.group] = "booked"
    BY <1>2, <1>3, <1>4
  <2> QED
    BY <2>1 DEF Committed, Owner
<1>6. IdNamesSlot'
  <2>1. \A e, f \in EventsSeen(r) : e.id = f.id => e.slot = f.slot
    <3>1. \A e \in events, f \in tx[r].events : e.id # f.id
      BY <1>1 DEF ApartInv, Committed, OwnRows
    <3> QED
      BY <3>1 DEF ApartInv, IdNamesSlot, OwnRows, EventsSeen
  <2> QED
    BY <1>2, <2>1 DEF IdNamesSlot
<1>7. OwnRows'
  <2> SUFFICES ASSUME NEW s \in Requests
               PROVE  /\ \A g \in tx'[s].groups : g.id = s
                      /\ \A e \in tx'[s].events :
                           /\ pc'[s] \in InTx
                           /\ Owner(e.id) = s /\ Number(e.id) > Len(plan[s])
                           /\ e.group = s /\ LiveIn(e, tx'[s].groups)
                      /\ \A e, f \in tx'[s].events :
                           e # f => e.id # f.id /\ ~Clash(e.slot, f.slot)
    BY <1>1 DEF OwnRows, Clash, Key, Overlap, LiveIn
  <2>1. CASE s = r
    BY <1>1, <2>1, EmptyNames
  <2>2. CASE s # r
    BY <1>1, <2>2 DEF ApartInv, OwnRows
  <2> QED
    BY <2>1, <2>2
<1>8. NamesBacked'
  <2> SUFFICES ASSUME NEW s \in Requests, NEW c \in Named(tx'[s])
               PROVE  Backed(s, c)'
    BY DEF NamesBacked
  <2>1. s # r /\ c \in Named(tx[s])
    BY <1>1, EmptyNames
  <2>2. Backed(s, c) /\ Owner(c.id) \in Requests /\ c.group \in Requests
    BY <2>1, NamedTypes, Ids DEF ApartInv, NamesBacked, TypeInv
  <2>3. KnownTo(s, Owner(c.id))' /\ KnownTo(s, c.group)'
    BY <1>1, <2>2 DEF Backed, KnownTo
  <2>4. ASSUME NEW x \in events' \union tx[s].events, x.id = c.id
        PROVE  Key(x.slot) \in held[s]
    <3>1. CASE x \in tx[s].events
      BY <2>2, <2>4, <3>1 DEF Backed, EventsSeen
    <3>2. CASE x \in events'
      <4>1. PICK f \in EventsSeen(r) : x.id = f.id /\ x.slot = f.slot
        BY <1>2, <3>2
      <4>2. f \notin tx[r].events
        BY <1>1, <2>1, <2>2, <2>4, <4>1 DEF ApartInv, OwnRows, Backed, KnownTo
      <4> QED
        BY <2>2, <2>4, <4>1, <4>2 DEF Backed, EventsSeen
    <3> QED
      BY <3>1, <3>2
  <2> QED
    BY <1>1, <2>1, <2>3, <2>4 DEF Backed, EventsSeen, Key
<1>9. ClashesAreDead'
  <2> SUFFICES ASSUME NEW s \in Requests, NEW x \in tx'[s].events, NEW e \in events',
                      Clash(x.slot, e.slot)
               PROVE  ~LiveIn(e, groups')
    BY DEF ClashesAreDead, Clash, Key, Overlap, Live, LiveIn
  <2>1. s # r /\ x \in tx[s].events
    BY <1>1, EmptyNames
  <2>2. PICK f \in EventsSeen(r) :
          /\ e.id = f.id /\ e.slot = f.slot
          /\ e = f \/ \E c \in Named(tx[r]) : c.id = f.id
    BY <1>2
  <2>3. Key(f.slot) \notin held[r]
    <3>1. Key(x.slot) \in held[s] /\ held[r] \intersect held[s] = {}
      BY <2>1 DEF SlotInv, OwnLocked, LocksApart
    <3> QED
      BY <2>2, <3>1 DEF Clash
  <2>4. f \in events /\ e = f
    BY <1>4, <2>2, <2>3 DEF SlotInv, OwnLocked, EventsSeen
  <2>5. ~Live(f)
    BY <2>1, <2>4 DEF ApartInv, ClashesAreDead
  <2> QED
    BY <2>4, <2>5, NoneRevived
<1> QED
  BY <1>5, <1>6, <1>7, <1>8, <1>9 DEF ApartInv

LEMMA ApartCommit ==
    ASSUME TypeInv, SlotInv, ApartInv, NEW r \in Requests, Commit(r)
    PROVE  ApartInv'
<1> USE DEF tables, planning
<1>0. pc[r] = "commit" /\ UNCHANGED plan
  BY DEF Commit
<1>1. CASE Reject(r) /\ UNCHANGED tables
  BY <1>0, <1>1, ApartEnds DEF Reject
<1>2. CASE ~(Reject(r) /\ UNCHANGED tables)
  <2>1. Commits(r)
    BY <1>0, <1>2 DEF Commit, Commits, Goto, EndTx
  <2> QED
    BY <2>1, ApartCommits
<1> QED
  BY <1>1, <1>2

-----------------------------------------------------------------------------
LEMMA ApartPlanning ==
    ASSUME TypeInv, ApartInv, NEW r \in Requests,
           Post(r) \/ TryJoin(r) \/ CheckHold(r) \/ SetHold(r) \/ Pick(r) \/ Assign(r)
    PROVE  ApartInv'
<1> USE DEF tables, planning
<1>1. pc[r] \in Planning \union {"idle"} /\ UNCHANGED <<events, groups>>
  BY DEF Post, TryJoin, CheckHold, SetHold, Pick, Assign, Planning
<1>2. \E label : Goto(r, label)
  BY DEF Post, TryJoin, CheckHold, SetHold, Pick, Assign, Reject
<1>3. UNCHANGED <<tx, held>> \/ EndTx(r)
  BY DEF Post, TryJoin, CheckHold, SetHold, Pick, Assign, Reject
<1>4. UNCHANGED plan \/ \E p : plan' = [plan EXCEPT ![r] = p]
  BY DEF Post, TryJoin, CheckHold, SetHold, Pick, Assign
<1>5. pc[r] \notin InTx /\ pc[r] # "booked"
  BY <1>1 DEF InTx, Planning
<1>6. \A s \in Requests \ {r} : pc'[s] = pc[s] /\ plan'[s] = plan[s]
  BY <1>2, <1>4 DEF Goto, TypeInv, TypeOK
<1>7. \A s \in Requests : tx'[s] = EmptyTx \/ (tx'[s] = tx[s] /\ held'[s] = held[s])
  BY <1>3 DEF EndTx, TypeInv, TypeOK
<1>8. \A f \in events : LiveIn(f, groups') => Live(f)
  BY <1>1 DEF Live
<1>9. \A s \in Requests : pc[s] = "booked" => pc'[s] = "booked"
  BY <1>5, <1>6
<1>10. \A s \in Requests :
         \/ tx'[s] = EmptyTx
         \/ /\ tx'[s] = tx[s]
            /\ held[s] \subseteq held'[s]
            /\ pc[s] \in InTx => pc'[s] \in InTx /\ plan'[s] = plan[s]
  BY <1>5, <1>6, <1>7
<1> QED
  BY <1>1, <1>8, <1>9, <1>10, ApartKeeps

LEMMA ApartLock ==
    ASSUME TypeInv, ApartInv, NEW r \in Requests, Lock(r)
    PROVE  ApartInv'
<1> USE DEF tables, planning
<1>1. /\ UNCHANGED <<events, groups, plan, tx>> /\ pc[r] # "booked"
      /\ \A s \in Requests \ {r} : pc'[s] = pc[s]
      /\ pc'[r] \in InTx
      /\ \A s \in Requests : held[s] \subseteq held'[s]
  BY DEF Lock, Goto, InTx, TypeInv, TypeOK
<1>2. \A f \in events : LiveIn(f, groups') => Live(f)
  BY <1>1 DEF Live
<1>3. \A s \in Requests : pc[s] = "booked" => pc'[s] = "booked"
  BY <1>1
<1>4. \A s \in Requests :
        /\ tx'[s] = tx[s]
        /\ held[s] \subseteq held'[s]
        /\ pc[s] \in InTx => pc'[s] \in InTx /\ plan'[s] = plan[s]
  BY <1>1
<1> QED
  BY <1>1, <1>2, <1>3, <1>4, ApartKeeps

LEMMA ApartCancellation ==
    ASSUME TypeInv, ApartInv, NEW k \in Cancels, CancelStep(k)
    PROVE  ApartInv'
<1> USE DEF tables, planning
<1>1. UNCHANGED <<pc, plan, tx, held>> /\ events' \subseteq events
  BY DEF CancelStep, CancelRead, CancelIndividual, CancelSeat, DeleteEvents,
         DeleteSeats, DeleteGroup
<1>2. ASSUME NEW f \in events, LiveIn(f, groups')
      PROVE  Live(f)
  <2>1. CASE groups' \subseteq groups
    BY <1>2, <2>1 DEF Live, LiveIn
  <2>2. CASE CancelIndividual(k)
    <3> DEFINE Off(g) == [g EXCEPT !.status = CancelledByClient]
               id == cancel[k].seat.group
    <3>1. \A g \in groups : Off(g).status = CancelledByClient
      BY DEF TypeInv, TypeOK, Group
    <3>2. \/ groups' = {IF g.id = id THEN Off(g) ELSE g : g \in groups}
          \/ groups' = groups
      BY <2>2 DEF CancelIndividual
    <3> HIDE DEF Off
    <3>3. \A h \in groups' : h \in groups \/ h.status = CancelledByClient
      BY <3>1, <3>2
    <3> QED
      BY <1>2, <3>3 DEF Live, LiveIn
  <2>3. groups' \subseteq groups \/ CancelIndividual(k)
    BY DEF CancelStep, CancelRead, CancelSeat, DeleteEvents, DeleteSeats, DeleteGroup
  <2> QED
    BY <2>1, <2>2, <2>3
<1> QED
  BY <1>1, <1>2, ApartKeeps

LEMMA ApartInit == Init => ApartInv
BY EmptyNames
DEF Init, ApartInv, Committed, IdNamesSlot, OwnRows, NamesBacked, ClashesAreDead

LEMMA ApartStep == TypeInv /\ SlotInv /\ ApartInv /\ [Next]_vars => ApartInv'
<1> SUFFICES ASSUME TypeInv, SlotInv, ApartInv, [Next]_vars PROVE ApartInv'
  OBVIOUS
<1>1. ASSUME NEW r \in Requests, Abort(r) PROVE ApartInv'
  <2>1. pc[r] # "booked"
    BY <1>1 DEF Abort, InTx
  <2> QED
    BY <1>1, <2>1, ApartEnds DEF Abort, tables, planning
<1>2. ASSUME NEW r \in Requests, RequestStep(r) PROVE ApartInv'
  BY <1>2, ApartPlanning, ApartLock, ApartFind, ApartJoin, ApartCreate, ApartCommit
  DEF RequestStep
<1>3. ASSUME NEW k \in Cancels, CancelStep(k) PROVE ApartInv'
  BY <1>3, ApartCancellation
<1>4. CASE HoldExpires \/ UNCHANGED vars
  <2>1. UNCHANGED <<events, groups, pc, plan, tx, held>>
    BY <1>4 DEF HoldExpires, vars, tables
  <2>2. \A f \in events : LiveIn(f, groups') => Live(f)
    BY <2>1 DEF Live
  <2> QED
    BY <2>1, <2>2, ApartKeeps
<1> QED
  BY <1>1, <1>2, <1>3, <1>4 DEF Next

-----------------------------------------------------------------------------
\* Of two rows that clash after a commit, one new, one at least was moved.
LEMMA CommitOverlap ==
    ASSUME TypeInv, SlotInv, ApartInv, NEW r \in Requests, Commits(r)
    PROVE  NoNewOverlap
<1> SUFFICES ASSUME NEW e \in events' \ events, NEW f \in events' \ {e},
                    LiveIn(f, groups'), Clash(e.slot, f.slot)
             PROVE  \E d \in events \ events' : d.id \in {e.id, f.id}
  BY DEF NoNewOverlap, Clash
<1>1. PICK e0 \in EventsSeen(r), f0 \in EventsSeen(r) :
        e = After(r, e0) /\ f = After(r, f0)
  BY RegroupedRows DEF Commits
<1>2. /\ e.id = e0.id /\ e.slot = e0.slot /\ (e = e0 \/ e0 \notin events')
      /\ f.id = f0.id /\ f.slot = f0.slot /\ (f = f0 \/ f0 \notin events')
  BY <1>1, RegroupedRows DEF Commits
<1>3. e0 # f0
  BY <1>1
<1>4. CASE e0 \in events
  BY <1>2, <1>4
<1>5. CASE f0 \in events /\ f # f0
  BY <1>2, <1>5
<1>6. CASE e0 \in tx[r].events /\ f0 \in tx[r].events
  BY <1>2, <1>3, <1>6 DEF ApartInv, OwnRows
<1>7. CASE e0 \in tx[r].events /\ f0 \in events /\ f = f0
  <2>1. ~Live(f)
    BY <1>2, <1>7 DEF ApartInv, ClashesAreDead
  <2> QED
    BY <1>7, <2>1, NoneRevived
<1> QED
  BY <1>4, <1>5, <1>6, <1>7 DEF EventsSeen

LEMMA StepOverlap == TypeInv /\ SlotInv /\ ApartInv /\ [Next]_vars => [NoNewOverlap]_vars
<1> SUFFICES ASSUME TypeInv, SlotInv, ApartInv, Next PROVE NoNewOverlap
  OBVIOUS
<1> USE DEF tables, planning
<1>1. CASE events' \subseteq events
  BY <1>1 DEF NoNewOverlap
<1>2. CASE \E r \in Requests : Commit(r)
  <2>1. PICK r \in Requests : Commit(r)
    BY <1>2
  <2>2. CASE Commits(r)
    BY <2>2, CommitOverlap
  <2>3. CASE events' = events
    BY <1>1, <2>3
  <2> QED
    BY <2>1, <2>2, <2>3 DEF Commit, Commits, Goto, EndTx
<1>3. events' \subseteq events \/ \E r \in Requests : Commit(r)
  BY DEF Next, RequestStep, CancelStep, Post, TryJoin, CheckHold, SetHold, Pick,
         Assign, Lock, Find, Join, Create, Abort, HoldExpires, CancelRead,
         CancelIndividual, CancelSeat, DeleteEvents, DeleteSeats, DeleteGroup
<1> QED
  BY <1>1, <1>2, <1>3

\* Whatever the clients book and cancel, and for any number of them, no
\* booking puts a live event over another of the same professional, service
\* and start, unless it brings an older event to life in its own group.
THEOREM NoOverlapPerLock == Spec => NoOverlapUnderOneLock
<1>1. TypeInv /\ SlotInv /\ ApartInv /\ [Next]_vars => [NoNewOverlap]_vars
  BY StepOverlap
<1> QED
  BY <1>1, TypeInit, TypeStep, SlotInit, SlotStep, ApartInit, ApartStep, PTL
  DEF Spec, NoOverlapUnderOneLock

-----------------------------------------------------------------------------
(***************************************************************************)
(* Why a client never has two seats in one group, for any requests,        *)
(* cancellations, clients, services and capacities, as long as classes are *)
(* booked alone.                                                           *)
(*                                                                         *)
(* A seat of another request's group is a seat in a class.  A class has    *)
(* one event, which never changes group, so that whoever takes a seat in   *)
(* it holds one and the same lock from the lookup to the commit: the seats *)
(* that the request counts are those beside which its own comes to lie.    *)
(***************************************************************************)

\* Of several services booked together none is a class.
ClassesAlone ==
    \A b \in Bookings : Len(b.attendees) > 1 =>
        \A i \in 1..Len(b.attendees) : ~IsClass(b.attendees[i].service)

-----------------------------------------------------------------------------
\* The group that r makes is one of a class.
OfClass(r) == IsClass(First(r).service)

\* An event has the kind of its group, and a class is the only event of its.
RightKind(e) ==
    /\ IsClass(e.slot.service) <=> OfClass(e.group)
    /\ OfClass(Owner(e.id)) <=> OfClass(e.group)
    /\ OfClass(e.group) =>
         e.id = <<e.group, 1>> /\ e.slot.service = First(e.group).service
    /\ ~OfClass(e.group) => Client(e.group) = Client(Owner(e.id))

EventKinds ==
    /\ \A e \in events : RightKind(e)
    /\ \A r \in Requests :
         /\ \A e \in tx[r].events : RightKind(e)
         /\ tx[r].found.some => RightKind(tx[r].found.event)

\* The segments to book are those of the services asked for.
Fits(r) ==
    /\ Len(plan[r]) + Len(tx[r].core) <= Len(input[r].attendees)
    /\ \A i \in 1..Len(plan[r]) :
         /\ IsClass(plan[r][i].service) <=> OfClass(r)
         /\ OfClass(r) => plan[r][i].service = First(r).service

PlanKinds ==
    \A r \in Requests :
        /\ pc[r] \notin InTx => tx[r] = EmptyTx
        /\ pc[r] \in InTx => Fits(r)

FoundHere ==
    \A r \in Requests : pc[r] = "join" => tx[r].found.event.slot = Segment(r)

\* What a transaction regroups is of its own kind and, outside classes, of
\* its own client.
Alike(r, c) ==
    /\ OfClass(c.group) <=> OfClass(r)
    /\ OfClass(Owner(c.id)) <=> OfClass(r)
    /\ OfClass(r) => c.id = <<c.group, 1>>
    /\ ~OfClass(r) => Client(c.group) = Client(r) /\ Client(Owner(c.id)) = Client(r)

CoreKinds ==
    \A r \in Requests : \A i \in DOMAIN tx[r].core : Alike(r, tx[r].core[i])

\* A seat is that of a request's client, and outside classes in its own group.
RightSeat(p) ==
    /\ p.client = Client(p.id)
    /\ OfClass(p.group) <=> OfClass(p.id)
    /\ ~OfClass(p.group) => p.group = p.id

SeatKinds ==
    /\ \A p \in seats : RightSeat(p) /\ pc[p.id] = "booked" /\ pc[p.group] = "booked"
    /\ \A r \in Requests : \A p \in tx[r].seats :
         RightSeat(p) /\ p.id = r /\ KnownTo(r, p.group) /\ p.status = NewStatus

\* The classes in which a transaction has found the event or taken a seat
Claims(r) ==
    {g \in Requests : /\ OfClass(g)
                      /\ \/ \E p \in tx[r].seats : p.group = g
                         \/ tx[r].found.some /\ tx[r].found.event.group = g}

ClaimsLocked ==
    \A r \in Requests : \A g \in Claims(r) :
        KnownTo(r, g) /\ \A e \in events : e.group = g => Key(e.slot) \in held[r]

ClaimsApart ==
    \A r, s \in Requests : r # s => Claims(r) \intersect Claims(s) = {}

\* The seats that a transaction takes are new to the client.
NewSeats ==
    \A r \in Requests : \A p \in tx[r].seats, q \in seats :
        p.group = q.group => p.client # q.client

SeatInv ==
    /\ EventKinds
    /\ PlanKinds
    /\ FoundHere
    /\ CoreKinds
    /\ SeatKinds
    /\ ClaimsLocked
    /\ ClaimsApart
    /\ NewSeats
    /\ SeatOnce

LEMMA EmptyTxFacts ==
    /\ EmptyTx.events = {} /\ EmptyTx.seats = {} /\ EmptyTx.groups = {}
    /\ EmptyTx.core = <<>> /\ ~EmptyTx.found.some
BY DEF EmptyTx

\* Kinds depend on what the requests ask for, which never changes.
LEMMA SameKinds ==
    ASSUME input' = input
    PROVE  /\ \A r : OfClass(r)' <=> OfClass(r)
           /\ \A e : RightKind(e)' <=> RightKind(e)
           /\ \A r, c : Alike(r, c)' <=> Alike(r, c)
           /\ \A p : RightSeat(p)' <=> RightSeat(p)
BY DEF OfClass, RightKind, Alike, RightSeat, First, Client, IsClass, Owner

\* A class is booked with nothing else.
LEMMA ClassIsAlone ==
    ASSUME ClassesAlone, TypeOK, NEW r \in Requests
    PROVE  /\ OfClass(r) => Len(input[r].attendees) = 1
           /\ \A i \in 1..Len(input[r].attendees) :
                /\ IsClass(input[r].attendees[i].service) <=> OfClass(r)
                /\ OfClass(r) => input[r].attendees[i].service = First(r).service
<1>1. input[r] \in Bookings /\ Len(input[r].attendees) \in Nat \ {0}
  BY Inputs DEF TypeOK
<1>2. CASE Len(input[r].attendees) = 1
  BY <1>2 DEF OfClass, First
<1>3. CASE Len(input[r].attendees) > 1
  <2>1. \A i \in 1..Len(input[r].attendees) : ~IsClass(input[r].attendees[i].service)
    BY <1>1, <1>3 DEF ClassesAlone
  <2>2. ~OfClass(r)
    BY <1>1, <2>1 DEF OfClass, First
  <2> QED
    BY <2>1, <2>2
<1>4. \A n \in Nat \ {0} : n = 1 \/ n > 1
  OBVIOUS
<1>5. Len(input[r].attendees) = 1 \/ Len(input[r].attendees) > 1
  BY <1>1, <1>4
<1> QED
  BY <1>2, <1>3, <1>5

\* A step that finds nothing and takes nothing: each transaction goes on,
\* ends, or begins with a plan that fits.
Begins(s) == tx'[s] = EmptyTx /\ pc'[s] # "join" /\ (pc'[s] \in InTx => Fits(s)')

GoesAhead(s) ==
    /\ tx'[s] = tx[s] /\ held[s] \subseteq held'[s] /\ plan'[s] = plan[s]
    /\ pc[s] \in InTx /\ pc'[s] \in InTx
    /\ pc'[s] = "join" => pc[s] = "join"

LEMMA SeatsKeep ==
    ASSUME TypeInv, SeatInv, input' = input, events' \subseteq events,
           \A q \in seats' : \E p \in seats :
             q.id = p.id /\ q.group = p.group /\ q.client = p.client,
           SeatOnce',
           \A s \in Requests : pc[s] = "booked" => pc'[s] = "booked",
           \A s \in Requests : Begins(s) \/ GoesAhead(s)
    PROVE  SeatInv'
<1> USE DEF Begins, GoesAhead
<1>1. EventKinds'
  BY SameKinds, EmptyTxFacts DEF SeatInv, EventKinds
<1>2. PlanKinds'
  <2>1. ASSUME NEW s \in Requests, GoesAhead(s)
        PROVE  Fits(s)'
    <3>1. Fits(s) /\ plan'[s] = plan[s] /\ tx'[s] = tx[s]
      BY <2>1 DEF SeatInv, PlanKinds
    <3> HIDE DEF GoesAhead, Begins
    <3>2. OfClass(s)' <=> OfClass(s)
      BY SameKinds
    <3> QED
      BY <3>1, <3>2 DEF Fits, First
  <2> QED
    BY <2>1 DEF PlanKinds
<1>3. FoundHere'
  BY DEF SeatInv, FoundHere, Segment
<1>4. CoreKinds'
  BY SameKinds, EmptyTxFacts DEF SeatInv, CoreKinds
<1>5. SeatKinds'
  <2>1. \A p \in seats : p.id \in Requests /\ p.group \in Requests
    BY DEF TypeInv, TypeOK, Seat
  <2>2. \A s \in Requests : \A p \in tx[s].seats : p.group \in Requests
    BY DEF TypeInv, TypeOK, Tx, Seat
  <2>3. ASSUME NEW q \in seats'
        PROVE  RightSeat(q)' /\ pc'[q.id] = "booked" /\ pc'[q.group] = "booked"
    <3>1. PICK p \in seats : q.id = p.id /\ q.group = p.group /\ q.client = p.client
      OBVIOUS
    <3>2. RightSeat(p) /\ pc[p.id] = "booked" /\ pc[p.group] = "booked"
      BY DEF SeatInv, SeatKinds
    <3>3. RightSeat(q)
      BY <3>1, <3>2 DEF RightSeat
    <3> QED
      BY <2>1, <3>1, <3>2, <3>3, SameKinds
  <2>4. ASSUME NEW s \in Requests, NEW p \in tx'[s].seats
        PROVE  RightSeat(p)' /\ p.id = s /\ KnownTo(s, p.group)' /\ p.status = NewStatus
    <3>1. p \in tx[s].seats
      BY EmptyTxFacts
    <3>2. RightSeat(p) /\ p.id = s /\ KnownTo(s, p.group) /\ p.status = NewStatus
      BY <3>1 DEF SeatInv, SeatKinds
    <3> QED
      BY <2>2, <3>1, <3>2, SameKinds DEF KnownTo
  <2> QED
    BY <2>3, <2>4 DEF SeatKinds, NewStatus
<1>6. \A s \in Requests :
        Claims(s)' \subseteq Claims(s) /\ (Claims(s)' # {} => held[s] \subseteq held'[s])
  BY SameKinds, EmptyTxFacts DEF Claims
<1>7. ClaimsLocked'
  <2> SUFFICES ASSUME NEW s \in Requests, NEW g \in Claims(s)'
               PROVE  KnownTo(s, g)' /\ \A e \in events' : e.group = g => Key(e.slot)' \in held'[s]
    BY DEF ClaimsLocked
  <2>1. g \in Claims(s) /\ held[s] \subseteq held'[s] /\ g \in Requests
    BY <1>6 DEF Claims
  <2>2. KnownTo(s, g) /\ \A e \in events : e.group = g => Key(e.slot) \in held[s]
    BY <2>1 DEF SeatInv, ClaimsLocked
  <2> QED
    BY <2>1, <2>2 DEF KnownTo, Key
<1>8. ClaimsApart'
  BY <1>6 DEF SeatInv, ClaimsApart
<1>9. NewSeats'
  BY EmptyTxFacts DEF SeatInv, NewSeats
<1> QED
  BY <1>1, <1>2, <1>3, <1>4, <1>5, <1>7, <1>8, <1>9 DEF SeatInv
-----------------------------------------------------------------------------
LEMMA OtherRequest ==
    ASSUME TypeInv, SeatInv, input' = input, NEW s \in Requests,
           pc'[s] = pc[s], plan'[s] = plan[s], tx'[s] = tx[s], held'[s] = held[s]
    PROVE  Begins(s) \/ GoesAhead(s)
<1>1. CASE pc[s] \in InTx
  BY <1>1 DEF GoesAhead
<1>2. CASE pc[s] \notin InTx
  BY <1>2 DEF Begins, SeatInv, PlanKinds, InTx
<1> QED
  BY <1>1, <1>2

\* A chain has a slot for each service.
LEMMA ChainShape ==
    ASSUME TypeOK, NEW r \in Requests, NEW p \in Chains(input[r])
    PROVE  /\ p \in Seq(Slot) /\ Len(p) = Len(input[r].attendees)
           /\ \A i \in 1..Len(p) : p[i].service = input[r].attendees[i].service
<1> DEFINE wanted == input[r].attendees
           n == Len(wanted)
           from == input[r].start
<1>1. PICK user \in [1..n -> Users], start \in [1..n -> from..from + Horizon] :
        p = Laid(wanted, user, start)
  BY DEF Chains
<1>2. \A i \in 1..n : start[i] \in Nat
  BY <1>1, Inputs
<1>3. \A i \in 1..n : SlotAt(wanted[i], user[i], start[i]) \in Slot
  BY <1>2, Inputs, SlotTypes
<1>4. n \in Nat /\ \A i \in 1..n : SlotAt(wanted[i], user[i], start[i]).service = wanted[i].service
  BY Inputs DEF SlotAt
<1> HIDE DEF wanted, n
<1>5. p = [i \in 1..n |-> SlotAt(wanted[i], user[i], start[i])]
  BY <1>1 DEF Laid, n
<1>6. p \in [1..n -> Slot] /\ \A i \in 1..n : p[i].service = wanted[i].service
  BY <1>3, <1>4, <1>5
<1>7. p \in Seq(Slot) /\ Len(p) = n
  BY <1>4, <1>6, SeqDef, LenProperties
<1> QED
  BY <1>6, <1>7 DEF n, wanted

\* What a transaction begins with
LEMMA ChainFits ==
    ASSUME ClassesAlone, TypeInv, NEW r \in Requests, input' = input,
           tx'[r] = EmptyTx, NEW p \in Chains(input[r]), plan'[r] = p
    PROVE  Fits(r)'
<1>1. Len(p) + Len(<<>>) <= Len(input[r].attendees)
  BY ChainShape, Inputs DEF TypeInv
<1>2. ASSUME NEW i \in 1..Len(p)
      PROVE  /\ IsClass(p[i].service) <=> OfClass(r)
             /\ OfClass(r) => p[i].service = First(r).service
  BY ChainShape, ClassIsAlone DEF TypeInv
<1>3. OfClass(r)' <=> OfClass(r)
  BY SameKinds
<1> QED
  BY <1>1, <1>2, <1>3, EmptyTxFacts DEF Fits, First

LEMMA SingleFits ==
    ASSUME TypeInv, NEW r \in Requests, input' = input,
           tx'[r] = EmptyTx, NEW u, plan'[r] = <<SlotOf(input[r], u)>>
    PROVE  Fits(r)'
<1> DEFINE s == SlotOf(input[r], u)
           p == <<s>>
<1>1. s.service = First(r).service
  BY DEF SlotOf, SlotAt, First
<1>2. Len(input[r].attendees) \in Nat \ {0}
  BY Inputs DEF TypeInv
<1> HIDE DEF s
<1>3. Len(p) = 1 /\ Len(<<>>) = 0 /\ p[1] = s
  OBVIOUS
<1>4. OfClass(r)' <=> OfClass(r)
  BY SameKinds
<1>5. IsClass(s.service) <=> OfClass(r)
  BY <1>1 DEF OfClass
<1>6. plan'[r] = p
  BY DEF s
<1> HIDE DEF p
<1>7. Len(plan'[r]) + Len(tx'[r].core) <= Len(input[r].attendees)
  BY <1>2, <1>3, <1>6, EmptyTxFacts
<1> QED
  BY <1>1, <1>3, <1>4, <1>5, <1>6, <1>7 DEF Fits, First

LEMMA SeatPlanning ==
    ASSUME ClassesAlone, TypeInv, SeatInv, NEW r \in Requests,
           Post(r) \/ TryJoin(r) \/ CheckHold(r) \/ SetHold(r) \/ Pick(r) \/ Assign(r)
    PROVE  SeatInv'
<1> USE DEF tables, planning
<1>1. pc[r] \in Planning \union {"idle"} /\ UNCHANGED <<events, seats, input>>
  BY DEF Post, TryJoin, CheckHold, SetHold, Pick, Assign, Planning
<1>2. PICK label \in Planning \union {"lock", "rejected"} : Goto(r, label)
  BY DEF Post, TryJoin, CheckHold, SetHold, Pick, Assign, Reject, Planning
<1>3. UNCHANGED <<tx, held>> \/ EndTx(r)
  BY DEF Post, TryJoin, CheckHold, SetHold, Pick, Assign, Reject
<1>4. UNCHANGED plan \/ \E p : plan' = [plan EXCEPT ![r] = p]
  BY DEF Post, TryJoin, CheckHold, SetHold, Pick, Assign
<1>5. pc[r] \notin InTx /\ pc[r] # "booked" /\ pc'[r] = label
      /\ \A s \in Requests \ {r} : pc'[s] = pc[s] /\ plan'[s] = plan[s]
  BY <1>1, <1>2, <1>4 DEF Goto, InTx, Planning, TypeInv, TypeOK
<1>6. tx'[r] = EmptyTx /\ \A s \in Requests \ {r} : tx'[s] = tx[s] /\ held'[s] = held[s]
  BY <1>3, <1>5 DEF EndTx, SeatInv, PlanKinds, TypeInv, TypeOK
<1>7. ASSUME label = "lock"
      PROVE  Fits(r)'
  <2>1. plan \in [Requests -> Seq(Slot)]
    BY DEF TypeInv, TypeOK
  <2>2. \/ \E u : plan' = [plan EXCEPT ![r] = <<SlotOf(input[r], u)>>]
        \/ \E p \in Plans(r) : plan' = [plan EXCEPT ![r] = p]
    BY <1>2, <1>5, <1>7
    DEF Post, TryJoin, CheckHold, SetHold, Pick, Assign, Reject, Goto, TypeInv, TypeOK
  <2>3. \/ \E u : plan'[r] = <<SlotOf(input[r], u)>>
        \/ \E p \in Chains(input[r]) : plan'[r] = p
    BY <2>1, <2>2 DEF Plans
  <2> QED
    BY <1>1, <1>6, <2>3, SingleFits, ChainFits
<1>8. Begins(r)
  BY <1>2, <1>5, <1>6, <1>7 DEF Begins, Planning, InTx
<1>9. \A s \in Requests : Begins(s) \/ GoesAhead(s)
  BY <1>1, <1>5, <1>6, <1>8, OtherRequest
<1>10. \A s \in Requests : pc[s] = "booked" => pc'[s] = "booked"
  BY <1>5
<1>11. SeatOnce'
  BY <1>1 DEF SeatInv, SeatOnce
<1> QED
  BY <1>1, <1>9, <1>10, <1>11, SeatsKeep

\* A transaction that ends without a commit
LEMMA SeatEnds ==
    ASSUME TypeInv, SeatInv, NEW r \in Requests, NEW label \in Answered,
           pc[r] # "booked", Goto(r, label), EndTx(r),
           UNCHANGED <<events, seats, input, plan>>
    PROVE  SeatInv'
<1>1. tx'[r] = EmptyTx /\ pc'[r] = label
      /\ \A s \in Requests \ {r} : tx'[s] = tx[s] /\ held'[s] = held[s] /\ pc'[s] = pc[s]
  BY DEF EndTx, Goto, TypeInv, TypeOK
<1>2. Begins(r)
  BY <1>1 DEF Begins, Answered, InTx
<1>3. \A s \in Requests : Begins(s) \/ GoesAhead(s)
  BY <1>1, <1>2, OtherRequest
<1>4. SeatOnce'
  BY DEF SeatInv, SeatOnce
<1>5. \A s \in Requests : pc[s] = "booked" => pc'[s] = "booked"
  BY <1>1
<1> QED
  BY <1>3, <1>4, <1>5, SeatsKeep

LEMMA SeatLock ==
    ASSUME TypeInv, SeatInv, NEW r \in Requests, Lock(r)
    PROVE  SeatInv'
<1> USE DEF tables, planning
<1>1. /\ UNCHANGED <<events, seats, input, plan, tx>>
      /\ pc[r] = "lock" /\ pc'[r] = "find"
      /\ held[r] \subseteq held'[r]
      /\ \A s \in Requests \ {r} : pc'[s] = pc[s] /\ held'[s] = held[s]
  BY DEF Lock, Goto, TypeInv, TypeOK
<1>2. GoesAhead(r)
  BY <1>1 DEF GoesAhead, InTx
<1>3. \A s \in Requests : Begins(s) \/ GoesAhead(s)
  BY <1>1, <1>2, OtherRequest
<1>4. SeatOnce'
  BY <1>1 DEF SeatInv, SeatOnce
<1>5. \A s \in Requests : pc[s] = "booked" => pc'[s] = "booked"
  BY <1>1
<1> QED
  BY <1>1, <1>3, <1>4, <1>5, SeatsKeep

\* Rows of seats as a cancellation leaves them
LEMMA SeatCancelledRows ==
    ASSUME TypeOK, NEW c
    PROVE  /\ \A q \in SeatCancelled(c) : \E p \in seats :
                q.id = p.id /\ q.group = p.group /\ q.client = p.client
           /\ \A p \in seats : \E q \in SeatCancelled(c) :
                q.id = p.id /\ q.group = p.group /\ q.client = p.client
           /\ \A q1, q2 \in SeatCancelled(c) : \A p \in seats :
                q1.id = p.id /\ q1.group = p.group /\ q2.id = p.id /\ q2.group = p.group
                /\ (\A p2 \in seats : p2.id = p.id /\ p2.group = p.group => p2 = p)
                => q1 = q2
<1> DEFINE Off(q) == IF SameRow(q, c) THEN [q EXCEPT !.status = CancelledByClient] ELSE q
<1>1. \A q \in seats : /\ Off(q).id = q.id /\ Off(q).group = q.group
                       /\ Off(q).client = q.client
  BY DEF TypeOK, Seat
<1>2. SeatCancelled(c) = {Off(q) : q \in seats}
  BY DEF SeatCancelled
<1> HIDE DEF Off
<1> QED
  BY <1>1, <1>2

LEMMA SeatCancellation ==
    ASSUME TypeInv, SeatInv, NEW k \in Cancels, CancelStep(k)
    PROVE  SeatInv'
<1> USE DEF tables, planning
<1>1. UNCHANGED <<pc, plan, tx, held, input>> /\ events' \subseteq events
  BY DEF CancelStep, CancelRead, CancelIndividual, CancelSeat, DeleteEvents,
         DeleteSeats, DeleteGroup
<1>2. seats' \subseteq seats \/ \E c : seats' = SeatCancelled(c)
  BY DEF CancelStep, CancelRead, CancelIndividual, CancelSeat, DeleteEvents,
         DeleteSeats, DeleteGroup
<1>3. \A q \in seats' : \E p \in seats :
        q.id = p.id /\ q.group = p.group /\ q.client = p.client
  BY <1>2, SeatCancelledRows DEF TypeInv
<1>4. SeatOnce'
  <2>1. CASE seats' \subseteq seats
    BY <2>1 DEF SeatInv, SeatOnce
  <2>2. ASSUME NEW c, seats' = SeatCancelled(c)
        PROVE  SeatOnce'
    <3> SUFFICES ASSUME NEW q1 \in seats', NEW q2 \in seats',
                        q1.group = q2.group, q1.client = q2.client
                 PROVE  q1 = q2
      BY DEF SeatOnce
    <3>1. PICK p1 \in seats : q1.id = p1.id /\ q1.group = p1.group /\ q1.client = p1.client
      BY <1>3
    <3>2. PICK p2 \in seats : q2.id = p2.id /\ q2.group = p2.group /\ q2.client = p2.client
      BY <1>3
    <3>3. p1 = p2
      BY <3>1, <3>2 DEF SeatInv, SeatOnce
    <3>4. \A p \in seats : p.id = p1.id /\ p.group = p1.group => p = p1
      <4>1. ASSUME NEW p \in seats, p.id = p1.id, p.group = p1.group
            PROVE  p = p1
        <5>1. p.client = Client(p.id) /\ p1.client = Client(p1.id)
          BY DEF SeatInv, SeatKinds, RightSeat
        <5> QED
          BY <4>1, <5>1 DEF SeatInv, SeatOnce
      <4> QED
        BY <4>1
    <3> QED
      BY <2>2, <3>1, <3>2, <3>3, <3>4, SeatCancelledRows DEF TypeInv
  <2> QED
    BY <1>2, <2>1, <2>2
<1>5. \A s \in Requests : Begins(s) \/ GoesAhead(s)
  BY <1>1, OtherRequest
<1> QED
  BY <1>1, <1>3, <1>4, <1>5, SeatsKeep
-----------------------------------------------------------------------------
\* What a statement of a transaction leaves as it is, and what the rows of the
\* transaction are to be afterwards
OnlyOwn(r) ==
    /\ input' = input /\ events' = events /\ seats' = seats /\ held' = held
    /\ pc[r] # "booked" /\ pc'[r] \in InTx
    /\ \A s \in Requests \ {r} : pc'[s] = pc[s] /\ plan'[s] = plan[s] /\ tx'[s] = tx[s]

RowsRight(r) ==
    /\ \A e \in tx'[r].events : RightKind(e)
    /\ tx'[r].found.some => RightKind(tx'[r].found.event)
    /\ \A i \in DOMAIN tx'[r].core : Alike(r, tx'[r].core[i])
    /\ \A p \in tx'[r].seats :
         /\ p \in Seat /\ p.id = r /\ p.status = NewStatus
         /\ RightSeat(p) /\ KnownTo(r, p.group)
         /\ \A q \in seats : p.group = q.group => p.client # q.client

ClaimsRight(r) ==
    \A g \in Claims(r)' :
        /\ KnownTo(r, g)
        /\ \A e \in events : e.group = g => Key(e.slot) \in held[r]
        /\ \A s \in Requests \ {r} : g \notin Claims(s)

LEMMA SeatStatement ==
    ASSUME TypeInv, SeatInv, NEW r \in Requests,
           OnlyOwn(r), RowsRight(r), ClaimsRight(r), Fits(r)',
           pc'[r] = "join" => tx'[r].found.event.slot = Segment(r)'
    PROVE  SeatInv'
<1>0. /\ input' = input /\ events' = events /\ seats' = seats /\ held' = held
      /\ pc[r] # "booked" /\ pc'[r] \in InTx
      /\ \A s \in Requests \ {r} : pc'[s] = pc[s] /\ plan'[s] = plan[s] /\ tx'[s] = tx[s]
      /\ \A s \in Requests : pc[s] = "booked" => pc'[s] = "booked"
  BY DEF OnlyOwn
<1>1. EventKinds'
  BY <1>0, SameKinds DEF SeatInv, EventKinds, RowsRight
<1>2. PlanKinds'
  <2>1. ASSUME NEW s \in Requests \ {r}, pc[s] \in InTx
        PROVE  Fits(s)'
    <3>1. Fits(s) /\ plan'[s] = plan[s] /\ tx'[s] = tx[s]
      BY <1>0, <2>1 DEF SeatInv, PlanKinds
    <3>2. OfClass(s)' <=> OfClass(s)
      BY <1>0, SameKinds
    <3> QED
      BY <1>0, <3>1, <3>2 DEF Fits, First
  <2>2. \A s \in Requests \ {r} : pc[s] \notin InTx => tx[s] = EmptyTx
    BY DEF SeatInv, PlanKinds
  <2>3. ASSUME NEW s \in Requests
        PROVE  (pc'[s] \notin InTx => tx'[s] = EmptyTx) /\ (pc'[s] \in InTx => Fits(s)')
    BY <1>0, <2>1, <2>2
  <2> QED
    BY <2>3 DEF PlanKinds
<1>3. FoundHere'
  <2>1. \A s \in Requests \ {r} : pc'[s] = "join" => tx'[s].found.event.slot = Segment(s)'
    BY <1>0 DEF SeatInv, FoundHere, Segment
  <2> QED
    BY <2>1 DEF FoundHere
<1>4. CoreKinds'
  BY <1>0, SameKinds DEF SeatInv, CoreKinds, RowsRight
<1>5. SeatKinds'
  <2>1. \A p \in seats : RightSeat(p)' /\ pc'[p.id] = "booked" /\ pc'[p.group] = "booked"
    <3>1. \A p \in seats : p.id \in Requests /\ p.group \in Requests
      BY DEF TypeInv, TypeOK, Seat
    <3> QED
      BY <1>0, <3>1, SameKinds DEF SeatInv, SeatKinds
  <2>2. ASSUME NEW s \in Requests, NEW p \in tx'[s].seats
        PROVE  RightSeat(p)' /\ p.id = s /\ KnownTo(s, p.group)' /\ p.status = NewStatus
    <3>1. RightSeat(p) /\ p.id = s /\ KnownTo(s, p.group) /\ p.status = NewStatus
      BY <1>0 DEF SeatInv, SeatKinds, RowsRight
    <3>2. p.group \in Requests
      <4>1. CASE s = r
        BY <4>1 DEF RowsRight, Seat
      <4>2. CASE s # r
        BY <1>0, <4>2 DEF TypeInv, TypeOK, Tx, Seat
      <4> QED
        BY <4>1, <4>2
    <3>3. KnownTo(s, p.group)'
      BY <1>0, <3>1, <3>2 DEF KnownTo
    <3> QED
      BY <1>0, <3>1, <3>3, SameKinds
  <2> QED
    BY <1>0, <2>1, <2>2 DEF SeatKinds, NewStatus
<1>6. \A s \in Requests \ {r} : Claims(s)' = Claims(s)
  BY <1>0, SameKinds DEF Claims
<1>7. ClaimsLocked'
  <2> SUFFICES ASSUME NEW s \in Requests, NEW g \in Claims(s)'
               PROVE  KnownTo(s, g)' /\ \A e \in events' : e.group = g => Key(e.slot)' \in held'[s]
    BY DEF ClaimsLocked
  <2>1. g \in Requests
    BY DEF Claims
  <2>2. KnownTo(s, g) /\ \A e \in events : e.group = g => Key(e.slot) \in held[s]
    BY <1>6 DEF SeatInv, ClaimsLocked, ClaimsRight
  <2> QED
    BY <1>0, <2>1, <2>2 DEF KnownTo, Key
<1>8. ClaimsApart'
  BY <1>6 DEF SeatInv, ClaimsApart, ClaimsRight
<1>9. NewSeats'
  BY <1>0 DEF SeatInv, NewSeats, RowsRight
<1>10. SeatOnce'
  BY <1>0 DEF SeatInv, SeatOnce
<1> QED
  BY <1>1, <1>2, <1>3, <1>4, <1>5, <1>7, <1>8, <1>9, <1>10 DEF SeatInv
\* A transaction that goes on to the next segment
LEMMA FitsNext ==
    ASSUME TypeInv, SeatInv, NEW r \in Requests, pc[r] \in Segmented, Advance(r),
           input' = input, Len(tx'[r].core) \in Nat,
           Len(tx'[r].core) <= Len(tx[r].core) + 1
    PROVE  Fits(r)'
<1>1. Fits(r) /\ plan[r] \in Seq(Slot) /\ plan[r] # <<>>
  BY DEF SeatInv, PlanKinds, TypeInv, TypeOK, PlanOK, InTx, Segmented
<1>2. plan'[r] = Tail(plan[r])
  BY DEF Advance, TypeInv, TypeOK
<1>3. /\ Tail(plan[r]) \in Seq(Slot) /\ Len(plan[r]) \in Nat \ {0}
      /\ Len(Tail(plan[r])) = Len(plan[r]) - 1
      /\ \A i \in 1..Len(Tail(plan[r])) : Tail(plan[r])[i] = plan[r][i + 1]
  BY <1>1, HeadTailProperties, EmptySeq
<1>4. Len(tx[r].core) \in Nat /\ Len(input[r].attendees) \in Nat
  <2>1. tx[r].core \in Seq(Core)
    BY DEF TypeInv, TypeOK, Tx
  <2> QED
    BY <2>1, LenProperties, Inputs DEF TypeInv
<1>5. Len(plan'[r]) + Len(tx'[r].core) <= Len(input[r].attendees)
  <2>1. Len(plan[r]) + Len(tx[r].core) <= Len(input[r].attendees)
    BY <1>1 DEF Fits
  <2>2. Len(plan'[r]) = Len(plan[r]) - 1
    BY <1>2, <1>3
  <2>3. \A a \in Nat \ {0}, b, c, d \in Nat : a + b <= c /\ d <= b + 1 => (a - 1) + d <= c
    OBVIOUS
  <2> QED
    BY <1>3, <1>4, <2>1, <2>2, <2>3
<1>6. OfClass(r)' <=> OfClass(r)
  BY SameKinds
<1>7. ASSUME NEW i \in 1..Len(plan'[r])
      PROVE  /\ IsClass(plan'[r][i].service) <=> OfClass(r)
             /\ OfClass(r) => plan'[r][i].service = First(r).service
  <2>1. i + 1 \in 1..Len(plan[r]) /\ plan'[r][i] = plan[r][i + 1]
    BY <1>2, <1>3
  <2> QED
    BY <1>1, <2>1 DEF Fits
<1> QED
  BY <1>5, <1>6, <1>7 DEF Fits, First

\* The segment at hand
LEMMA SegmentKind ==
    ASSUME TypeInv, SeatInv, NEW r \in Requests, pc[r] \in Segmented
    PROVE  /\ IsClass(Segment(r).service) <=> OfClass(r)
           /\ OfClass(r) => Segment(r).service = First(r).service
<1>1. Fits(r) /\ plan[r] \in Seq(Slot) /\ plan[r] # <<>>
  BY DEF SeatInv, PlanKinds, TypeInv, TypeOK, PlanOK, InTx, Segmented
<1>2. Segment(r) = plan[r][1] /\ 1 \in 1..Len(plan[r])
  BY <1>1, HeadTailProperties, EmptySeq DEF Segment
<1> QED
  BY <1>1, <1>2 DEF Fits

\* No other request has a claim to a class whose committed event is locked,
\* or to the group of r before r commits.
LEMMA ClaimOfEvent ==
    ASSUME TypeInv, SlotInv, ApartInv, SeatInv, NEW r \in Requests, pc[r] \in InTx,
           NEW e \in EventsSeen(r), OfClass(e.group), Key(e.slot) \in held[r]
    PROVE  /\ KnownTo(r, e.group)
           /\ \A f \in events : f.group = e.group => Key(f.slot) \in held[r]
           /\ \A s \in Requests \ {r} : e.group \notin Claims(s)
<1>0. pc[r] # "booked"
  BY DEF InTx
<1>1. CASE e \in events
  <2>1. KnownTo(r, e.group)
    BY <1>1 DEF ApartInv, Committed, KnownTo
  <2>2. ASSUME NEW f \in events, f.group = e.group
        PROVE  Key(f.slot) \in held[r]
    <3>1. f.id = e.id
      BY <1>1, <2>2 DEF SeatInv, EventKinds, RightKind
    <3> QED
      BY <1>1, <3>1 DEF ApartInv, IdNamesSlot
  <2>3. ASSUME NEW s \in Requests \ {r}, e.group \in Claims(s)
        PROVE  FALSE
    <3>1. Key(e.slot) \in held[s]
      BY <1>1, <2>3 DEF SeatInv, ClaimsLocked
    <3> QED
      BY <3>1 DEF SlotInv, LocksApart
  <2> QED
    BY <2>1, <2>2, <2>3
<1>2. CASE e \in tx[r].events
  <2>1. e.group = r
    BY <1>2 DEF ApartInv, OwnRows
  <2>2. \A f \in events : f.group # r
    BY <1>0 DEF ApartInv, Committed
  <2>3. \A s \in Requests \ {r} : r \notin Claims(s)
    BY <1>0 DEF SeatInv, ClaimsLocked, KnownTo
  <2> QED
    BY <2>1, <2>2, <2>3 DEF KnownTo
<1> QED
  BY <1>1, <1>2 DEF EventsSeen

LEMMA SeatFind ==
    ASSUME TypeInv, SlotInv, ApartInv, SeatInv, NEW r \in Requests, Find(r)
    PROVE  SeatInv'
<1> USE DEF tables, planning
<1>1. /\ UNCHANGED <<events, seats, plan, held, input>> /\ pc[r] = "find"
      /\ pc'[r] \in {"join", "create"}
      /\ \A s \in Requests \ {r} : pc'[s] = pc[s] /\ plan'[s] = plan[s]
  BY DEF Find, Goto, TypeInv, TypeOK
<1>2. CASE UNCHANGED tx /\ pc'[r] = "create"
  <2>1. GoesAhead(r)
    BY <1>1, <1>2 DEF GoesAhead, InTx
  <2>2. \A s \in Requests : Begins(s) \/ GoesAhead(s)
    BY <1>1, <1>2, <2>1, OtherRequest
  <2>3. SeatOnce'
    BY <1>1 DEF SeatInv, SeatOnce
  <2>4. \A s \in Requests : pc[s] = "booked" => pc'[s] = "booked"
    BY <1>1
  <2> QED
    BY <1>1, <2>2, <2>3, <2>4, SeatsKeep
<1>3. CASE ~(UNCHANGED tx /\ pc'[r] = "create")
  <2>1. PICK e \in EventsSeen(r) :
          /\ e.slot = Segment(r)
          /\ tx' = [tx EXCEPT ![r].found = [some |-> TRUE, event |-> e]]
    BY <1>3 DEF Find, Goto, TypeInv, TypeOK
  <2> DEFINE new == [tx[r] EXCEPT !.found = [some |-> TRUE, event |-> e]]
  <2>2. tx \in [Requests -> Tx] /\ tx[r] \in Tx
    BY DEF TypeInv, TypeOK
  <2>3. /\ new.events = tx[r].events /\ new.seats = tx[r].seats
        /\ new.core = tx[r].core
        /\ new.found = [some |-> TRUE, event |-> e]
    BY <2>2 DEF Tx
  <2>4. tx' = [tx EXCEPT ![r] = new]
    BY <2>1
  <2> HIDE DEF new
  <2>5. tx'[r] = new /\ \A s \in Requests \ {r} : tx'[s] = tx[s]
    BY <2>2, <2>4
  <2>6. OnlyOwn(r)
    BY <1>1, <2>5 DEF OnlyOwn, InTx
  <2>7. RightKind(e)
    BY DEF EventsSeen, SeatInv, EventKinds
  <2>8. RowsRight(r)
    <3>1. \A p \in tx[r].seats : p \in Seat
      BY <2>2 DEF Tx
    <3> QED
      BY <2>3, <2>5, <2>7, <3>1
      DEF RowsRight, SeatInv, EventKinds, CoreKinds, SeatKinds, NewSeats
  <2>9. ClaimsRight(r)
    <3>1. Key(e.slot) \in held[r] /\ pc[r] \in InTx
      BY <1>1, <2>1 DEF SlotInv, SegmentLocked, Locked, InTx
    <3>2. \A g \in Claims(r)' : g \in Claims(r) \/ (g = e.group /\ OfClass(g))
      BY <1>1, <2>3, <2>5, SameKinds DEF Claims
    <3> QED
      BY <3>1, <3>2, ClaimOfEvent DEF ClaimsRight, SeatInv, ClaimsLocked, ClaimsApart
  <2>10. Fits(r)'
    <3>1. Fits(r) /\ (OfClass(r)' <=> OfClass(r))
      BY <1>1, SameKinds DEF SeatInv, PlanKinds, InTx
    <3> QED
      BY <1>1, <2>3, <2>5, <3>1 DEF Fits, First
  <2>11. tx'[r].found.event.slot = Segment(r)'
    BY <1>1, <2>1, <2>3, <2>5 DEF Segment
  <2> QED
    BY <2>6, <2>8, <2>9, <2>10, <2>11, SeatStatement
<1> QED
  BY <1>2, <1>3
\* Whoever is in an individual group is its own client.
LEMMA SeatsOutsideClasses ==
    ASSUME TypeInv, SeatInv, NEW r \in Requests, NEW p \in SeatsSeen(r), ~OfClass(p.group)
    PROVE  p.group = p.id /\ p.client = Client(p.group)
BY DEF SeatInv, SeatKinds, RightSeat, SeatsSeen

LEMMA SeatJoin ==
    ASSUME TypeInv, SlotInv, ApartInv, SeatInv, NEW r \in Requests, Join(r)
    PROVE  SeatInv'
<1> USE DEF tables, planning
<1>0. pc[r] = "join" /\ pc[r] \in Segmented /\ UNCHANGED <<events, seats, input>>
  BY DEF Join, Segmented
<1>1. CASE Reject(r) /\ UNCHANGED plan
  <2>1. "rejected" \in Answered
    BY DEF Answered
  <2> QED
    BY <1>0, <1>1, <2>1, SeatEnds DEF Reject
<1>2. CASE ~(Reject(r) /\ UNCHANGED plan)
  <2> DEFINE e == tx[r].found.event
             taken == SeatsOf(SeatsSeen(r), e.group)
             seat == [id |-> r, group |-> e.group, client |-> Client(r),
                      status |-> NewStatus]
             Joined(rows) == [tx[r] EXCEPT !.seats = @ \union rows,
                                           !.core = @ \o CoreOf(r, e),
                                           !.found = [some |-> FALSE]]
  <2>1. Advance(r) /\ UNCHANGED held
    BY <1>2 DEF Join
  <2>2. PICK rows :
          /\ tx' = [tx EXCEPT ![r] = Joined(rows)]
          /\ \/ rows = {} /\ Mine(r, taken) # {}
             \/ rows = {seat} /\ Mine(r, taken) = {} /\ HasRoom(e, taken)
    BY <1>2 DEF Join
  <2>3. tx \in [Requests -> Tx] /\ tx[r] \in Tx
    BY DEF TypeInv, TypeOK
  <2>4. /\ Joined(rows).events = tx[r].events
        /\ Joined(rows).seats = tx[r].seats \union rows
        /\ Joined(rows).core = tx[r].core \o CoreOf(r, e)
        /\ Joined(rows).found = [some |-> FALSE]
    BY <2>3 DEF Tx
  <2> HIDE DEF Joined
  <2>5. tx'[r] = Joined(rows) /\ \A s \in Requests \ {r} : tx'[s] = tx[s]
    BY <2>2, <2>3
  <2>6. /\ tx[r].found.some /\ NameOf(e) \in Named(tx[r])
        /\ e \in Event /\ e.slot = Segment(r) /\ RightKind(e)
    BY <1>0, <2>3 DEF TypeInv, FoundOK, Named, Tx, Found, SeatInv, FoundHere, EventKinds
  <2>7. KnownTo(r, e.group)
    BY <2>6 DEF ApartInv, NamesBacked, Backed, NameOf
  <2>8. OfClass(e.group) <=> OfClass(r)
    BY <1>0, <2>6, SegmentKind DEF RightKind
  <2>9. rows # {} => OfClass(r)
    BY <2>2, <2>6, <2>8 DEF HasRoom, RightKind
  <2>10. ~OfClass(r) => Client(e.group) = Client(r)
    <3>1. ASSUME ~OfClass(r)
          PROVE  Client(e.group) = Client(r)
      <4>1. PICK p \in SeatsSeen(r) : p.group = e.group /\ p.client = Client(r)
        BY <2>2, <2>9, <3>1 DEF Mine, SeatsOf
      <4> QED
        BY <2>8, <3>1, <4>1, SeatsOutsideClasses
    <3> QED
      BY <3>1
  <2>11. Alike(r, NameOf(e))
    BY <2>6, <2>8, <2>10 DEF Alike, NameOf, RightKind
  <2>12. CoreOf(r, e) = <<NameOf(e)>> \/ CoreOf(r, e) = <<>>
    BY DEF CoreOf, NameOf
  <2>13. tx[r].core \in Seq(Core) /\ CoreOf(r, e) \in Seq(Core)
    BY <2>3, <2>6, CoreTypes DEF Tx, TypeInv
  <2>14. /\ \A i \in DOMAIN tx'[r].core : Alike(r, tx'[r].core[i])
         /\ Len(tx'[r].core) \in Nat
         /\ Len(tx'[r].core) <= Len(tx[r].core) + 1
    <3> DEFINE old == tx[r].core
               name == NameOf(e)
               more == CoreOf(r, e)
    <3>1. old \in Seq(Core) /\ more \in Seq(Core) /\ (more = <<name>> \/ more = <<>>)
      BY <2>12, <2>13
    <3>2. \A i \in DOMAIN old : Alike(r, old[i])
      BY DEF SeatInv, CoreKinds
    <3> HIDE DEF old, name, more
    <3>3. \A i \in DOMAIN (old \o more) : \/ i \in DOMAIN old /\ (old \o more)[i] = old[i]
                                         \/ (old \o more)[i] = name
      BY <3>1, Extended
    <3>4. Len(old \o more) = Len(old) + Len(more) /\ Len(old) \in Nat
          /\ (Len(more) = 0 \/ Len(more) = 1)
      BY <3>1, ConcatProperties, LenProperties
    <3>5. tx'[r].core = old \o more
      BY <2>4, <2>5 DEF old, more
    <3> HIDE DEF e
    <3>6. \A i \in DOMAIN (old \o more) : Alike(r, (old \o more)[i])
      BY <2>11, <3>2, <3>3 DEF name
    <3>7. Len(old \o more) \in Nat /\ Len(old \o more) <= Len(old) + 1
      <4>1. \A a \in Nat, b \in {0, 1} : a + b \in Nat /\ a + b <= a + 1
        OBVIOUS
      <4> QED
        BY <3>4, <4>1
    <3> QED
      BY <3>5, <3>6, <3>7 DEF old
  <2>15. Fits(r)'
    BY <1>0, <2>1, <2>14, FitsNext
  <2>16. pc'[r] \in InTx /\ pc'[r] # "join"
         /\ \A s \in Requests \ {r} : pc'[s] = pc[s] /\ plan'[s] = plan[s]
    BY <1>0, <2>1, Advances DEF Advance, Goto, TypeInv, TypeOK
  <2>17. OnlyOwn(r)
    BY <1>0, <2>1, <2>5, <2>16 DEF OnlyOwn
  <2>18. RowsRight(r)
    <3>1. \A p \in tx[r].seats :
            /\ p \in Seat /\ p.id = r /\ p.status = NewStatus
            /\ RightSeat(p) /\ KnownTo(r, p.group)
            /\ \A q \in seats : p.group = q.group => p.client # q.client
      BY <2>3 DEF Tx, SeatInv, SeatKinds, NewSeats
    <3>2. ASSUME NEW p \in rows
          PROVE  /\ p \in Seat /\ p.id = r /\ p.status = NewStatus
                 /\ RightSeat(p) /\ KnownTo(r, p.group)
                 /\ \A q \in seats : p.group = q.group => p.client # q.client
      <4>1. p = seat /\ Mine(r, taken) = {} /\ OfClass(r)
        BY <2>2, <2>9
      <4>2. seat \in Seat
        BY <2>6, RowTypes DEF Event
      <4>3. RightSeat(seat)
        BY <2>8, <4>1 DEF RightSeat
      <4>4. \A q \in seats : q.group = e.group => q.client # Client(r)
        BY <4>1 DEF Mine, SeatsOf, SeatsSeen
      <4> QED
        BY <2>7, <4>1, <4>2, <4>3, <4>4
    <3>3. tx'[r].seats = tx[r].seats \union rows
      BY <2>4, <2>5
    <3>4. /\ \A x \in tx'[r].events : RightKind(x)
          /\ ~tx'[r].found.some
      BY <2>4, <2>5 DEF SeatInv, EventKinds
    <3> QED
      BY <2>14, <3>1, <3>2, <3>3, <3>4 DEF RowsRight
  <2>19. ClaimsRight(r)
    <3>1. \A p \in rows : p.group = e.group
      BY <2>2
    <3>2. Claims(r)' \subseteq Claims(r)
      BY <1>0, <2>4, <2>5, <2>6, <3>1, SameKinds DEF Claims
    <3> QED
      BY <3>2 DEF ClaimsRight, SeatInv, ClaimsLocked, ClaimsApart
  <2> QED
    BY <2>15, <2>16, <2>17, <2>18, <2>19, SeatStatement
<1> QED
  BY <1>1, <1>2
\* The last segment of a class is the first.
LEMMA ClassPlan ==
    ASSUME ClassesAlone, TypeInv, SeatInv, NEW r \in Requests, OfClass(r), pc[r] \in InTx
    PROVE  /\ Len(tx[r].core) \in {0, 1}
           /\ pc[r] \in Segmented => Len(plan[r]) = 1
<1>1. Len(plan[r]) + Len(tx[r].core) <= 1
  BY ClassIsAlone DEF SeatInv, PlanKinds, Fits, TypeInv
<1>2. Len(plan[r]) \in Nat /\ Len(tx[r].core) \in Nat
  <2>1. plan[r] \in Seq(Slot) /\ tx[r].core \in Seq(Core)
    BY DEF TypeInv, TypeOK, Tx
  <2> QED
    BY <2>1, LenProperties
<1>3. pc[r] \in Segmented => Len(plan[r]) \in Nat \ {0}
  BY Segments
<1>4. \A a, b \in Nat : a + b <= 1 => b \in {0, 1} /\ (a # 0 => a = 1)
  OBVIOUS
<1> QED
  BY <1>1, <1>2, <1>3, <1>4

LEMMA SeatCreate ==
    ASSUME ClassesAlone, TypeInv, SlotInv, ApartInv, SeatInv, NEW r \in Requests, Create(r)
    PROVE  SeatInv'
<1> USE DEF tables, planning
<1>0. /\ pc[r] = "create" /\ pc[r] \in Segmented /\ pc[r] \in InTx
      /\ UNCHANGED <<events, seats, input>>
  BY DEF Create, Segmented, InTx
<1>1. CASE Reject(r) /\ UNCHANGED plan
  <2>1. "rejected" \in Answered
    BY DEF Answered
  <2> QED
    BY <1>0, <1>1, <2>1, SeatEnds DEF Reject
<1>2. CASE ~(Reject(r) /\ UNCHANGED plan)
  <2> DEFINE e == NewRow(r)
             name == [id |-> e.id, group |-> r]
             seat == [id |-> r, group |-> r, client |-> Client(r), status |-> NewStatus]
             new == [tx[r] EXCEPT
                      !.events = @ \union {e},
                      !.groups = @ \union {[id |-> r, status |-> NewStatus]},
                      !.seats = @ \union {seat},
                      !.core = Append(@, name)]
  <2>1. Advance(r) /\ UNCHANGED held /\ tx' = [tx EXCEPT ![r] = new]
    BY <1>2 DEF Create, NewRow
  <2>2. NoConflict(r)
    BY <1>2 DEF Create, NoConflict
  <2>3. tx \in [Requests -> Tx] /\ tx[r] \in Tx /\ tx[r].core \in Seq(Core)
    BY DEF TypeInv, TypeOK, Tx
  <2>4. /\ new.events = tx[r].events \union {e}
        /\ new.seats = tx[r].seats \union {seat}
        /\ new.core = Append(tx[r].core, name)
        /\ new.found = tx[r].found
    BY <2>3 DEF Tx
  <2>5. /\ e.id = <<r, Len(plan[r])>> /\ e.slot = Segment(r) /\ e.group = r
        /\ Owner(e.id) = r
        /\ name.id = e.id /\ name.group = r
    BY <1>0, <2>2, NewRowIsApart DEF NewRow
  <2>6. RightKind(e)
    BY <1>0, <2>5, SegmentKind, ClassPlan DEF RightKind
  <2>7. Alike(r, name)
    BY <1>0, <2>5, ClassPlan DEF Alike
  <2>8. seat \in Seat /\ RightSeat(seat)
    BY RowTypes DEF RightSeat
  <2> HIDE DEF new, e, name
  <2>9. tx'[r] = new /\ \A s \in Requests \ {r} : tx'[s] = tx[s]
    BY <2>1, <2>3
  <2>10. /\ \A i \in DOMAIN tx'[r].core : Alike(r, tx'[r].core[i])
         /\ Len(tx'[r].core) \in Nat
         /\ Len(tx'[r].core) <= Len(tx[r].core) + 1
    <3> DEFINE old == tx[r].core
    <3>1. old \in Seq(Core \union {name}) /\ name \in Core \union {name}
      BY <2>3
    <3>2. \A i \in DOMAIN old : Alike(r, old[i])
      BY DEF SeatInv, CoreKinds
    <3>3. tx'[r].core = Append(old, name)
      BY <2>4, <2>9
    <3> HIDE DEF old
    <3>4. /\ Len(Append(old, name)) = Len(old) + 1
          /\ \A i \in 1..Len(old) : Append(old, name)[i] = old[i]
          /\ Append(old, name)[Len(old) + 1] = name
      BY <3>1, AppendProperties
    <3>5. DOMAIN Append(old, name) = 1..Len(old) + 1 /\ DOMAIN old = 1..Len(old)
          /\ Len(old) \in Nat
      BY <3>1, <3>4, AppendProperties, LenProperties
    <3>6. \A i \in DOMAIN Append(old, name) : Alike(r, Append(old, name)[i])
      BY <2>7, <3>2, <3>4, <3>5
    <3>7. Len(Append(old, name)) \in Nat /\ Len(Append(old, name)) <= Len(old) + 1
      BY <3>4, <3>5
    <3> QED
      BY <3>3, <3>6, <3>7 DEF old
  <2>11. Fits(r)'
    BY <1>0, <2>1, <2>10, FitsNext
  <2>12. pc'[r] \in InTx /\ pc'[r] # "join"
         /\ \A s \in Requests \ {r} : pc'[s] = pc[s] /\ plan'[s] = plan[s]
    BY <1>0, <2>1, Advances DEF Advance, Goto, TypeInv, TypeOK
  <2>13. OnlyOwn(r)
    BY <1>0, <2>1, <2>9, <2>12 DEF OnlyOwn, InTx
  <2>14. RowsRight(r)
    <3>1. \A p \in tx[r].seats :
            /\ p \in Seat /\ p.id = r /\ p.status = NewStatus
            /\ RightSeat(p) /\ KnownTo(r, p.group)
            /\ \A q \in seats : p.group = q.group => p.client # q.client
      BY <2>3 DEF Tx, SeatInv, SeatKinds, NewSeats
    <3>2. \A q \in seats : q.group # r
      BY <1>0 DEF SeatInv, SeatKinds, InTx
    <3>3. /\ seat \in Seat /\ seat.id = r /\ seat.status = NewStatus
          /\ RightSeat(seat) /\ KnownTo(r, seat.group)
          /\ \A q \in seats : seat.group = q.group => seat.client # q.client
      BY <2>8, <3>2 DEF KnownTo
    <3> HIDE DEF seat
    <3>4. \A p \in tx'[r].seats :
            /\ p \in Seat /\ p.id = r /\ p.status = NewStatus
            /\ RightSeat(p) /\ KnownTo(r, p.group)
            /\ \A q \in seats : p.group = q.group => p.client # q.client
      BY <2>4, <2>9, <3>1, <3>3
    <3>5. /\ \A x \in tx'[r].events : RightKind(x)
          /\ tx'[r].found.some => RightKind(tx'[r].found.event)
      BY <2>4, <2>6, <2>9 DEF SeatInv, EventKinds
    <3> QED
      BY <2>10, <3>4, <3>5 DEF RowsRight
  <2>15. ClaimsRight(r)
    <3>1. seat.group = r
      OBVIOUS
    <3> HIDE DEF seat
    <3>2. Claims(r)' \subseteq Claims(r) \union {r}
      BY <1>0, <2>4, <2>9, <3>1, SameKinds DEF Claims
    <3>3. \A f \in events : f.group # r
      BY <1>0 DEF ApartInv, Committed, InTx
    <3>4. \A s \in Requests \ {r} : r \notin Claims(s)
      BY <1>0 DEF SeatInv, ClaimsLocked, KnownTo, InTx
    <3>5. KnownTo(r, r)
      BY DEF KnownTo
    <3> QED
      BY <3>2, <3>3, <3>4, <3>5 DEF ClaimsRight, SeatInv, ClaimsLocked, ClaimsApart
  <2> QED
    BY <2>11, <2>12, <2>13, <2>14, <2>15, SeatStatement
<1> QED
  BY <1>1, <1>2

\* A commit moves no class, and moves what it does to groups of the same kind.
LEMMA AfterKinds ==
    ASSUME ClassesAlone, TypeInv, SeatInv, NEW r \in Requests, pc[r] \in InTx,
           NEW f \in EventsSeen(r)
    PROVE  /\ RightKind(After(r, f))
           /\ OfClass(After(r, f).group) <=> OfClass(f.group)
           /\ OfClass(f.group) => After(r, f) = f
<1>1. f \in Event /\ RightKind(f)
  BY Ids DEF EventsSeen, SeatInv, EventKinds, TypeInv
<1>2. CASE ~Moves(r, f)
  BY <1>1, <1>2 DEF After
<1>3. CASE Moves(r, f)
  <2> DEFINE core == tx[r].core
             g == core[1].group
  <2>1. PICK i \in DOMAIN core : core[i].id = f.id
    BY <1>3 DEF Moves
  <2>2. core \in Seq(Core) /\ core # <<>>
    BY <1>3 DEF Moves, TypeInv, TypeOK, Tx
  <2>3. 1 \in DOMAIN core
    <3> HIDE DEF core
    <3> QED
      BY <2>2, EmptySeq, LenProperties
  <2>4. Alike(r, core[1]) /\ Alike(r, core[i])
    BY <2>1, <2>3 DEF SeatInv, CoreKinds
  <2>5. After(r, f) = [f EXCEPT !.group = g]
    BY <1>3 DEF After
  <2>6. /\ After(r, f).id = f.id /\ After(r, f).slot = f.slot /\ After(r, f).group = g
        /\ f.group = g => After(r, f) = f
    BY <1>1, <2>5 DEF Event
  <2>7. OfClass(r) => i = 1
    <3>1. OfClass(r) => Len(core) \in {0, 1}
      BY ClassPlan
    <3>2. DOMAIN core = 1..Len(core)
      BY <2>2, LenProperties
    <3> HIDE DEF core
    <3> QED
      BY <2>1, <3>1, <3>2
  <2> HIDE DEF core, g
  <2>8. (OfClass(g) <=> OfClass(r)) /\ (OfClass(f.group) <=> OfClass(r))
    BY <1>1, <2>1, <2>4 DEF Alike, RightKind, g
  <2>9. CASE OfClass(r)
    <3>1. f.id = <<g, 1>> /\ f.id = <<f.group, 1>>
      BY <1>1, <2>1, <2>4, <2>7, <2>8, <2>9 DEF Alike, RightKind, g
    <3>2. f.group = g
      BY <3>1
    <3> QED
      BY <1>1, <2>6, <3>2
  <2>10. CASE ~OfClass(r)
    <3>1. Client(g) = Client(Owner(f.id))
      BY <2>1, <2>4, <2>10 DEF Alike, g
    <3> QED
      BY <1>1, <2>6, <2>8, <2>10, <3>1 DEF RightKind
  <2> QED
    BY <2>9, <2>10
<1> QED
  BY <1>2, <1>3
\* Two seats that a transaction sees in one group are of two clients.
LEMMA SeatsSeenOnce ==
    ASSUME TypeInv, SeatInv, NEW r \in Requests,
           NEW p \in SeatsSeen(r), NEW q \in SeatsSeen(r),
           p.group = q.group, p.client = q.client
    PROVE  p = q
<1>1. CASE p \in tx[r].seats /\ q \in tx[r].seats
  <2>1. p \in Seat /\ q \in Seat
    BY <1>1 DEF TypeInv, TypeOK, Tx
  <2>2. p.id = q.id /\ p.status = q.status
    BY <1>1 DEF SeatInv, SeatKinds
  <2> QED
    BY <2>1, <2>2 DEF Seat
<1>2. CASE p \in seats /\ q \in seats
  BY <1>2 DEF SeatInv, SeatOnce
<1> QED
  BY <1>1, <1>2 DEF SeatsSeen, SeatInv, NewSeats

CommitsSeats(r) == Commits(r) /\ seats' = SeatsSeen(r) /\ input' = input

LEMMA SeatCommits ==
    ASSUME ClassesAlone, TypeInv, SlotInv, ApartInv, SeatInv,
           NEW r \in Requests, CommitsSeats(r)
    PROVE  SeatInv'
<1>1. /\ pc[r] = "commit" /\ pc[r] \in InTx /\ pc'[r] = "booked"
      /\ \A s \in Requests \ {r} : pc'[s] = pc[s] /\ tx'[s] = tx[s] /\ held'[s] = held[s]
      /\ tx'[r] = EmptyTx /\ plan' = plan /\ input' = input
      /\ \A s \in Requests : pc[s] = "booked" => pc'[s] = "booked"
      /\ seats' = seats \union tx[r].seats
  BY DEF CommitsSeats, Commits, SeatsSeen, InTx, TypeInv, TypeOK
<1>2. events' = {After(r, f) : f \in EventsSeen(r)}
  BY RegroupedRows DEF CommitsSeats, Commits
<1>3. \A f \in EventsSeen(r) :
        /\ RightKind(After(r, f))
        /\ OfClass(After(r, f).group) <=> OfClass(f.group)
        /\ OfClass(f.group) => After(r, f) = f
  BY <1>1, AfterKinds
<1>4. EventKinds'
  <2>1. \A e \in events' : RightKind(e)
    BY <1>2, <1>3
  <2>2. ASSUME NEW s \in Requests
        PROVE  /\ \A e \in tx'[s].events : RightKind(e)
               /\ tx'[s].found.some => RightKind(tx'[s].found.event)
    BY <1>1, EmptyTxFacts DEF SeatInv, EventKinds
  <2> QED
    BY <1>1, <2>1, <2>2, SameKinds DEF EventKinds
<1>5. PlanKinds'
  <2>1. ASSUME NEW s \in Requests \ {r}, pc[s] \in InTx
        PROVE  Fits(s)'
    <3>1. Fits(s) /\ plan'[s] = plan[s] /\ tx'[s] = tx[s]
      BY <1>1, <2>1 DEF SeatInv, PlanKinds
    <3>2. OfClass(s)' <=> OfClass(s)
      BY <1>1, SameKinds
    <3> QED
      BY <1>1, <3>1, <3>2 DEF Fits, First
  <2>2. \A s \in Requests \ {r} : pc[s] \notin InTx => tx[s] = EmptyTx
    BY DEF SeatInv, PlanKinds
  <2>3. pc'[r] \notin InTx
    BY <1>1 DEF InTx
  <2>4. ASSUME NEW s \in Requests
        PROVE  (pc'[s] \notin InTx => tx'[s] = EmptyTx) /\ (pc'[s] \in InTx => Fits(s)')
    BY <1>1, <2>1, <2>2, <2>3
  <2> QED
    BY <2>4 DEF PlanKinds
<1>6. FoundHere'
  <2>1. \A s \in Requests \ {r} : pc'[s] = "join" => tx'[s].found.event.slot = Segment(s)'
    BY <1>1 DEF SeatInv, FoundHere, Segment
  <2> QED
    BY <1>1, <2>1 DEF FoundHere
<1>7. CoreKinds'
  BY <1>1, SameKinds, EmptyTxFacts DEF SeatInv, CoreKinds
<1>8. SeatKinds'
  <2>1. \A p \in seats' : p.id \in Requests /\ p.group \in Requests
    BY <1>1 DEF TypeInv, TypeOK, Tx, Seat
  <2>2. \A s \in Requests : \A p \in tx[s].seats : p.group \in Requests
    BY DEF TypeInv, TypeOK, Tx, Seat
  <2>3. ASSUME NEW p \in seats'
        PROVE  RightSeat(p)' /\ pc'[p.id] = "booked" /\ pc'[p.group] = "booked"
    <3>1. CASE p \in seats
      BY <1>1, <2>1, <3>1, SameKinds DEF SeatInv, SeatKinds
    <3>2. CASE p \in tx[r].seats
      BY <1>1, <2>1, <3>2, SameKinds DEF SeatInv, SeatKinds, KnownTo
    <3> QED
      BY <1>1, <3>1, <3>2
  <2>4. ASSUME NEW s \in Requests, NEW p \in tx'[s].seats
        PROVE  RightSeat(p)' /\ p.id = s /\ KnownTo(s, p.group)' /\ p.status = NewStatus
    <3>1. s # r /\ p \in tx[s].seats
      BY <1>1, EmptyTxFacts
    <3>2. RightSeat(p) /\ p.id = s /\ KnownTo(s, p.group) /\ p.status = NewStatus
      BY <3>1 DEF SeatInv, SeatKinds
    <3> QED
      BY <1>1, <2>2, <3>1, <3>2, SameKinds DEF KnownTo
  <2> QED
    BY <2>3, <2>4 DEF SeatKinds, NewStatus
<1>9. Claims(r)' = {} /\ \A s \in Requests \ {r} : Claims(s)' = Claims(s)
  <2>1. Claims(r)' = {}
    BY <1>1, EmptyTxFacts DEF Claims
  <2>2. \A s \in Requests \ {r} : Claims(s)' = Claims(s)
    BY <1>1, SameKinds DEF Claims
  <2> QED
    BY <2>1, <2>2
<1>10. ClaimsLocked'
  <2> SUFFICES ASSUME NEW s \in Requests, NEW g \in Claims(s)'
               PROVE  KnownTo(s, g)' /\ \A e \in events' : e.group = g => Key(e.slot)' \in held'[s]
    BY DEF ClaimsLocked
  <2>1. s # r /\ g \in Claims(s) /\ g \in Requests /\ OfClass(g)
    BY <1>9 DEF Claims
  <2>2. KnownTo(s, g) /\ \A e \in events : e.group = g => Key(e.slot) \in held[s]
    BY <2>1 DEF SeatInv, ClaimsLocked
  <2>3. g # r
    BY <1>1, <2>1, <2>2 DEF KnownTo
  <2>4. ASSUME NEW e \in events', e.group = g
        PROVE  e \in events
    <3>1. PICK f \in EventsSeen(r) : e = After(r, f)
      BY <1>2
    <3>2. e = f
      BY <1>3, <2>1, <2>4, <3>1
    <3>3. f \notin tx[r].events
      BY <2>3, <2>4, <3>2 DEF ApartInv, OwnRows
    <3> QED
      BY <3>2, <3>3 DEF EventsSeen
  <2> QED
    BY <1>1, <2>1, <2>2, <2>4 DEF KnownTo, Key
<1>11. ClaimsApart'
  <2>1. \A s, t \in Requests : s # t => Claims(s)' \intersect Claims(t)' = {}
    BY <1>9 DEF SeatInv, ClaimsApart
  <2> QED
    BY <2>1 DEF ClaimsApart
<1>12. NewSeats'
  <2> SUFFICES ASSUME NEW s \in Requests, NEW p \in tx'[s].seats, NEW q \in seats',
                      p.group = q.group
               PROVE  p.client # q.client
    BY DEF NewSeats
  <2>1. s # r /\ p \in tx[s].seats
    BY <1>1, EmptyTxFacts
  <2>2. CASE q \in seats
    BY <2>1, <2>2 DEF SeatInv, NewSeats
  <2>3. CASE q \in tx[r].seats
    <3>1. RightSeat(p) /\ p.id = s /\ RightSeat(q) /\ q.id = r
      BY <2>1, <2>3 DEF SeatInv, SeatKinds
    <3>2. OfClass(p.group)
      BY <2>1, <3>1 DEF RightSeat
    <3>3. p.group \in Requests
      BY <2>1 DEF TypeInv, TypeOK, Tx, Seat
    <3>4. p.group \in Claims(s) /\ p.group \in Claims(r)
      BY <2>1, <2>3, <3>2, <3>3 DEF Claims
    <3> QED
      BY <2>1, <3>4 DEF SeatInv, ClaimsApart
  <2> QED
    BY <1>1, <2>2, <2>3
<1>13. SeatOnce'
  <2>1. \A p, q \in SeatsSeen(r) : p.group = q.group /\ p.client = q.client => p = q
    BY SeatsSeenOnce
  <2> QED
    BY <2>1 DEF SeatOnce, CommitsSeats
<1> QED
  BY <1>4, <1>5, <1>6, <1>7, <1>8, <1>10, <1>11, <1>12, <1>13 DEF SeatInv

LEMMA SeatCommit ==
    ASSUME ClassesAlone, TypeInv, SlotInv, ApartInv, SeatInv, NEW r \in Requests, Commit(r)
    PROVE  SeatInv'
<1> USE DEF tables, planning
<1>0. pc[r] = "commit" /\ UNCHANGED <<plan, input>>
  BY DEF Commit
<1>1. CASE Reject(r) /\ UNCHANGED tables
  <2>1. "rejected" \in Answered
    BY DEF Answered
  <2> QED
    BY <1>0, <1>1, <2>1, SeatEnds DEF Reject
<1>2. CASE ~(Reject(r) /\ UNCHANGED tables)
  <2>1. CommitsSeats(r)
    BY <1>0, <1>2 DEF Commit, Commits, CommitsSeats, Goto, EndTx
  <2> QED
    BY <2>1, SeatCommits
<1> QED
  BY <1>1, <1>2

LEMMA SeatInit == Init => SeatInv
BY EmptyTxFacts
DEF Init, SeatInv, EventKinds, PlanKinds, FoundHere, CoreKinds, SeatKinds,
    ClaimsLocked, ClaimsApart, Claims, NewSeats, SeatOnce, InTx

LEMMA SeatStep ==
    ASSUME ClassesAlone
    PROVE  TypeInv /\ SlotInv /\ ApartInv /\ SeatInv /\ [Next]_vars => SeatInv'
<1> SUFFICES ASSUME TypeInv, SlotInv, ApartInv, SeatInv, [Next]_vars PROVE SeatInv'
  OBVIOUS
<1>1. ASSUME NEW r \in Requests, Abort(r) PROVE SeatInv'
  <2>1. pc[r] # "booked" /\ "aborted" \in Answered
    BY <1>1 DEF Abort, InTx, Answered
  <2> QED
    BY <1>1, <2>1, SeatEnds DEF Abort, tables, planning
<1>2. ASSUME NEW r \in Requests, RequestStep(r) PROVE SeatInv'
  BY <1>2, SeatPlanning, SeatLock, SeatFind, SeatJoin, SeatCreate, SeatCommit
  DEF RequestStep
<1>3. ASSUME NEW k \in Cancels, CancelStep(k) PROVE SeatInv'
  BY <1>3, SeatCancellation
<1>4. CASE HoldExpires \/ UNCHANGED vars
  <2>1. UNCHANGED <<events, seats, pc, input, plan, tx, held>>
    BY <1>4 DEF HoldExpires, vars, tables
  <2>2. SeatOnce'
    BY <2>1 DEF SeatInv, SeatOnce
  <2>3. \A s \in Requests : Begins(s) \/ GoesAhead(s)
    BY <2>1, OtherRequest
  <2> QED
    BY <2>1, <2>2, <2>3, SeatsKeep
<1> QED
  BY <1>1, <1>2, <1>3, <1>4 DEF Next

-----------------------------------------------------------------------------
\* However many requests of one client run at once, and whatever is cancelled
\* meanwhile, no client ever has two seats in one group: the table has no
\* constraint that would refuse the second one.  Classes are booked alone.
THEOREM OneSeatEach ==
    ASSUME ClassesAlone
    PROVE  Spec => []SeatOnce
<1>1. SeatInv => SeatOnce
  BY DEF SeatInv
<1> QED
  BY <1>1, TypeInit, TypeStep, SlotInit, SlotStep, ApartInit, ApartStep,
     SeatInit, SeatStep, PTL DEF Spec
-----------------------------------------------------------------------------
\* A cancellation that deletes a class has read that nobody else attends it.
LastWhenDeleting ==
    \A k \in Cancels :
        cancel[k].at \in {"deleteEvents", "deleteSeats", "deleteGroup"} => WasLast(k)

LEMMA LastStep == TypeInv /\ LastWhenDeleting /\ [Next]_vars => LastWhenDeleting'
<1> SUFFICES ASSUME TypeInv, LastWhenDeleting, [Next]_vars
             PROVE  LastWhenDeleting'
  OBVIOUS
<1> USE DEF tables, planning
<1>1. CASE cancel' = cancel
  BY <1>1 DEF LastWhenDeleting, WasLast
<1>2. ASSUME NEW k \in Cancels, CancelStep(k)
      PROVE  LastWhenDeleting'
  <2>1. cancel \in [Cancels -> CancelState]
    BY DEF TypeInv, TypeOK
  <2>2. \A j \in Cancels \ {k} : cancel'[j] = cancel[j]
    BY <1>2, <2>1
    DEF CancelStep, CancelRead, CancelIndividual, CancelSeat, DeleteEvents,
        DeleteSeats, DeleteGroup, CancelGoto
  <2>3. ASSUME NEW label, cancel[k].at \in Running, CancelGoto(k, label)
        PROVE  /\ cancel'[k].at = label
               /\ cancel'[k].seat = cancel[k].seat /\ cancel'[k].known = cancel[k].known
    <3>1. cancel[k] \in [at : Running \union {"done"}, seat : Seat, known : SUBSET Seat]
      BY <2>1, <2>3 DEF CancelState, Running
    <3>2. cancel'[k] = [cancel[k] EXCEPT !.at = label]
      BY <2>1, <2>3 DEF CancelGoto
    <3> QED
      BY <3>1, <3>2
  <2>4. cancel'[k].at \in {"deleteEvents", "deleteSeats", "deleteGroup"} => WasLast(k)'
    <3>1. CASE CancelRead(k)
      <4>1. PICK e \in events, p \in seats :
              \/ CancelGoto(k, "done")
              \/ cancel' = [cancel EXCEPT ![k] =
                    [at |-> IF IsClass(e.slot.service) THEN "seat" ELSE "individual",
                     seat |-> p, known |-> SeatsOf(seats, e.group)]]
        BY <3>1 DEF CancelRead
      <4>2. CASE CancelGoto(k, "done")
        <5>1. cancel'[k] = [cancel[k] EXCEPT !.at = "done"] /\ cancel[k] \in CancelState
          BY <2>1, <4>2 DEF CancelGoto
        <5>2. cancel'[k].at = "done"
          BY <5>1 DEF CancelState
        <5> QED
          BY <5>2
      <4> QED
        BY <2>1, <4>1, <4>2
    <3>2. CASE CancelIndividual(k) \/ DeleteGroup(k)
      BY <2>3, <3>2 DEF CancelIndividual, DeleteGroup, Running
    <3>3. CASE CancelSeat(k)
      <4>1. cancel[k].at \in Running
        BY <3>3 DEF CancelSeat, Running
      <4>2. cancel'[k].at = "deleteEvents" => WasLast(k)
        BY <2>3, <3>3, <4>1 DEF CancelSeat
      <4>3. cancel'[k].at \in {"deleteEvents", "done"}
        BY <2>3, <3>3, <4>1 DEF CancelSeat
      <4>4. cancel'[k].seat = cancel[k].seat /\ cancel'[k].known = cancel[k].known
        BY <2>3, <3>3, <4>1 DEF CancelSeat
      <4> QED
        BY <4>2, <4>3, <4>4 DEF WasLast
    <3>4. CASE DeleteEvents(k) \/ DeleteSeats(k)
      <4>1. cancel[k].at \in {"deleteEvents", "deleteSeats"} /\ cancel[k].at \in Running
        BY <3>4 DEF DeleteEvents, DeleteSeats, Running
      <4>2. cancel'[k].seat = cancel[k].seat /\ cancel'[k].known = cancel[k].known
        BY <2>3, <3>4, <4>1 DEF DeleteEvents, DeleteSeats
      <4> QED
        BY <4>1, <4>2 DEF LastWhenDeleting, WasLast
    <3> QED
      BY <1>2, <3>1, <3>2, <3>3, <3>4 DEF CancelStep
  <2>5. \A j \in Cancels \ {k} :
          cancel'[j].at \in {"deleteEvents", "deleteSeats", "deleteGroup"} => WasLast(j)'
    BY <2>2 DEF LastWhenDeleting, WasLast
  <2> QED
    BY <2>4, <2>5 DEF LastWhenDeleting
<1>3. ASSUME NEW r \in Requests, RequestStep(r) \/ Abort(r)
      PROVE  cancel' = cancel
  BY <1>3 DEF RequestStep, Post, TryJoin, CheckHold, SetHold, Pick, Assign, Lock, Find,
              Join, Create, Commit, Abort
<1> QED
  BY <1>1, <1>2, <1>3 DEF Next, HoldExpires, vars

\* A row that a cancellation marks stays the same row.
LEMMA LostSeats ==
    ASSUME TypeInv, LastWhenDeleting, Next, NEW p \in seats, \A q \in seats' : ~SameRow(p, q)
    PROVE  \E k \in Cancels :
             /\ cancel[k].at = "deleteSeats" /\ cancel[k].seat.group = p.group
             /\ \A q \in cancel[k].known :
                  SameRow(p, q) => \/ SameRow(p, cancel[k].seat)
                                   \/ q.status = CancelledByClient
<1>1. p \notin seats'
  BY DEF SameRow
<1>2. ~(\E c : seats' = SeatCancelled(c))
  BY SeatCancelledRows DEF SameRow, TypeInv
<1>3. PICK k \in Cancels : DeleteSeats(k)
  BY <1>1, <1>2
  DEF Next, RequestStep, Post, TryJoin, CheckHold, SetHold, Pick, Assign, Lock, Find, Join,
      Create, Commit, Abort, HoldExpires, CancelStep, CancelRead, CancelIndividual,
      CancelSeat, DeleteEvents, DeleteGroup, SeatsSeen, tables, planning
<1>4. cancel[k].at = "deleteSeats" /\ cancel[k].seat.group = p.group
  BY <1>1, <1>3 DEF DeleteSeats, SeatsOf
<1>5. WasLast(k)
  BY <1>4 DEF LastWhenDeleting
<1> QED
  BY <1>4, <1>5 DEF WasLast, SameRow

\* A seat that another client's cancellation removes was itself cancelled, or was
\* taken after that cancellation had read the class: reading outside a transaction is
\* the only way to lose a seat.
THEOREM SeatsAreLostByStaleReads == Spec => SeatLossIsStaleRead
<1>1. Init => LastWhenDeleting
  BY DEF Init, LastWhenDeleting
<1>2. TypeInv /\ LastWhenDeleting /\ [Next]_vars =>
        [\A p \in seats :
            (\A q \in seats' : ~SameRow(p, q)) =>
                \E k \in Cancels :
                    /\ cancel[k].at = "deleteSeats" /\ cancel[k].seat.group = p.group
                    /\ \A q \in cancel[k].known :
                        SameRow(p, q) => \/ SameRow(p, cancel[k].seat)
                                         \/ q.status = CancelledByClient]_vars
  BY LostSeats
<1> QED
  BY <1>1, <1>2, LastStep, TypeInit, TypeStep, PTL DEF Spec, SeatLossIsStaleRead

-----------------------------------------------------------------------------
(***************************************************************************)
(* Booking implements Attendance, for any requests, cancellations,         *)
(* clients, services and capacities, as long as classes are booked alone.  *)
(*                                                                         *)
(* A commit is a booking, a rollback is a refusal, the deletion of a       *)
(* class's event is the end of the class, and nothing else shows.  What    *)
(* the commit does to the book of slots was decided statements before, on  *)
(* rows that others could change since; the invariant says what of it      *)
(* still holds: each slot of the plan that the transaction is through with *)
(* is its own, is one where its client has a seat, or was that of a class  *)
(* that is gone.                                                           *)
(***************************************************************************)

\* What a cancellation deletes is a class, which has lost its event before
\* it loses its seats.
CancelKinds ==
    \A k \in Cancels : cancel[k].at \in Running =>
        /\ pc[cancel[k].seat.group] = "booked"
        /\ cancel[k].at # "individual" => OfClass(cancel[k].seat.group)
        /\ cancel[k].at \in {"deleteSeats", "deleteGroup"} =>
             \A e \in events : e.group # cancel[k].seat.group

\* A transaction that takes a seat of a class takes one that is free.
Room(r) ==
    \A p \in tx[r].seats : OfClass(p.group) =>
        Cardinality(SeatsOf(seats, p.group)) < Capacity[First(p.group).service]

FreeSeats ==
    /\ IsFiniteSet(seats)
    /\ \A r \in Requests : IsFiniteSet(tx[r].seats) /\ Room(r)

\* Somebody takes part in an individual event, and will in those regrouped.
Hosted(r) ==
    /\ tx[r].events # {} => \E p \in tx[r].seats : p.group = r
    /\ ~OfClass(r) => \A i \in DOMAIN tx[r].core :
         \E p \in SeatsSeen(r) : p.group = tx[r].core[i].group

Attended ==
    /\ \A e \in events : ~OfClass(e.group) => \E p \in seats : p.group = e.group
    /\ \A r \in Requests : Hosted(r)

\* No event is at the slot of a class any more.
Gone(r, s) == IsClass(s.service) /\ \A e \in EventsSeen(r) : e.slot # s

Attends(r, g) == \E p \in SeatsSeen(r) : p.group = g /\ p.client = Client(r)

\* A slot that the transaction is through with
Done(r, s) ==
    /\ Key(s) \in held[r]
    /\ \/ \E e \in tx[r].events : e.slot = s
       \/ \E e \in events : e.slot = s /\ Attends(r, e.group)
       \/ Gone(r, s)

\* What is left of the plan is the rest of a chain.  The transaction is through
\* with the beginning, and has events and seats of classes nowhere else.
OnChain(r, p) ==
    LET n == Len(p) - Len(plan[r])
        past == {p[i] : i \in 1..n}
    IN /\ n \in Nat
       /\ \A i \in 1..Len(plan[r]) : plan[r][i] = p[n + i]
       /\ \A s \in past : Done(r, s)
       /\ \A e \in tx[r].events : e.slot \in past
       /\ \A q \in tx[r].seats, e \in events :
            OfClass(q.group) /\ Owner(e.id) = q.group => e.slot \in past

\* What was found is still there, unless it is a class that is gone.
StillFound(r) ==
    /\ tx[r].found.event \in EventsSeen(r) \/ Gone(r, Segment(r))
    /\ \A e \in events : e.id = tx[r].found.event.id => e.slot = tx[r].found.event.slot

Single == {"tryJoin", "checkHold", "setHold", "pick"}

OnItsWay(r) ==
    /\ pc[r] \in Single => ~IsMulti(r)
    /\ pc[r] \in InTx => \E p \in Chains(input[r]) : OnChain(r, p)
    /\ pc[r] = "join" => StillFound(r)
    /\ pc[r] = "commit" => plan[r] = <<>>

PromiseInv ==
    /\ CancelKinds
    /\ FreeSeats
    /\ Attended
    /\ \A r \in Requests : OnItsWay(r)
-----------------------------------------------------------------------------
\* A list of the clients is no longer than the list of their seats.
LEMMA ClientsOfSeats ==
    ASSUME NEW S, IsFiniteSet(S)
    PROVE  /\ IsFiniteSet({p.client : p \in S})
           /\ Cardinality({p.client : p \in S}) <= Cardinality(S)
<1> DEFINE T == {p.client : p \in S}
           f == [p \in S |-> p.client]
<1>1. f \in [S -> T] /\ \A t \in T : \E p \in S : f[p] = t
  OBVIOUS
<1>2. f \in Surjection(S, T)
  BY <1>1 DEF Surjection
<1> HIDE DEF f
<1> QED
  BY <1>2, FS_Surjection

LEMMA FewerSeats ==
    ASSUME NEW S, NEW T, T \subseteq S, IsFiniteSet(S), NEW g
    PROVE  /\ IsFiniteSet(T) /\ IsFiniteSet(SeatsOf(S, g))
           /\ Cardinality(SeatsOf(T, g)) <= Cardinality(SeatsOf(S, g))
<1>1. SeatsOf(S, g) \subseteq S /\ SeatsOf(T, g) \subseteq SeatsOf(S, g)
  BY DEF SeatsOf
<1> QED
  BY <1>1, FS_Subset

\* A cancelled seat is counted on.
LEMMA CancelledSeats ==
    ASSUME TypeOK, IsFiniteSet(seats), NEW c, NEW g
    PROVE  /\ IsFiniteSet(SeatCancelled(c))
           /\ Cardinality(SeatsOf(SeatCancelled(c), g)) <= Cardinality(SeatsOf(seats, g))
<1> DEFINE Off(q) == IF SameRow(q, c) THEN [q EXCEPT !.status = CancelledByClient] ELSE q
           f == [q \in seats |-> Off(q)]
           S == SeatsOf(seats, g)
           T == SeatsOf(SeatCancelled(c), g)
           h == [q \in S |-> Off(q)]
<1>1. \A q \in seats : Off(q).group = q.group
  BY DEF TypeOK, Seat
<1>2. SeatCancelled(c) = {Off(q) : q \in seats}
  BY DEF SeatCancelled
<1> HIDE DEF Off
<1>3. f \in Surjection(seats, SeatCancelled(c))
  BY <1>2 DEF Surjection
<1>4. S \subseteq seats /\ T = {Off(q) : q \in S}
  BY <1>1, <1>2 DEF SeatsOf
<1>5. h \in Surjection(S, T)
  BY <1>4 DEF Surjection
<1>6. IsFiniteSet(S)
  BY <1>4, FS_Subset
<1> HIDE DEF f, h, S, T
<1>7. IsFiniteSet(SeatCancelled(c)) /\ Cardinality(T) <= Cardinality(S)
  BY <1>3, <1>5, <1>6, FS_Surjection
<1> QED
  BY <1>7 DEF S, T
-----------------------------------------------------------------------------
LEMMA SameChains ==
    ASSUME input' = input
    PROVE  \A r : Chains(input[r])' = Chains(input[r])
BY DEF Chains, Laid, SlotAt

\* What another actor leaves of that on which a transaction relies: an event
\* whose lock it holds goes only if it is a class, and with it goes the slot.
Undisturbed(s) ==
    /\ input' = input /\ pc'[s] = pc[s] /\ plan'[s] = plan[s]
    /\ tx'[s] = tx[s] /\ held'[s] = held[s]
    /\ \A e \in events : Key(e.slot) \in held[s] =>
         \/ e \in events' /\ (Attends(s, e.group) => Attends(s, e.group)')
         \/ IsClass(e.slot.service) /\ \A f \in EventsSeen(s)' : f.slot # e.slot
    /\ \A f \in events' : Key(f.slot) \in held[s] => \E e \in events : e.slot = f.slot
    /\ \A f \in events' : KnownTo(s, Owner(f.id)) =>
         \E e \in events : e.id = f.id /\ e.slot = f.slot

LEMMA GoneStays ==
    ASSUME NEW s \in Requests, Undisturbed(s), NEW x, Key(x) \in held[s], Gone(s, x)
    PROVE  Gone(s, x)'
<1>1. ASSUME NEW f \in EventsSeen(s)', f.slot = x
      PROVE  FALSE
  <2>1. CASE f \in tx[s].events
    BY <1>1, <2>1 DEF Gone, EventsSeen
  <2>2. CASE f \in events'
    <3>1. PICK e \in events : e.slot = f.slot
      BY <1>1, <2>2 DEF Undisturbed
    <3> QED
      BY <1>1, <3>1 DEF Gone, EventsSeen
  <2> QED
    BY <1>1, <2>1, <2>2 DEF EventsSeen, Undisturbed
<1> QED
  BY <1>1 DEF Gone, IsClass

LEMMA DoneStays ==
    ASSUME NEW s \in Requests, Undisturbed(s), NEW x, Done(s, x)
    PROVE  Done(s, x)'
<1>1. Key(x)' \in held'[s] /\ Key(x) \in held[s]
  BY DEF Done, Undisturbed, Key
<1>2. CASE \E e \in tx[s].events : e.slot = x
  BY <1>1, <1>2 DEF Done, Undisturbed
<1>3. ASSUME NEW e \in events, e.slot = x, Attends(s, e.group)
      PROVE  Done(s, x)'
  <2>1. CASE e \in events' /\ Attends(s, e.group)'
    BY <1>1, <1>3, <2>1 DEF Done
  <2>2. CASE IsClass(e.slot.service) /\ \A f \in EventsSeen(s)' : f.slot # e.slot
    BY <1>1, <1>3, <2>2 DEF Done, Gone, IsClass
  <2> QED
    BY <1>1, <1>3, <2>1, <2>2 DEF Undisturbed
<1>4. CASE Gone(s, x)
  BY <1>1, <1>4, GoneStays DEF Done
<1> QED
  BY <1>2, <1>3, <1>4 DEF Done

LEMMA FoundStays ==
    ASSUME TypeInv, SlotInv, ApartInv, SeatInv, NEW s \in Requests, Undisturbed(s),
           pc[s] = "join", StillFound(s)
    PROVE  StillFound(s)'
<1> DEFINE e == tx[s].found.event
<1>1. /\ tx[s].found.some /\ NameOf(e) \in Named(tx[s])
      /\ e.slot = Segment(s) /\ Key(Segment(s)) \in held[s]
  BY DEF TypeInv, FoundOK, Named, SeatInv, FoundHere, SlotInv, SegmentLocked, Locked
<1>2. KnownTo(s, Owner(e.id))
  BY <1>1 DEF ApartInv, NamesBacked, Backed, NameOf
<1>3. tx'[s].found.event = e /\ Segment(s)' = Segment(s)
  BY DEF Undisturbed, Segment
<1> HIDE DEF e
<1>4. \A f \in events' : f.id = e.id => f.slot = e.slot
  <2> SUFFICES ASSUME NEW f \in events', f.id = e.id PROVE f.slot = e.slot
    OBVIOUS
  <2>1. PICK d \in events : d.id = f.id /\ d.slot = f.slot
    BY <1>2 DEF Undisturbed
  <2> QED
    BY <2>1 DEF StillFound, e
<1>5. e \in EventsSeen(s)' \/ Gone(s, Segment(s))'
  <2>1. CASE e \in tx[s].events
    BY <2>1 DEF EventsSeen, Undisturbed
  <2>2. CASE e \in events
    <3>1. e.slot = Segment(s) /\ Key(e.slot) \in held[s]
      BY <1>1 DEF e
    <3>2. CASE e \in events'
      BY <3>2 DEF EventsSeen
    <3>3. CASE IsClass(e.slot.service) /\ \A f \in EventsSeen(s)' : f.slot # e.slot
      BY <1>3, <3>1, <3>3 DEF Gone, IsClass
    <3> QED
      BY <2>2, <3>1, <3>2, <3>3 DEF Undisturbed
  <2>3. CASE Gone(s, Segment(s))
    BY <1>1, <2>3, GoneStays DEF Segment, Undisturbed, Gone
  <2> QED
    BY <2>1, <2>2, <2>3 DEF StillFound, EventsSeen, e
<1> QED
  BY <1>3, <1>4, <1>5 DEF StillFound

LEMMA WayKept ==
    ASSUME TypeInv, SlotInv, ApartInv, SeatInv, NEW s \in Requests, Undisturbed(s),
           OnItsWay(s)
    PROVE  OnItsWay(s)'
<1>1. ASSUME pc[s] \in InTx, NEW p \in Chains(input[s]), OnChain(s, p)
      PROVE  OnChain(s, p)'
  <2> DEFINE n == Len(p) - Len(plan[s])
             past == {p[i] : i \in 1..n}
  <2>1. plan'[s] = plan[s] /\ tx'[s] = tx[s] /\ input' = input
    BY DEF Undisturbed
  <2>2. /\ n \in Nat /\ \A i \in 1..Len(plan[s]) : plan[s][i] = p[n + i]
        /\ \A x \in past : Done(s, x)
        /\ \A e \in tx[s].events : e.slot \in past
        /\ \A q \in tx[s].seats, e \in events :
             OfClass(q.group) /\ Owner(e.id) = q.group => e.slot \in past
    BY <1>1 DEF OnChain
  <2> HIDE DEF n, past
  <2>3. \A x \in past : Done(s, x)'
    BY <2>2, DoneStays
  <2>4. ASSUME NEW q \in tx[s].seats, NEW f \in events',
               OfClass(q.group), Owner(f.id) = q.group
        PROVE  f.slot \in past
    <3>1. KnownTo(s, Owner(f.id))
      BY <2>4 DEF SeatInv, SeatKinds
    <3>2. PICK e \in events : e.id = f.id /\ e.slot = f.slot
      BY <2>4, <3>1 DEF Undisturbed
    <3> QED
      BY <2>2, <2>4, <3>2
  <2>5. \A g : OfClass(g)' <=> OfClass(g)
    BY <2>1, SameKinds
  <2> QED
    BY <2>1, <2>2, <2>3, <2>4, <2>5 DEF OnChain, n, past
<1>2. pc'[s] = pc[s] /\ plan'[s] = plan[s] /\ input' = input
  BY DEF Undisturbed
<1>3. pc'[s] \in InTx => \E p \in Chains(input[s]) : OnChain(s, p)'
  BY <1>1, <1>2 DEF OnItsWay
<1>4. Chains(input[s])' = Chains(input[s])
  BY <1>2, SameChains
<1>5. pc'[s] = "join" => StillFound(s)'
  BY <1>2, FoundStays DEF OnItsWay
<1> QED
  BY <1>2, <1>3, <1>4, <1>5 DEF OnItsWay, IsMulti
-----------------------------------------------------------------------------
\* A statement of r changes no table.
OthersWait(r) ==
    /\ events' = events /\ seats' = seats /\ input' = input /\ cancel' = cancel
    /\ pc[r] # "booked"
    /\ \A s \in Requests \ {r} :
         /\ pc'[s] = pc[s] /\ plan'[s] = plan[s]
         /\ tx'[s] = tx[s] /\ held'[s] = held[s]

OwnPart(r) == IsFiniteSet(tx[r].seats) /\ Room(r) /\ Hosted(r) /\ OnItsWay(r)

LEMMA PromiseStatement ==
    ASSUME TypeInv, SlotInv, ApartInv, SeatInv, PromiseInv,
           NEW r \in Requests, OthersWait(r), OwnPart(r)'
    PROVE  PromiseInv'
<1>0. /\ events' = events /\ seats' = seats /\ input' = input /\ cancel' = cancel
      /\ \A s \in Requests : pc[s] = "booked" => pc'[s] = "booked"
      /\ \A s \in Requests \ {r} :
           /\ pc'[s] = pc[s] /\ plan'[s] = plan[s]
           /\ tx'[s] = tx[s] /\ held'[s] = held[s]
  BY DEF OthersWait
<1>1. CancelKinds'
  <2>1. \A k \in Cancels : cancel[k].at \in Running => cancel[k].seat.group \in Requests
    BY RunningCancel DEF TypeInv, Seat
  <2>2. \A g : OfClass(g)' <=> OfClass(g)
    BY <1>0, SameKinds
  <2>3. CancelKinds
    BY DEF PromiseInv
  <2> HIDE DEF OfClass
  <2> QED
    BY <1>0, <2>1, <2>2, <2>3 DEF CancelKinds
<1>2. ASSUME NEW s \in Requests \ {r}
      PROVE  OwnPart(s)'
  <2>1. /\ pc'[s] = pc[s] /\ plan'[s] = plan[s]
        /\ tx'[s] = tx[s] /\ held'[s] = held[s]
    BY <1>0
  <2>2. IsFiniteSet(tx[s].seats) /\ Room(s) /\ Hosted(s) /\ OnItsWay(s)
    BY DEF PromiseInv, FreeSeats, Attended
  <2>3. Undisturbed(s)
    <3>1. \A g : Attends(s, g) => Attends(s, g)'
      BY <1>0, <2>1 DEF Attends, SeatsSeen, Client
    <3> HIDE DEF Attends
    <3> QED
      BY <1>0, <2>1, <3>1 DEF Undisturbed
  <2>4. OnItsWay(s)'
    BY <2>2, <2>3, WayKept
  <2>5. \A g : OfClass(g)' <=> OfClass(g)
    BY <1>0, SameKinds
  <2>6. Room(s)' /\ Hosted(s)'
    BY <1>0, <2>1, <2>2, <2>5 DEF Room, Hosted, SeatsSeen, First
  <2> QED
    BY <2>1, <2>2, <2>4, <2>6 DEF OwnPart
<1>3. \A s \in Requests : IsFiniteSet(tx[s].seats)' /\ Room(s)' /\ Hosted(s)' /\ OnItsWay(s)'
  BY <1>2 DEF OwnPart
<1>4. FreeSeats'
  BY <1>0, <1>3 DEF PromiseInv, FreeSeats
<1>5. Attended'
  <2>1. \A g : OfClass(g)' <=> OfClass(g)
    BY <1>0, SameKinds
  <2> QED
    BY <1>0, <1>3, <2>1 DEF PromiseInv, Attended
<1> QED
  BY <1>1, <1>3, <1>4, <1>5 DEF PromiseInv

\* A request outside its transaction has no rows.
LEMMA NothingOwned ==
    ASSUME NEW r \in Requests, tx'[r] = EmptyTx, pc'[r] \notin InTx,
           pc'[r] \in Single => ~IsMulti(r)'
    PROVE  OwnPart(r)'
<1>1. IsFiniteSet({})
  BY FS_EmptySet
<1> QED
  BY <1>1, EmptyTxFacts DEF OwnPart, Room, Hosted, OnItsWay, InTx

\* A transaction begins with a whole chain.
LEMMA ChainBegins ==
    ASSUME TypeInv, NEW r \in Requests, input' = input,
           tx'[r] = EmptyTx, pc'[r] = "lock",
           NEW p \in Chains(input[r]), plan'[r] = p
    PROVE  OwnPart(r)'
<1>1. IsFiniteSet({})
  BY FS_EmptySet
<1>2. Len(p) \in Nat
  BY ChainShape, LenProperties DEF TypeInv
<1>3. OnChain(r, p)'
  <2>1. Len(p) - Len(plan'[r]) = 0
    BY <1>2
  <2>2. \A i \in 1..Len(plan'[r]) : plan'[r][i] = p[0 + i]
    BY <1>2
  <2>3. 1..0 = {} /\ 0 \in Nat
    OBVIOUS
  <2> QED
    BY <2>1, <2>2, <2>3, EmptyTxFacts DEF OnChain
<1>4. Chains(input[r])' = Chains(input[r])
  BY SameChains
<1> QED
  BY <1>1, <1>3, <1>4, EmptyTxFacts DEF OwnPart, Room, Hosted, OnItsWay, Single
\* The one slot of a single service is a chain.
LEMMA SingleChain ==
    ASSUME TypeOK, NEW r \in Requests, ~IsMulti(r), NEW u \in First(r).staff
    PROVE  <<SlotOf(input[r], u)>> \in Chains(input[r])
<1> DEFINE b == input[r]
           wanted == b.attendees
           n == Len(wanted)
           user == [i \in 1..n |-> u]
           start == [i \in 1..n |-> b.start]
           s == SlotOf(b, u)
           p == <<s>>
<1>1. n = 1
  <2>1. n \in Nat \ {0} /\ ~(n > 1)
    BY Inputs DEF IsMulti
  <2>2. \A m \in Nat \ {0} : ~(m > 1) => m = 1
    OBVIOUS
  <2> HIDE DEF n
  <2> QED
    BY <2>1, <2>2
<1>2. u \in Users /\ b.start \in Nat
  BY Inputs
<1>3. user \in [1..n -> Users]
  BY <1>2
<1>4. start \in [1..n -> b.start..b.start + Horizon]
  BY <1>2, BookingAssumption
<1>5. s = SlotAt(wanted[1], u, b.start) /\ s.user = u /\ s.start = b.start
  BY DEF SlotOf, SlotAt
<1>6. Laid(wanted, user, start) = p
  <2>1. Laid(wanted, user, start) = [i \in 1..1 |-> SlotAt(wanted[i], user[i], start[i])]
    BY <1>1 DEF Laid
  <2>2. user[1] = u /\ start[1] = b.start
    BY <1>1
  <2> HIDE DEF user, start, s, wanted
  <2>3. [i \in 1..1 |-> SlotAt(wanted[i], user[i], start[i])] = [i \in 1..1 |-> s]
    BY <1>5, <2>2
  <2> QED
    BY <2>1, <2>3
<1>7. u \in wanted[1].staff
  BY DEF First
<1> HIDE DEF s, user, start, wanted
<1>8. \A i \in 1..n : p[i].user \in wanted[i].staff
                      /\ p[i].start = IF i = 1 THEN b.start ELSE p[i - 1].end
  BY <1>1, <1>5, <1>7
<1> HIDE DEF p
<1>9. p \in Chains(b)
  BY <1>3, <1>4, <1>6, <1>8 DEF Chains, wanted
<1> QED
  BY <1>9 DEF p, s

LEMMA PromisePlanning ==
    ASSUME TypeInv, SlotInv, ApartInv, SeatInv, PromiseInv, NEW r \in Requests,
           Post(r) \/ TryJoin(r) \/ CheckHold(r) \/ SetHold(r) \/ Pick(r) \/ Assign(r)
    PROVE  PromiseInv'
<1> USE DEF tables, planning
<1>1. pc[r] \in Planning \union {"idle"} /\ UNCHANGED <<events, seats, input, cancel>>
  BY DEF Post, TryJoin, CheckHold, SetHold, Pick, Assign, Planning
<1>2. PICK label \in Planning \union {"lock", "rejected"} : Goto(r, label)
  BY DEF Post, TryJoin, CheckHold, SetHold, Pick, Assign, Reject, Planning
<1>3. UNCHANGED <<tx, held>> \/ EndTx(r)
  BY DEF Post, TryJoin, CheckHold, SetHold, Pick, Assign, Reject
<1>4. UNCHANGED plan \/ \E p : plan' = [plan EXCEPT ![r] = p]
  BY DEF Post, TryJoin, CheckHold, SetHold, Pick, Assign
<1>5. pc[r] \notin InTx /\ pc[r] # "booked" /\ pc'[r] = label
      /\ \A s \in Requests \ {r} : pc'[s] = pc[s] /\ plan'[s] = plan[s]
  BY <1>1, <1>2, <1>4 DEF Goto, InTx, Planning, TypeInv, TypeOK
<1>6. tx'[r] = EmptyTx /\ \A s \in Requests \ {r} : tx'[s] = tx[s] /\ held'[s] = held[s]
  BY <1>3, <1>5 DEF EndTx, SeatInv, PlanKinds, TypeInv, TypeOK
<1>7. OthersWait(r)
  BY <1>1, <1>5, <1>6 DEF OthersWait
<1>8. ASSUME label = "lock"
      PROVE  OwnPart(r)'
  <2>1. plan \in [Requests -> Seq(Slot)]
    BY DEF TypeInv, TypeOK
  <2>2. \/ TryJoin(r) \/ Pick(r) \/ Assign(r)
    BY <1>2, <1>5, <1>8
    DEF Post, CheckHold, SetHold, Reject, Goto, TypeInv, TypeOK
  <2>3. CASE TryJoin(r) \/ Pick(r)
    <3>1. pc[r] \in Single
      BY <2>3 DEF TryJoin, Pick, Single
    <3>2. ~IsMulti(r)
      BY <3>1 DEF PromiseInv, OnItsWay
    <3>3. \E u \in First(r).staff : plan' = [plan EXCEPT ![r] = <<SlotOf(input[r], u)>>]
      BY <1>5, <1>8, <2>3
      DEF TryJoin, JoinTargets, Pick, Available, Reject, Goto, TypeInv, TypeOK
    <3>4. PICK u \in First(r).staff : plan'[r] = <<SlotOf(input[r], u)>>
      BY <2>1, <3>3
    <3> QED
      BY <1>1, <1>5, <1>6, <1>8, <3>2, <3>4, SingleChain, ChainBegins DEF TypeInv
  <2>4. CASE Assign(r)
    <3>1. \E p \in Plans(r) : plan' = [plan EXCEPT ![r] = p]
      BY <1>5, <1>8, <2>4 DEF Assign, Reject, Goto, TypeInv, TypeOK
    <3>2. \E p \in Chains(input[r]) : plan'[r] = p
      BY <2>1, <3>1 DEF Plans
    <3> QED
      BY <1>1, <1>5, <1>6, <1>8, <3>2, ChainBegins
  <2> QED
    BY <2>2, <2>3, <2>4
<1>9. ASSUME label # "lock"
      PROVE  OwnPart(r)'
  <2>1. label \notin InTx
    BY <1>2, <1>9 DEF InTx, Planning
  <2>2. ASSUME label \in Single
        PROVE  ~IsMulti(r)
    <3>1. Post(r) \/ pc[r] \in Single
      BY <1>2, <1>5, <2>2
      DEF TryJoin, CheckHold, SetHold, Pick, Assign, Reject, Goto, Single, TypeInv, TypeOK
    <3>2. CASE Post(r)
      BY <1>5, <2>2, <3>2 DEF Post, Goto, Single, TypeInv, TypeOK
    <3>3. CASE pc[r] \in Single
      BY <3>3 DEF PromiseInv, OnItsWay
    <3> QED
      BY <3>1, <3>2, <3>3
  <2>3. IsMulti(r)' <=> IsMulti(r)
    BY <1>1 DEF IsMulti
  <2> QED
    BY <1>5, <1>6, <2>1, <2>2, <2>3, NothingOwned
<1> QED
  BY <1>7, <1>8, <1>9, PromiseStatement

LEMMA PromiseEnds ==
    ASSUME TypeInv, SlotInv, ApartInv, SeatInv, PromiseInv, NEW r \in Requests,
           NEW label \in Answered, pc[r] # "booked", Goto(r, label), EndTx(r),
           UNCHANGED <<events, seats, input, plan, cancel>>
    PROVE  PromiseInv'
<1>1. tx'[r] = EmptyTx /\ pc'[r] = label
      /\ \A s \in Requests \ {r} : tx'[s] = tx[s] /\ held'[s] = held[s] /\ pc'[s] = pc[s]
  BY DEF EndTx, Goto, TypeInv, TypeOK
<1>2. OwnPart(r)'
  BY <1>1, NothingOwned DEF Answered, InTx, Single
<1>3. OthersWait(r)
  BY <1>1 DEF OthersWait
<1> QED
  BY <1>2, <1>3, PromiseStatement

\* What a transaction is through with stays so when it adds rows and locks.
Adds(r) ==
    /\ tx[r].events \subseteq tx'[r].events /\ tx[r].seats \subseteq tx'[r].seats
    /\ held[r] \subseteq held'[r]
    /\ events' = events /\ seats' = seats /\ input' = input

LEMMA DoneMore ==
    ASSUME NEW r \in Requests, Adds(r), NEW x, Done(r, x)
    PROVE  Done(r, x)'
<1>1. Key(x)' \in held'[r]
  BY DEF Done, Adds, Key
<1>2. CASE \E e \in tx[r].events : e.slot = x
  BY <1>1, <1>2 DEF Done, Adds
<1>3. ASSUME NEW e \in events, e.slot = x, Attends(r, e.group)
      PROVE  Done(r, x)'
  <2>1. Attends(r, e.group)'
    BY <1>3 DEF Attends, SeatsSeen, Adds, Client
  <2> QED
    BY <1>1, <1>3, <2>1 DEF Done, Adds
<1>4. CASE Gone(r, x)
  BY <1>1, <1>4 DEF Done, Gone, EventsSeen, Adds, IsClass
<1> QED
  BY <1>2, <1>3, <1>4 DEF Done

\* The segment at hand stays the next of the chain.
LEMMA ChainGoesOn ==
    ASSUME TypeInv, NEW r \in Requests, Adds(r), tx'[r].events = tx[r].events,
           tx'[r].seats = tx[r].seats, plan'[r] = plan[r], NEW p, OnChain(r, p)
    PROVE  OnChain(r, p)'
<1> DEFINE n == Len(p) - Len(plan[r])
           past == {p[i] : i \in 1..n}
<1>1. /\ n \in Nat /\ \A i \in 1..Len(plan[r]) : plan[r][i] = p[n + i]
      /\ \A x \in past : Done(r, x)
      /\ \A e \in tx[r].events : e.slot \in past
      /\ \A q \in tx[r].seats, e \in events :
           OfClass(q.group) /\ Owner(e.id) = q.group => e.slot \in past
  BY DEF OnChain
<1>2. Len(p) - Len(plan'[r]) = n
  OBVIOUS
<1> HIDE DEF n, past
<1>3. \A x \in past : Done(r, x)'
  BY <1>1, DoneMore
<1>4. \A g : OfClass(g)' <=> OfClass(g)
  BY SameKinds DEF Adds
<1> QED
  BY <1>1, <1>3, <1>4 DEF OnChain, Adds, n, past
LEMMA PromiseLock ==
    ASSUME TypeInv, SlotInv, ApartInv, SeatInv, PromiseInv, NEW r \in Requests, Lock(r)
    PROVE  PromiseInv'
<1> USE DEF tables, planning
<1>1. /\ UNCHANGED <<events, seats, input, plan, tx, cancel>>
      /\ pc[r] = "lock" /\ pc'[r] = "find"
      /\ held[r] \subseteq held'[r]
      /\ \A s \in Requests \ {r} : pc'[s] = pc[s] /\ held'[s] = held[s]
  BY DEF Lock, Goto, TypeInv, TypeOK
<1>2. OthersWait(r) /\ Adds(r)
  BY <1>1 DEF OthersWait, Adds
<1>3. OnItsWay(r)'
  <2>1. PICK p \in Chains(input[r]) : OnChain(r, p)
    BY <1>1 DEF PromiseInv, OnItsWay, InTx
  <2>2. OnChain(r, p)'
    BY <1>1, <1>2, <2>1, ChainGoesOn
  <2>3. p \in Chains(input[r])'
    BY <1>1, SameChains
  <2> QED
    BY <1>1, <2>2, <2>3 DEF OnItsWay, Single
<1>4. OwnPart(r)'
  <2>1. \A g : OfClass(g)' <=> OfClass(g)
    BY <1>1, SameKinds
  <2> QED
    BY <1>1, <1>3, <2>1
    DEF OwnPart, PromiseInv, FreeSeats, Attended, Room, Hosted, SeatsSeen, First
<1> QED
  BY <1>2, <1>4, PromiseStatement

Notes(r) ==
    /\ tx'[r].events = tx[r].events /\ tx'[r].seats = tx[r].seats
    /\ tx'[r].core = tx[r].core
    /\ \A s \in Requests \ {r} : tx'[s] = tx[s]
    /\ pc'[r] = "join" => \E e \in EventsSeen(r) :
         e.slot = Segment(r) /\ tx'[r].found = [some |-> TRUE, event |-> e]

LEMMA PromiseFind ==
    ASSUME TypeInv, SlotInv, ApartInv, SeatInv, PromiseInv, NEW r \in Requests, Find(r)
    PROVE  PromiseInv'
<1> USE DEF tables, planning
<1>1. /\ UNCHANGED <<events, seats, plan, held, input, cancel>> /\ pc[r] = "find"
      /\ pc'[r] \in {"join", "create"}
      /\ \A s \in Requests \ {r} : pc'[s] = pc[s] /\ plan'[s] = plan[s]
  BY DEF Find, Goto, TypeInv, TypeOK
<1>2. tx \in [Requests -> Tx] /\ tx[r] \in Tx
  BY DEF TypeInv, TypeOK
<1>3. Notes(r)
  <2>1. CASE UNCHANGED tx /\ pc'[r] = "create"
    BY <2>1 DEF Notes
  <2>2. ASSUME NEW e \in EventsSeen(r), e.slot = Segment(r),
               tx' = [tx EXCEPT ![r].found = [some |-> TRUE, event |-> e]]
        PROVE  Notes(r)
    <3> DEFINE new == [tx[r] EXCEPT !.found = [some |-> TRUE, event |-> e]]
    <3>1. /\ new.events = tx[r].events /\ new.seats = tx[r].seats
          /\ new.core = tx[r].core
          /\ new.found = [some |-> TRUE, event |-> e]
      BY <1>2 DEF Tx
    <3>2. tx' = [tx EXCEPT ![r] = new]
      BY <2>2
    <3> HIDE DEF new
    <3>3. tx'[r] = new /\ \A s \in Requests \ {r} : tx'[s] = tx[s]
      BY <1>2, <3>2
    <3> QED
      BY <2>2, <3>1, <3>3 DEF Notes
  <2> QED
    BY <1>1, <2>1, <2>2 DEF Find, Goto, TypeInv, TypeOK
<1>4. OthersWait(r) /\ Adds(r)
  BY <1>1, <1>3 DEF OthersWait, Adds, Notes
<1>5. ASSUME pc'[r] = "join"
      PROVE  StillFound(r)'
  <2>1. PICK e \in EventsSeen(r) :
          e.slot = Segment(r) /\ tx'[r].found = [some |-> TRUE, event |-> e]
    BY <1>3, <1>5 DEF Notes
  <2>2. tx'[r].found.event = e /\ e \in EventsSeen(r)'
    BY <1>1, <1>3, <2>1 DEF EventsSeen, Notes
  <2>3. ASSUME NEW f \in events, f.id = e.id
        PROVE  f.slot = e.slot
    <3>1. CASE e \in events
      BY <2>3, <3>1 DEF ApartInv, IdNamesSlot
    <3>2. CASE e \in tx[r].events
      <4>1. Owner(e.id) = r /\ pc[Owner(f.id)] = "booked"
        BY <3>2 DEF ApartInv, OwnRows, Committed
      <4> QED
        BY <1>1, <2>3, <4>1
    <3> QED
      BY <3>1, <3>2 DEF EventsSeen
  <2> QED
    BY <1>1, <2>2, <2>3 DEF StillFound
<1>6. OnItsWay(r)'
  <2>1. PICK p \in Chains(input[r]) : OnChain(r, p)
    BY <1>1 DEF PromiseInv, OnItsWay, InTx
  <2>2. OnChain(r, p)'
    BY <1>1, <1>3, <1>4, <2>1, ChainGoesOn DEF Notes
  <2>3. p \in Chains(input[r])'
    BY <1>1, SameChains
  <2> QED
    BY <1>1, <1>5, <2>2, <2>3 DEF OnItsWay, Single
<1>7. OwnPart(r)'
  <2>1. \A g : OfClass(g)' <=> OfClass(g)
    BY <1>1, SameKinds
  <2> QED
    BY <1>1, <1>3, <1>6, <2>1
    DEF Notes, OwnPart, PromiseInv, FreeSeats, Attended, Room, Hosted, SeatsSeen, First
<1> QED
  BY <1>4, <1>7, PromiseStatement

\* The segment at hand joins those that the transaction is through with.
NewRowsHere(r) ==
    /\ \A e \in tx'[r].events : e \in tx[r].events \/ e.slot = Segment(r)
    /\ \A q \in tx'[r].seats : \/ q \in tx[r].seats
                               \/ \A e \in events : OfClass(q.group) /\ Owner(e.id) = q.group
                                    => e.slot = Segment(r)

LEMMA NextOfChain ==
    ASSUME TypeInv, NEW r \in Requests, pc[r] \in Segmented, Advance(r), Adds(r),
           NewRowsHere(r), NEW here, here = Segment(r), Done(r, here)',
           NEW p \in Chains(input[r]), OnChain(r, p)
    PROVE  OnChain(r, p)'
<1> DEFINE n == Len(p) - Len(plan[r])
           past == {p[i] : i \in 1..n}
           more == {p[i] : i \in 1..n + 1}
           rest == Tail(plan[r])
<1>1. /\ n \in Nat /\ \A i \in 1..Len(plan[r]) : plan[r][i] = p[n + i]
      /\ \A x \in past : Done(r, x)
      /\ \A e \in tx[r].events : e.slot \in past
      /\ \A q \in tx[r].seats, e \in events :
           OfClass(q.group) /\ Owner(e.id) = q.group => e.slot \in past
  BY DEF OnChain
<1>2. plan[r] \in Seq(Slot) /\ plan[r] # <<>> /\ plan'[r] = rest
  BY DEF TypeInv, TypeOK, PlanOK, Advance
<1>3. /\ Len(plan[r]) \in Nat \ {0} /\ Len(rest) = Len(plan[r]) - 1
      /\ \A i \in 1..Len(rest) : rest[i] = plan[r][i + 1]
      /\ Segment(r) = plan[r][1]
  BY <1>2, HeadTailProperties, EmptySeq DEF Segment
<1>4. Len(p) \in Nat
  BY ChainShape, LenProperties DEF TypeInv
<1>5. Len(p) - Len(plan'[r]) = n + 1
  <2>1. \A a \in Nat, b \in Nat \ {0} : a - (b - 1) = (a - b) + 1
    OBVIOUS
  <2>2. Len(p) - (Len(plan[r]) - 1) = n + 1
    BY <1>3, <1>4, <2>1
  <2> QED
    BY <1>2, <1>3, <2>2
<1> HIDE DEF n, rest
<1>6. \A i \in 1..Len(rest) : rest[i] = p[(n + 1) + i]
  <2> SUFFICES ASSUME NEW i \in 1..Len(rest) PROVE rest[i] = p[(n + 1) + i]
    OBVIOUS
  <2>1. \A a \in Nat \ {0} : \A j \in 1..(a - 1) : j + 1 \in 1..a /\ j \in Nat
    OBVIOUS
  <2>2. i + 1 \in 1..Len(plan[r]) /\ i \in Nat
    BY <1>3, <2>1
  <2>3. n + (i + 1) = (n + 1) + i
    BY <1>1, <2>2
  <2> QED
    BY <1>1, <1>3, <2>2, <2>3
<1>7. Segment(r) = p[n + 1]
  <2>1. \A a \in Nat \ {0} : 1 \in 1..a
    OBVIOUS
  <2> QED
    BY <1>1, <1>3, <2>1
<1>8. \A x \in more : x \in past \/ x = Segment(r)
  <2>1. \A i \in 1..n + 1 : i \in 1..n \/ i = n + 1
    BY <1>1
  <2> QED
    BY <1>7, <2>1
<1>9. past \subseteq more /\ Segment(r) \in more
  <2>1. 1..n \subseteq 1..n + 1 /\ n + 1 \in 1..n + 1
    BY <1>1
  <2> QED
    BY <1>7, <2>1
<1>10. plan'[r] = rest /\ n + 1 \in Nat
  BY <1>1, <1>2
<1> DEFINE m == n + 1
<1> HIDE DEF past, m
<1>11. \A x \in more : Done(r, x)'
  <2>1. \A x \in past : Done(r, x)'
    BY <1>1, DoneMore
  <2> QED
    BY <1>8, <2>1
<1>12. \A g : OfClass(g)' <=> OfClass(g)
  BY SameKinds DEF Adds
<1>13. \A e \in tx'[r].events : e.slot \in more
  BY <1>1, <1>9 DEF NewRowsHere
<1>14. \A q \in tx'[r].seats, e \in events :
         OfClass(q.group) /\ Owner(e.id) = q.group => e.slot \in more
  BY <1>1, <1>9 DEF NewRowsHere
<1>15. Len(p) - Len(plan'[r]) = m /\ m \in Nat
       /\ \A i \in 1..Len(plan'[r]) : plan'[r][i] = p[m + i]
  BY <1>5, <1>6, <1>10 DEF m
<1>16. more = {p[i] : i \in 1..m}
  BY DEF m
<1> HIDE DEF more
<1>17. {p[i] : i \in 1..(Len(p) - Len(plan'[r]))} = more
  <2> DEFINE k == Len(p) - Len(plan'[r])
  <2>1. k = m
    BY <1>15
  <2> HIDE DEF k
  <2>2. {p[i] : i \in 1..k} = {p[i] : i \in 1..m}
    BY <2>1
  <2>3. {p[i] : i \in 1..k} = more
    BY <1>16, <2>2
  <2> QED
    BY <2>3 DEF k
<1>18. input' = input /\ events' = events
  BY DEF Adds
<1> QED
  BY <1>11, <1>12, <1>13, <1>14, <1>15, <1>17, <1>18 DEF OnChain
\* A transaction that has booked its segment
LEMMA SegmentBooked ==
    ASSUME TypeInv, SeatInv, PromiseInv, NEW r \in Requests, pc[r] \in Segmented, Advance(r),
           Adds(r), NewRowsHere(r), NEW here, here = Segment(r), Done(r, here)'
    PROVE  OnItsWay(r)'
<1>1. PICK p \in Chains(input[r]) : OnChain(r, p)
  BY DEF PromiseInv, OnItsWay, InTx, Segmented
<1>2. OnChain(r, p)'
  BY <1>1, NextOfChain
<1>3. p \in Chains(input[r])'
  BY SameChains DEF Adds
<1>4. plan'[r] = Tail(plan[r]) /\ pc'[r] = IF Len(plan[r]) = 1 THEN "commit" ELSE "lock"
  BY DEF Advance, Goto, TypeInv, TypeOK
<1>5. Len(plan[r]) = 1 => Tail(plan[r]) = <<>>
  <2>1. plan[r] \in Seq(Slot) /\ plan[r] # <<>>
    BY DEF TypeInv, TypeOK, PlanOK
  <2>2. Len(Tail(plan[r])) = Len(plan[r]) - 1 /\ Tail(plan[r]) \in Seq(Slot)
    BY <2>1, HeadTailProperties
  <2>3. ASSUME Len(plan[r]) = 1
        PROVE  Tail(plan[r]) = <<>>
    <3>1. Len(Tail(plan[r])) = 0
      BY <2>2, <2>3
    <3> QED
      BY <2>2, <3>1, EmptySeq
  <2> QED
    BY <2>3
<1> QED
  BY <1>2, <1>3, <1>4, <1>5 DEF OnItsWay, Single

LEMMA PromiseJoin ==
    ASSUME TypeInv, SlotInv, ApartInv, SeatInv, PromiseInv, NEW r \in Requests, Join(r)
    PROVE  PromiseInv'
<1> USE DEF tables, planning
<1>0. pc[r] = "join" /\ pc[r] \in Segmented /\ UNCHANGED <<events, seats, input, cancel>>
  BY DEF Join, Segmented
<1>1. CASE Reject(r) /\ UNCHANGED plan
  <2>1. "rejected" \in Answered
    BY DEF Answered
  <2> QED
    BY <1>0, <1>1, <2>1, PromiseEnds DEF Reject
<1>2. CASE ~(Reject(r) /\ UNCHANGED plan)
  <2>e. PICK e : e = tx[r].found.event
    OBVIOUS
  <2>here. PICK here : here = Segment(r)
    OBVIOUS
  <2> DEFINE taken == SeatsOf(SeatsSeen(r), e.group)
             seat == [id |-> r, group |-> e.group, client |-> Client(r),
                      status |-> NewStatus]
             Joined(rows) == [tx[r] EXCEPT !.seats = @ \union rows,
                                           !.core = @ \o CoreOf(r, e),
                                           !.found = [some |-> FALSE]]
  <2>1. Advance(r) /\ UNCHANGED held
    BY <1>2 DEF Join
  <2>2. PICK rows :
          /\ tx' = [tx EXCEPT ![r] = Joined(rows)]
          /\ \/ rows = {} /\ Mine(r, taken) # {}
             \/ rows = {seat} /\ Mine(r, taken) = {} /\ HasRoom(e, taken)
    BY <1>2, <2>e DEF Join
  <2>3. tx \in [Requests -> Tx] /\ tx[r] \in Tx
    BY DEF TypeInv, TypeOK
  <2>4. /\ Joined(rows).events = tx[r].events
        /\ Joined(rows).seats = tx[r].seats \union rows
        /\ Joined(rows).core = tx[r].core \o CoreOf(r, e)
    BY <2>3 DEF Tx
  <2> HIDE DEF Joined
  <2>5. tx'[r] = Joined(rows) /\ \A s \in Requests \ {r} : tx'[s] = tx[s]
    BY <2>2, <2>3
  <2>6. /\ tx[r].found.some /\ e \in Event /\ e.slot = here /\ RightKind(e)
        /\ Key(here) \in held[r]
    BY <1>0, <2>e, <2>here, <2>3
    DEF TypeInv, FoundOK, Tx, Found, SeatInv, FoundHere, EventKinds, SlotInv,
        SegmentLocked, Locked
  <2>7. /\ e \in EventsSeen(r) \/ Gone(r, here)
        /\ \A f \in events : f.id = e.id => f.slot = e.slot
    BY <1>0, <2>e, <2>here DEF PromiseInv, OnItsWay, StillFound
  <2>8. /\ pc[r] # "booked" /\ held' = held
        /\ \A s \in Requests \ {r} : pc'[s] = pc[s] /\ plan'[s] = plan[s]
    BY <1>0, <2>1, Advances
  <2>9. OthersWait(r) /\ Adds(r)
    BY <1>0, <2>4, <2>5, <2>8 DEF OthersWait, Adds
  <2>10. Client(r)' = Client(r) /\ \A g : OfClass(g)' <=> OfClass(g)
    BY <1>0, SameKinds DEF Client
  <2>11. \E p \in SeatsSeen(r)' : p.group = e.group /\ p.client = Client(r)
    <3>1. CASE rows = {} /\ Mine(r, taken) # {}
      BY <1>0, <2>4, <2>5, <3>1 DEF Mine, SeatsOf, SeatsSeen
    <3>2. CASE rows = {seat}
      <4>1. seat.group = e.group /\ seat.client = Client(r) /\ seat \in rows
        BY <3>2
      <4> HIDE DEF seat
      <4> QED
        BY <2>4, <2>5, <4>1 DEF SeatsSeen
    <3> QED
      BY <2>2, <3>1, <3>2
  <2>12. Done(r, here)'
    <3>1. Key(here)' \in held'[r]
      BY <2>6, <2>8 DEF Key
    <3>2. CASE e \in tx[r].events
      BY <2>4, <2>5, <2>6, <3>1, <3>2 DEF Done
    <3>3. CASE e \in events
      <4>1. Attends(r, e.group)' /\ e \in events'
        BY <1>0, <2>10, <2>11, <3>3 DEF Attends
      <4> QED
        BY <2>6, <3>1, <4>1 DEF Done
    <3>4. CASE Gone(r, here)
      <4>1. Gone(r, here)'
        BY <1>0, <2>4, <2>5, <3>4 DEF Gone, EventsSeen, IsClass
      <4> QED
        BY <3>1, <4>1 DEF Done
    <3> QED
      BY <2>7, <3>2, <3>3, <3>4 DEF EventsSeen
  <2>13. ASSUME NEW f \in events, OfClass(e.group), Owner(f.id) = e.group
         PROVE  f.slot = here
    <3>1. RightKind(f)
      BY DEF SeatInv, EventKinds
    <3>2. f.id = e.id
      BY <2>6, <2>13, <3>1, Ids DEF RightKind, TypeInv, Owner
    <3> QED
      BY <2>6, <2>7, <3>2
  <2>14. NewRowsHere(r)
    <3>1. \A p \in rows : p.group = e.group
      BY <2>2
    <3> HIDE DEF seat
    <3>2. \A q \in tx'[r].seats : q \in tx[r].seats \/ q.group = e.group
      BY <2>4, <2>5, <3>1
    <3> QED
      BY <2>here, <2>4, <2>5, <2>13, <3>2 DEF NewRowsHere
  <2>15. OnItsWay(r)'
    BY <1>0, <2>here, <2>1, <2>9, <2>12, <2>14, SegmentBooked
  <2>16. IsFiniteSet(tx'[r].seats)
    <3>1. IsFiniteSet(tx[r].seats)
      BY DEF PromiseInv, FreeSeats
    <3>2. IsFiniteSet(tx[r].seats \union {seat})
      BY <3>1, FS_AddElement
    <3>3. tx'[r].seats = tx[r].seats \/ tx'[r].seats = tx[r].seats \union {seat}
      BY <2>2, <2>4, <2>5
    <3> HIDE DEF seat
    <3> QED
      BY <3>1, <3>2, <3>3
  <2>17. Room(r)'
    <3>1. ASSUME rows # {}, OfClass(e.group)
          PROVE  Cardinality(SeatsOf(seats, e.group)) < Capacity[First(e.group).service]
      <4>1. Cardinality(taken) < Capacity[e.slot.service] /\ IsClass(e.slot.service)
        BY <2>2, <3>1 DEF HasRoom
      <4>2. e.slot.service = First(e.group).service
        BY <2>6, <3>1 DEF RightKind
      <4>3. IsFiniteSet(SeatsSeen(r)) /\ seats \subseteq SeatsSeen(r)
        BY FS_Union DEF PromiseInv, FreeSeats, SeatsSeen
      <4>4. /\ IsFiniteSet(SeatsOf(seats, e.group)) /\ IsFiniteSet(taken)
            /\ Cardinality(SeatsOf(seats, e.group)) <= Cardinality(taken)
        BY <4>3, FewerSeats DEF PromiseInv, FreeSeats
      <4>5. Cardinality(SeatsOf(seats, e.group)) \in Nat /\ Cardinality(taken) \in Nat
        BY <4>4, FS_CardinalityType
      <4>6. Capacity[e.slot.service] \in Nat
        BY <2>6, BookingAssumption DEF Event, Slot
      <4> HIDE DEF taken
      <4> QED
        BY <4>1, <4>2, <4>4, <4>5, <4>6
    <3>2. ASSUME NEW p \in tx'[r].seats, OfClass(p.group)
          PROVE  Cardinality(SeatsOf(seats, p.group)) < Capacity[First(p.group).service]
      <4>1. CASE p \in tx[r].seats
        BY <3>2, <4>1 DEF PromiseInv, FreeSeats, Room
      <4>2. CASE p \in rows
        <5>1. p.group = e.group /\ rows # {}
          BY <2>2, <4>2
        <5> QED
          BY <3>1, <3>2, <5>1
      <4> QED
        BY <2>4, <2>5, <4>1, <4>2
    <3> QED
      BY <1>0, <2>10, <3>2 DEF Room, First
  <2>18. Hosted(r)'
    <3>1. Hosted(r)
      BY DEF PromiseInv, Attended
    <3>2. tx'[r].events # {} => \E p \in tx'[r].seats : p.group = r
      BY <2>4, <2>5, <3>1 DEF Hosted
    <3>3. ASSUME ~OfClass(r), NEW i \in DOMAIN tx'[r].core
          PROVE  \E p \in SeatsSeen(r)' : p.group = tx'[r].core[i].group
      <4> DEFINE old == tx[r].core
                 more == CoreOf(r, e)
      <4>1. old \in Seq(Core) /\ (more = <<NameOf(e)>> \/ more = <<>>)
        BY <2>3 DEF CoreOf, NameOf, Tx
      <4>2. tx'[r].core = old \o more
        BY <2>4, <2>5
      <4> HIDE DEF old, more
      <4>3. \/ i \in DOMAIN old /\ tx'[r].core[i] = old[i]
            \/ tx'[r].core[i] = NameOf(e)
        BY <3>3, <4>1, <4>2, Extended
      <4>4. CASE i \in DOMAIN old /\ tx'[r].core[i] = old[i]
        <5>1. \E p \in SeatsSeen(r) : p.group = old[i].group
          BY <3>1, <3>3, <4>4 DEF Hosted, old
        <5>2. SeatsSeen(r) \subseteq SeatsSeen(r)'
          BY <2>9 DEF SeatsSeen, Adds
        <5> QED
          BY <4>4, <5>1, <5>2
      <4>5. CASE tx'[r].core[i] = NameOf(e)
        <5>1. tx'[r].core[i].group = e.group
          BY <4>5 DEF NameOf
        <5> QED
          BY <2>11, <5>1
      <4> QED
        BY <4>3, <4>4, <4>5
    <3> QED
      BY <2>10, <3>2, <3>3 DEF Hosted
  <2> QED
    BY <2>9, <2>15, <2>16, <2>17, <2>18, PromiseStatement DEF OwnPart
<1> QED
  BY <1>1, <1>2
LEMMA PromiseCreate ==
    ASSUME TypeInv, SlotInv, ApartInv, SeatInv, PromiseInv, NEW r \in Requests, Create(r)
    PROVE  PromiseInv'
<1> USE DEF tables, planning
<1>0. /\ pc[r] = "create" /\ pc[r] \in Segmented /\ pc[r] \in InTx
      /\ UNCHANGED <<events, seats, input, cancel>>
  BY DEF Create, Segmented, InTx
<1>1. CASE Reject(r) /\ UNCHANGED plan
  <2>1. "rejected" \in Answered
    BY DEF Answered
  <2> QED
    BY <1>0, <1>1, <2>1, PromiseEnds DEF Reject
<1>2. CASE ~(Reject(r) /\ UNCHANGED plan)
  <2>here. PICK here : here = Segment(r)
    OBVIOUS
  <2>e. PICK e : e = NewRow(r)
    OBVIOUS
  <2>seat. PICK seat : seat = [id |-> r, group |-> r, client |-> Client(r), status |-> NewStatus]
    OBVIOUS
  <2>name. PICK name : name = [id |-> e.id, group |-> r]
    OBVIOUS
  <2> DEFINE new == [tx[r] EXCEPT
                      !.events = @ \union {e},
                      !.groups = @ \union {[id |-> r, status |-> NewStatus]},
                      !.seats = @ \union {seat},
                      !.core = Append(@, name)]
  <2>1. Advance(r) /\ UNCHANGED held /\ tx' = [tx EXCEPT ![r] = new]
    BY <1>2, <2>e, <2>seat, <2>name DEF Create, NewRow
  <2>2. tx \in [Requests -> Tx] /\ tx[r] \in Tx /\ tx[r].core \in Seq(Core)
    BY DEF TypeInv, TypeOK, Tx
  <2>3. /\ new.events = tx[r].events \union {e}
        /\ new.seats = tx[r].seats \union {seat}
        /\ new.core = Append(tx[r].core, name)
    BY <2>2 DEF Tx
  <2> HIDE DEF new
  <2>4. /\ tx'[r].events = tx[r].events \union {e}
        /\ tx'[r].seats = tx[r].seats \union {seat}
        /\ tx'[r].core = Append(tx[r].core, name)
        /\ \A s \in Requests \ {r} : tx'[s] = tx[s]
    BY <2>1, <2>2, <2>3
  <2>5. e.slot = here /\ Key(here) \in held[r] /\ seat.group = r /\ name.group = r
    BY <1>0, <2>here, <2>e, <2>seat, <2>name DEF NewRow, SlotInv, SegmentLocked, Locked
  <2>6. /\ pc[r] # "booked" /\ held' = held
        /\ \A s \in Requests \ {r} : pc'[s] = pc[s] /\ plan'[s] = plan[s]
    BY <1>0, <2>1, Advances
  <2>7. OthersWait(r) /\ Adds(r)
    BY <1>0, <2>4, <2>6 DEF OthersWait, Adds
  <2>8. Done(r, here)'
    <3>1. Key(here)' \in held'[r]
      BY <2>5, <2>6 DEF Key
    <3> QED
      BY <2>4, <2>5, <3>1 DEF Done
  <2>9. NewRowsHere(r)
    <3>1. \A f \in events : Owner(f.id) # r
      BY <2>6 DEF ApartInv, Committed
    <3> QED
      BY <2>here, <2>4, <2>5, <3>1 DEF NewRowsHere
  <2>10. OnItsWay(r)'
    BY <1>0, <2>here, <2>1, <2>7, <2>8, <2>9, SegmentBooked
  <2>11. IsFiniteSet(tx'[r].seats)
    <3>1. IsFiniteSet(tx[r].seats)
      BY DEF PromiseInv, FreeSeats
    <3> QED
      BY <2>4, <3>1, FS_AddElement
  <2>12. \A g : OfClass(g)' <=> OfClass(g)
    BY <1>0, SameKinds
  <2>13. Room(r)'
    <3>1. SeatsOf(seats, r) = {}
      BY <1>0 DEF SeatInv, SeatKinds, InTx, SeatsOf
    <3>2. First(r).service \in Services
      BY Inputs DEF TypeInv, Attendee
    <3>3. Cardinality(SeatsOf(seats, r)) < Capacity[First(r).service]
      <4>1. Capacity[First(r).service] \in Nat \ {0}
        BY <3>2, BookingAssumption
      <4>2. \A m \in Nat \ {0} : 0 < m
        OBVIOUS
      <4> QED
        BY <3>1, <4>1, <4>2, FS_EmptySet
    <3>4. \A p \in tx'[r].seats : OfClass(p.group) =>
            Cardinality(SeatsOf(seats, p.group)) < Capacity[First(p.group).service]
      BY <2>4, <2>5, <3>3 DEF PromiseInv, FreeSeats, Room
    <3> QED
      BY <1>0, <2>12, <3>4 DEF Room, First
  <2>14. Hosted(r)'
    <3>1. Hosted(r)
      BY DEF PromiseInv, Attended
    <3>2. \E p \in tx'[r].seats : p.group = r
      BY <2>4, <2>5
    <3>3. ASSUME ~OfClass(r), NEW i \in DOMAIN tx'[r].core
          PROVE  \E p \in SeatsSeen(r)' : p.group = tx'[r].core[i].group
      <4> DEFINE old == tx[r].core
                 all == old \o <<name>>
      <4>1. old \in Seq(Core) /\ tx'[r].core = all
        BY <2>2, <2>4
      <4>2. \/ i \in DOMAIN old /\ tx'[r].core[i] = old[i]
            \/ tx'[r].core[i] = name
        <5> HIDE DEF old
        <5> QED
          BY <3>3, <4>1, Extended
      <4> HIDE DEF old, all
      <4>3. CASE i \in DOMAIN old /\ tx'[r].core[i] = old[i]
        <5>1. \E p \in SeatsSeen(r) : p.group = old[i].group
          BY <3>1, <3>3, <4>3 DEF Hosted, old
        <5>2. SeatsSeen(r) \subseteq SeatsSeen(r)'
          BY <2>7 DEF SeatsSeen, Adds
        <5> QED
          BY <4>3, <5>1, <5>2
      <4>4. CASE tx'[r].core[i] = name
        BY <2>5, <3>2, <4>4 DEF SeatsSeen
      <4> QED
        BY <4>2, <4>3, <4>4
    <3> QED
      BY <2>12, <3>2, <3>3 DEF Hosted
  <2> QED
    BY <2>7, <2>10, <2>11, <2>13, <2>14, PromiseStatement DEF OwnPart
<1> QED
  BY <1>1, <1>2

-----------------------------------------------------------------------------
\* A commit shows in the tables of r alone.
PromiseCommits(r) == CommitsSeats(r) /\ cancel' = cancel

\* What the rows become
LEMMA CommittedRows ==
    ASSUME ClassesAlone, TypeInv, SlotInv, ApartInv, SeatInv,
           NEW r \in Requests, PromiseCommits(r)
    PROVE  /\ events' = {After(r, f) : f \in EventsSeen(r)}
           /\ \A f \in EventsSeen(r) :
                /\ After(r, f).id = f.id /\ After(r, f).slot = f.slot
                /\ OfClass(After(r, f).group) <=> OfClass(f.group)
                /\ OfClass(f.group) => After(r, f) = f
                /\ Key(f.slot) \notin held[r] => After(r, f) = f
           /\ \A f \in EventsSeen(r) : f \notin events => Key(f.slot) \in held[r]
<1>1. pc[r] \in InTx
  BY DEF PromiseCommits, CommitsSeats, Commits, InTx
<1>2. events' = {After(r, f) : f \in EventsSeen(r)}
  BY RegroupedRows DEF PromiseCommits, CommitsSeats, Commits
<1>3. ASSUME NEW f \in EventsSeen(r), Key(f.slot) \notin held[r]
      PROVE  After(r, f) = f
  <2>1. \A c \in Named(tx[r]) : c.id = f.id => Key(f.slot) \in held[r]
    BY DEF ApartInv, NamesBacked, Backed
  <2> QED
    BY <1>3, <2>1, RegroupedRows
<1>4. \A f \in EventsSeen(r) : f \notin events => Key(f.slot) \in held[r]
  BY DEF EventsSeen, SlotInv, OwnLocked
<1> QED
  BY <1>1, <1>2, <1>3, <1>4, RegroupedRows, AfterKinds
\* The others lose nothing by it: what it moves or adds it has locked.
LEMMA CommitDisturbsNobody ==
    ASSUME ClassesAlone, TypeInv, SlotInv, ApartInv, SeatInv,
           NEW r \in Requests, PromiseCommits(r), NEW s \in Requests \ {r}
    PROVE  Undisturbed(s)
<1>1. /\ input' = input /\ pc'[s] = pc[s] /\ plan'[s] = plan[s]
      /\ tx'[s] = tx[s] /\ held'[s] = held[s] /\ seats \subseteq seats' /\ pc[r] = "commit"
  BY DEF PromiseCommits, CommitsSeats, Commits, SeatsSeen, TypeInv, TypeOK
<1>2. \A x : x \in held[s] => x \notin held[r]
  BY DEF SlotInv, LocksApart
<1>3. ASSUME NEW e \in events, Key(e.slot) \in held[s]
      PROVE  e \in events' /\ (Attends(s, e.group) => Attends(s, e.group)')
  <2>1. e \in events'
    BY <1>2, <1>3, CommittedRows DEF EventsSeen
  <2>2. Attends(s, e.group) => Attends(s, e.group)'
    BY <1>1 DEF Attends, SeatsSeen, Client
  <2> QED
    BY <2>1, <2>2
<1>4. ASSUME NEW f \in events', Key(f.slot) \in held[s]
      PROVE  \E e \in events : e.slot = f.slot
  <2>1. PICK e \in EventsSeen(r) : f = After(r, e)
    BY CommittedRows
  <2>2. f.slot = e.slot
    BY <2>1, CommittedRows
  <2>3. e \in events
    BY <1>2, <1>4, <2>2, CommittedRows
  <2> QED
    BY <2>2, <2>3
<1>5. ASSUME NEW f \in events', KnownTo(s, Owner(f.id))
      PROVE  \E e \in events : e.id = f.id /\ e.slot = f.slot
  <2>1. PICK e \in EventsSeen(r) : f = After(r, e)
    BY CommittedRows
  <2>2. f.id = e.id /\ f.slot = e.slot
    BY <2>1, CommittedRows
  <2>3. e \notin tx[r].events
    BY <1>1, <1>5, <2>2 DEF ApartInv, OwnRows, KnownTo
  <2> QED
    BY <2>2, <2>3 DEF EventsSeen
<1> QED
  BY <1>1, <1>3, <1>4, <1>5 DEF Undisturbed

LEMMA PromiseCommitted ==
    ASSUME ClassesAlone, TypeInv, SlotInv, ApartInv, SeatInv, PromiseInv,
           NEW r \in Requests, PromiseCommits(r)
    PROVE  PromiseInv'
<1>0. /\ pc[r] = "commit" /\ pc[r] \in InTx /\ pc'[r] = "booked"
      /\ \A s \in Requests \ {r} : pc'[s] = pc[s] /\ tx'[s] = tx[s]
      /\ tx'[r] = EmptyTx /\ input' = input /\ cancel' = cancel
      /\ \A s \in Requests : pc[s] = "booked" => pc'[s] = "booked"
      /\ seats' = seats \union tx[r].seats
  BY DEF PromiseCommits, CommitsSeats, Commits, SeatsSeen, InTx, TypeInv, TypeOK
<1>1. \A g : OfClass(g)' <=> OfClass(g)
  BY <1>0, SameKinds
<1>2. CancelKinds'
  <2>1. \A k \in Cancels : cancel[k].at \in Running => cancel[k].seat.group \in Requests
    BY RunningCancel DEF TypeInv, Seat
  <2>2. ASSUME NEW k \in Cancels, cancel[k].at \in {"deleteSeats", "deleteGroup"},
               NEW f \in events'
        PROVE  f.group # cancel[k].seat.group
    <3> DEFINE g == cancel[k].seat.group
    <3>1. /\ pc[g] = "booked" /\ OfClass(g)
          /\ \A e \in events : e.group # g
      BY <2>2 DEF PromiseInv, CancelKinds, Running
    <3> HIDE DEF g
    <3>2. PICK e \in EventsSeen(r) : f = After(r, e)
      BY CommittedRows
    <3>3. ASSUME f.group = g
          PROVE  FALSE
      <4>1. f = e
        BY <3>1, <3>2, <3>3, CommittedRows
      <4>2. e \in tx[r].events /\ e.group = r
        BY <3>1, <3>3, <4>1 DEF EventsSeen, ApartInv, OwnRows
      <4> QED
        BY <1>0, <3>1, <3>3, <4>1, <4>2
    <3> QED
      BY <3>3 DEF g
  <2>3. ASSUME NEW k \in Cancels, cancel[k].at \in Running
        PROVE  /\ pc'[cancel[k].seat.group] = "booked"
               /\ cancel[k].at # "individual" => OfClass(cancel[k].seat.group)
    BY <1>0, <2>1, <2>3 DEF PromiseInv, CancelKinds
  <2> QED
    BY <1>0, <1>1, <2>2, <2>3 DEF CancelKinds
<1>3. ASSUME NEW s \in Requests
      PROVE  OwnPart(s)'
  <2>1. CASE s = r
    BY <1>0, <2>1, NothingOwned DEF InTx, Single
  <2>2. CASE s # r
    <3>1. tx'[s] = tx[s]
      BY <1>0, <2>2
    <3>2. IsFiniteSet(tx[s].seats) /\ Room(s) /\ Hosted(s) /\ OnItsWay(s)
      BY DEF PromiseInv, FreeSeats, Attended
    <3>3. OnItsWay(s)'
      BY <2>2, <3>2, WayKept, CommitDisturbsNobody
    <3>4. Hosted(s)'
      BY <1>0, <1>1, <3>1, <3>2 DEF Hosted, SeatsSeen
    <3>5. ASSUME NEW p \in tx[s].seats, OfClass(p.group)
          PROVE  SeatsOf(seats', p.group) = SeatsOf(seats, p.group)
      <4>1. p.group \in Requests
        BY DEF TypeInv, TypeOK, Tx, Seat
      <4>2. p.group \in Claims(s)
        BY <3>5, <4>1 DEF Claims
      <4>3. p.group \notin Claims(r)
        BY <2>2, <4>2 DEF SeatInv, ClaimsApart
      <4>4. \A q \in tx[r].seats : q.group # p.group
        BY <3>5, <4>1, <4>3 DEF Claims
      <4> QED
        BY <1>0, <4>4 DEF SeatsOf
    <3>6. Room(s)'
      BY <1>0, <1>1, <3>1, <3>2, <3>5 DEF Room, First
    <3> QED
      BY <3>1, <3>2, <3>3, <3>4, <3>6 DEF OwnPart
  <2> QED
    BY <2>1, <2>2
<1>4. \A s \in Requests : IsFiniteSet(tx[s].seats)' /\ Room(s)' /\ Hosted(s)' /\ OnItsWay(s)'
  BY <1>3 DEF OwnPart
<1>5. FreeSeats'
  <2>1. IsFiniteSet(seats')
    BY <1>0, FS_Union DEF PromiseInv, FreeSeats
  <2> QED
    BY <1>4, <2>1 DEF FreeSeats
<1>6. ASSUME NEW e \in events', ~OfClass(e.group)
      PROVE  \E p \in seats' : p.group = e.group
  <2>1. PICK f \in EventsSeen(r) : e = After(r, f)
    BY CommittedRows
  <2>2. ~OfClass(f.group)
    BY <1>6, <2>1, CommittedRows
  <2>3. \E p \in SeatsSeen(r) : p.group = f.group
    <3>1. CASE f \in events
      BY <2>2, <3>1 DEF PromiseInv, Attended, SeatsSeen
    <3>2. CASE f \in tx[r].events
      BY <3>2 DEF PromiseInv, Attended, Hosted, SeatsSeen, ApartInv, OwnRows
    <3> QED
      BY <3>1, <3>2 DEF EventsSeen
  <2>4. CASE After(r, f) = f
    BY <1>0, <2>1, <2>3, <2>4 DEF SeatsSeen
  <2>5. CASE After(r, f) # f
    <3> DEFINE core == tx[r].core
    <3>1. Moves(r, f) /\ core \in Seq(Core) /\ core # <<>>
      BY <2>5 DEF After, Moves, TypeInv, TypeOK, Tx
    <3>2. 1 \in DOMAIN core
      <4> HIDE DEF core
      <4> QED
        BY <3>1, EmptySeq, LenProperties
    <3>3. e.group = core[1].group
      BY <2>1, <3>1, Ids DEF After, Event, EventsSeen, TypeInv
    <3>4. ~OfClass(r)
      <4>1. PICK i \in DOMAIN core : core[i].id = f.id
        BY <3>1 DEF Moves
      <4>2. Alike(r, core[i]) /\ RightKind(f)
        BY DEF SeatInv, CoreKinds, EventKinds, EventsSeen
      <4> QED
        BY <2>2, <4>1, <4>2 DEF Alike, RightKind
    <3>5. \E p \in SeatsSeen(r) : p.group = core[1].group
      BY <3>2, <3>4 DEF PromiseInv, Attended, Hosted
    <3> QED
      BY <1>0, <3>3, <3>5 DEF SeatsSeen
  <2> QED
    BY <2>4, <2>5
<1>7. Attended'
  BY <1>1, <1>4, <1>6 DEF Attended
<1> QED
  BY <1>2, <1>4, <1>5, <1>7 DEF PromiseInv

LEMMA PromiseCommit ==
    ASSUME ClassesAlone, TypeInv, SlotInv, ApartInv, SeatInv, PromiseInv,
           NEW r \in Requests, Commit(r)
    PROVE  PromiseInv'
<1> USE DEF tables, planning
<1>0. pc[r] = "commit" /\ UNCHANGED <<plan, input, cancel>>
  BY DEF Commit
<1>1. CASE Reject(r) /\ UNCHANGED tables
  <2>1. "rejected" \in Answered
    BY DEF Answered
  <2> QED
    BY <1>0, <1>1, <2>1, PromiseEnds DEF Reject
<1>2. CASE ~(Reject(r) /\ UNCHANGED tables)
  <2>1. PromiseCommits(r)
    BY <1>0, <1>2 DEF Commit, Commits, CommitsSeats, PromiseCommits, Goto, EndTx
  <2> QED
    BY <2>1, PromiseCommitted
<1> QED
  BY <1>1, <1>2
-----------------------------------------------------------------------------
\* What a cancellation does to the tables: an event goes only as a class, and a
\* seat only where no event is.
Cancelling ==
    /\ pc' = pc /\ plan' = plan /\ tx' = tx /\ held' = held /\ input' = input
    /\ events' \subseteq events
    /\ \A e \in events : e \in events' \/ OfClass(e.group)
    /\ \A p \in seats :
         \/ \E q \in seats' : q.group = p.group /\ q.client = p.client
         \/ OfClass(p.group) /\ \A e \in events : e.group # p.group
    /\ IsFiniteSet(seats')
    /\ \A g : Cardinality(SeatsOf(seats', g)) <= Cardinality(SeatsOf(seats, g))

LEMMA CancelTables ==
    ASSUME TypeInv, SeatInv, PromiseInv, NEW k \in Cancels, CancelStep(k)
    PROVE  Cancelling
<1> USE DEF tables, planning
<1>1. UNCHANGED <<pc, plan, tx, held, input>> /\ events' \subseteq events
  BY DEF CancelStep, CancelRead, CancelIndividual, CancelSeat, DeleteEvents,
         DeleteSeats, DeleteGroup
<1>2. \A e \in events : e \in events' \/ OfClass(e.group)
  <2>1. CASE DeleteEvents(k)
    BY <2>1 DEF DeleteEvents, PromiseInv, CancelKinds, Running
  <2>2. CASE events' = events
    BY <2>2
  <2> QED
    BY <2>1, <2>2
    DEF CancelStep, CancelRead, CancelIndividual, CancelSeat, DeleteSeats, DeleteGroup
<1>3. IsFiniteSet(seats)
  BY DEF PromiseInv, FreeSeats
<1>4. CASE seats' = seats
  <2>1. \A g : IsFiniteSet(SeatsOf(seats, g))
    BY <1>3, FewerSeats
  <2>2. \A g : Cardinality(SeatsOf(seats, g)) <= Cardinality(SeatsOf(seats, g))
    <3>1. \A m \in Nat : m <= m
      OBVIOUS
    <3> QED
      BY <2>1, <3>1, FS_CardinalityType
  <2> QED
    BY <1>1, <1>2, <1>3, <1>4, <2>2 DEF Cancelling
<1>5. ASSUME NEW c, seats' = SeatCancelled(c)
      PROVE  Cancelling
  <2>1. \A p \in seats : \E q \in seats' : q.group = p.group /\ q.client = p.client
    BY <1>5, SeatCancelledRows DEF TypeInv
  <2>2. /\ IsFiniteSet(seats')
        /\ \A g : Cardinality(SeatsOf(seats', g)) <= Cardinality(SeatsOf(seats, g))
    BY <1>3, <1>5, CancelledSeats DEF TypeInv
  <2> QED
    BY <1>1, <1>2, <2>1, <2>2 DEF Cancelling
<1>6. CASE DeleteSeats(k)
  <2>1. /\ seats' = seats \ SeatsOf(seats, cancel[k].seat.group)
        /\ \A e \in events : e.group # cancel[k].seat.group
    BY <1>6 DEF DeleteSeats, PromiseInv, CancelKinds, Running
  <2>2. seats' \subseteq seats
    BY <2>1
  <2>3. /\ IsFiniteSet(seats')
        /\ \A g : Cardinality(SeatsOf(seats', g)) <= Cardinality(SeatsOf(seats, g))
    BY <1>3, <2>2, FewerSeats
  <2>4. OfClass(cancel[k].seat.group)
    BY <1>6 DEF DeleteSeats, PromiseInv, CancelKinds, Running
  <2>5. \A p \in seats :
          p \in seats' \/ (OfClass(p.group) /\ \A e \in events : e.group # p.group)
    BY <2>1, <2>4 DEF SeatsOf
  <2> QED
    BY <1>1, <1>2, <2>3, <2>5 DEF Cancelling
<1> QED
  BY <1>4, <1>5, <1>6
  DEF CancelStep, CancelRead, CancelIndividual, CancelSeat, DeleteEvents, DeleteGroup

LEMMA CancelDisturbsNobody ==
    ASSUME TypeInv, SlotInv, ApartInv, SeatInv, Cancelling, NEW s \in Requests
    PROVE  Undisturbed(s)
<1>1. /\ input' = input /\ pc'[s] = pc[s] /\ plan'[s] = plan[s]
      /\ tx'[s] = tx[s] /\ held'[s] = held[s] /\ events' \subseteq events
  BY DEF Cancelling
<1>2. ASSUME NEW e \in events, e \in events'
      PROVE  Attends(s, e.group) => Attends(s, e.group)'
  <2> SUFFICES ASSUME NEW p \in SeatsSeen(s), p.group = e.group, p.client = Client(s)
               PROVE  Attends(s, e.group)'
    BY DEF Attends
  <2>1. CASE p \in tx[s].seats
    BY <1>1, <2>1 DEF Attends, SeatsSeen, Client
  <2>2. CASE p \in seats
    <3>1. PICK q \in seats' : q.group = p.group /\ q.client = p.client
      BY <2>2 DEF Cancelling
    <3> QED
      BY <1>1, <3>1 DEF Attends, SeatsSeen, Client
  <2> QED
    BY <2>1, <2>2 DEF SeatsSeen
<1>3. ASSUME NEW e \in events, e \notin events'
      PROVE  IsClass(e.slot.service) /\ \A f \in EventsSeen(s)' : f.slot # e.slot
  <2>1. IsClass(e.slot.service)
    BY <1>3 DEF Cancelling, SeatInv, EventKinds, RightKind
  <2>2. ASSUME NEW f \in EventsSeen(s)', f.slot = e.slot
        PROVE  FALSE
    <3>1. CASE f \in events'
      BY <1>1, <1>3, <2>2, <3>1 DEF SlotInv, SlotOnce
    <3>2. CASE f \in tx[s].events
      BY <2>2, <3>2 DEF SlotInv, OwnApart
    <3> QED
      BY <1>1, <3>1, <3>2 DEF EventsSeen
  <2> QED
    BY <2>1, <2>2
<1>4. \A e \in events :
        \/ e \in events' /\ (Attends(s, e.group) => Attends(s, e.group)')
        \/ IsClass(e.slot.service) /\ \A f \in EventsSeen(s)' : f.slot # e.slot
  BY <1>2, <1>3
<1> QED
  BY <1>1, <1>4 DEF Undisturbed

LEMMA CancelKindsKept ==
    ASSUME TypeInv, SeatInv, PromiseInv, NEW k \in Cancels, CancelStep(k)
    PROVE  CancelKinds'
<1> USE DEF tables, planning
<1>1. pc' = pc /\ events' \subseteq events
  BY CancelTables DEF Cancelling
<1>2. \A g : OfClass(g)' <=> OfClass(g)
  BY CancelTables, SameKinds DEF Cancelling
<1>3. cancel \in [Cancels -> CancelState]
  BY DEF TypeInv, TypeOK
<1>4. \A j \in Cancels \ {k} : cancel'[j] = cancel[j]
  BY <1>3
  DEF CancelStep, CancelRead, CancelIndividual, CancelSeat, DeleteEvents,
      DeleteSeats, DeleteGroup, CancelGoto
<1>5. ASSUME NEW j \in Cancels \ {k}, cancel'[j].at \in Running
      PROVE  /\ pc'[cancel'[j].seat.group] = "booked"
             /\ cancel'[j].at # "individual" => OfClass(cancel'[j].seat.group)
             /\ cancel'[j].at \in {"deleteSeats", "deleteGroup"} =>
                  \A e \in events' : e.group # cancel'[j].seat.group
  BY <1>1, <1>4, <1>5 DEF PromiseInv, CancelKinds
<1>6. ASSUME cancel'[k].at \in Running
      PROVE  /\ pc'[cancel'[k].seat.group] = "booked"
             /\ cancel'[k].at # "individual" => OfClass(cancel'[k].seat.group)
             /\ cancel'[k].at \in {"deleteSeats", "deleteGroup"} =>
                  \A e \in events' : e.group # cancel'[k].seat.group
  <2>1. CASE CancelRead(k)
    <3>1. PICK e \in events, p \in seats :
            /\ p.group = e.group
            /\ \/ CancelGoto(k, "done")
               \/ cancel' = [cancel EXCEPT ![k] =
                    [at |-> IF IsClass(e.slot.service) THEN "seat" ELSE "individual",
                     seat |-> p, known |-> SeatsOf(seats, e.group)]]
      BY <2>1 DEF CancelRead
    <3>2. ~CancelGoto(k, "done")
      <4>1. ASSUME CancelGoto(k, "done")
            PROVE  cancel'[k].at = "done"
        <5>1. cancel'[k] = [cancel[k] EXCEPT !.at = "done"]
          BY <1>3, <4>1 DEF CancelGoto
        <5>2. cancel[k] \in CancelState
          BY <1>3
        <5>3. "at" \in DOMAIN cancel[k]
          BY <5>2 DEF CancelState
        <5> QED
          BY <5>1, <5>3
      <4> QED
        BY <1>6, <4>1 DEF Running
    <3>3. /\ cancel'[k].at = IF IsClass(e.slot.service) THEN "seat" ELSE "individual"
          /\ cancel'[k].seat = p
      BY <1>3, <3>1, <3>2
    <3>4. pc[p.group] = "booked" /\ (IsClass(e.slot.service) <=> OfClass(e.group))
      BY DEF SeatInv, SeatKinds, EventKinds, RightKind
    <3> QED
      BY <1>1, <3>1, <3>3, <3>4
  <2>2. ASSUME NEW label, cancel[k].at \in Running, CancelGoto(k, label)
        PROVE  /\ cancel'[k].at = label /\ cancel'[k].seat = cancel[k].seat
    <3>1. cancel[k] \in [at : Running \union {"done"}, seat : Seat, known : SUBSET Seat]
      BY <1>3, <2>2 DEF CancelState, Running
    <3>2. cancel'[k] = [cancel[k] EXCEPT !.at = label]
      BY <1>3, <2>2 DEF CancelGoto
    <3> QED
      BY <3>1, <3>2
  <2>3. ASSUME cancel[k].at \in Running
        PROVE  /\ pc[cancel[k].seat.group] = "booked"
               /\ cancel[k].at # "individual" => OfClass(cancel[k].seat.group)
               /\ cancel[k].at \in {"deleteSeats", "deleteGroup"} =>
                    \A e \in events : e.group # cancel[k].seat.group
    BY <2>3 DEF PromiseInv, CancelKinds
  <2>4. CASE CancelIndividual(k) \/ DeleteGroup(k)
    BY <1>6, <2>2, <2>4 DEF CancelIndividual, DeleteGroup, Running
  <2>5. CASE CancelSeat(k)
    <3>1. cancel[k].at = "seat" /\ cancel[k].at \in Running
      BY <2>5 DEF CancelSeat, Running
    <3>2. cancel'[k].at \in {"deleteEvents", "done"} /\ cancel'[k].seat = cancel[k].seat
      BY <2>2, <2>5, <3>1 DEF CancelSeat
    <3> QED
      BY <1>1, <2>3, <3>1, <3>2
  <2>6. CASE DeleteEvents(k)
    <3>1. cancel[k].at = "deleteEvents" /\ cancel[k].at \in Running
      BY <2>6 DEF DeleteEvents, Running
    <3>2. cancel'[k].at = "deleteSeats" /\ cancel'[k].seat = cancel[k].seat
      BY <2>2, <2>6, <3>1 DEF DeleteEvents
    <3>3. \A e \in events' : e.group # cancel[k].seat.group
      BY <2>6 DEF DeleteEvents
    <3> QED
      BY <1>1, <2>3, <3>1, <3>2, <3>3
  <2>7. CASE DeleteSeats(k)
    <3>1. cancel[k].at = "deleteSeats" /\ cancel[k].at \in Running
      BY <2>7 DEF DeleteSeats, Running
    <3>2. cancel'[k].at = "deleteGroup" /\ cancel'[k].seat = cancel[k].seat
      BY <2>2, <2>7, <3>1 DEF DeleteSeats
    <3> QED
      BY <1>1, <2>3, <3>1, <3>2
  <2> QED
    BY <2>1, <2>4, <2>5, <2>6, <2>7 DEF CancelStep
<1>7. \A j \in Cancels : cancel'[j].at \in Running =>
        /\ pc'[cancel'[j].seat.group] = "booked"
        /\ cancel'[j].at # "individual" => OfClass(cancel'[j].seat.group)
        /\ cancel'[j].at \in {"deleteSeats", "deleteGroup"} =>
             \A e \in events' : e.group # cancel'[j].seat.group
  BY <1>5, <1>6
<1> HIDE DEF OfClass
<1> QED
  BY <1>2, <1>7 DEF CancelKinds

LEMMA PromiseCancellation ==
    ASSUME TypeInv, SlotInv, ApartInv, SeatInv, PromiseInv, NEW k \in Cancels, CancelStep(k)
    PROVE  PromiseInv'
<1>0. /\ Cancelling /\ tx' = tx /\ input' = input /\ events' \subseteq events
      /\ IsFiniteSet(seats) /\ IsFiniteSet(seats')
  BY CancelTables DEF Cancelling, PromiseInv, FreeSeats
<1>1. \A g : OfClass(g)' <=> OfClass(g)
  BY <1>0, SameKinds
<1>2. \A s \in Requests : OnItsWay(s)'
  BY <1>0, WayKept, CancelDisturbsNobody DEF PromiseInv
<1>3. ASSUME NEW e \in events', ~OfClass(e.group)
      PROVE  \E p \in seats' : p.group = e.group
  <2>1. PICK p \in seats : p.group = e.group
    BY <1>0, <1>3 DEF PromiseInv, Attended
  <2> QED
    BY <1>0, <2>1 DEF Cancelling
<1>4. ASSUME NEW s \in Requests
      PROVE  IsFiniteSet(tx'[s].seats) /\ Room(s)'
  <2>1. IsFiniteSet(tx[s].seats) /\ Room(s)
    BY DEF PromiseInv, FreeSeats
  <2>2. ASSUME NEW p \in tx[s].seats, OfClass(p.group)
        PROVE  Cardinality(SeatsOf(seats', p.group)) < Capacity[First(p.group).service]
    <3> DEFINE g == p.group
               old == Cardinality(SeatsOf(seats, g))
               new == Cardinality(SeatsOf(seats', g))
               all == Capacity[First(g).service]
    <3>1. old < all
      BY <2>1, <2>2 DEF Room
    <3>2. new <= old
      BY <1>0 DEF Cancelling
    <3>3. IsFiniteSet(SeatsOf(seats, g)) /\ IsFiniteSet(SeatsOf(seats', g))
      BY <1>0, FewerSeats
    <3>4. old \in Nat /\ new \in Nat
      BY <3>3, FS_CardinalityType
    <3>5. all \in Nat
      <4>1. g \in Requests
        BY DEF TypeInv, TypeOK, Tx, Seat
      <4>2. First(g).service \in Services
        BY <4>1, Inputs DEF TypeInv, Attendee
      <4> QED
        BY <4>2, BookingAssumption
    <3> HIDE DEF old, new, all
    <3>6. new < all
      BY <3>1, <3>2, <3>4, <3>5
    <3> QED
      BY <3>6 DEF new, all
  <2> QED
    BY <1>0, <1>1, <2>1, <2>2 DEF Room, First
<1>5. ASSUME NEW s \in Requests
      PROVE  Hosted(s)'
  <2>1. Hosted(s)
    BY DEF PromiseInv, Attended
  <2>2. ASSUME ~OfClass(s), NEW i \in DOMAIN tx[s].core
        PROVE  \E p \in SeatsSeen(s)' : p.group = tx[s].core[i].group
    <3>1. PICK p \in SeatsSeen(s) : p.group = tx[s].core[i].group
      BY <2>1, <2>2 DEF Hosted
    <3>2. CASE p \in tx[s].seats
      BY <1>0, <3>1, <3>2 DEF SeatsSeen
    <3>3. CASE p \in seats
      <4>1. ~OfClass(p.group)
        BY <2>2, <3>1 DEF SeatInv, CoreKinds, Alike
      <4>2. PICK q \in seats' : q.group = p.group
        BY <1>0, <3>3, <4>1 DEF Cancelling
      <4> QED
        BY <3>1, <4>2 DEF SeatsSeen
    <3> QED
      BY <3>1, <3>2, <3>3 DEF SeatsSeen
  <2> QED
    BY <1>0, <1>1, <2>1, <2>2 DEF Hosted
<1> QED
  BY <1>0, <1>1, <1>2, <1>3, <1>4, <1>5, CancelKindsKept
  DEF PromiseInv, FreeSeats, Attended
LEMMA PromiseInit == Init => PromiseInv
<1> SUFFICES ASSUME Init PROVE PromiseInv
  OBVIOUS
<1>1. IsFiniteSet({})
  BY FS_EmptySet
<1>2. \A r \in Requests : tx[r] = EmptyTx /\ pc[r] = "idle"
  BY DEF Init
<1>3. ASSUME NEW r \in Requests
      PROVE  IsFiniteSet(tx[r].seats) /\ Room(r) /\ Hosted(r) /\ OnItsWay(r)
  <2>1. tx[r].events = {} /\ tx[r].seats = {} /\ tx[r].core = <<>>
    BY <1>2, EmptyTxFacts
  <2>2. DOMAIN tx[r].core = {}
    BY <2>1
  <2>3. pc[r] \notin InTx /\ pc[r] \notin Single /\ pc[r] # "join" /\ pc[r] # "commit"
    BY <1>2 DEF InTx, Single
  <2> QED
    BY <1>1, <2>1, <2>2, <2>3 DEF Room, Hosted, OnItsWay
<1> QED
  BY <1>1, <1>3 DEF Init, PromiseInv, CancelKinds, Running, FreeSeats, Attended

LEMMA PromiseStep ==
    ASSUME ClassesAlone
    PROVE  TypeInv /\ SlotInv /\ ApartInv /\ SeatInv /\ PromiseInv /\ [Next]_vars => PromiseInv'
<1> SUFFICES ASSUME TypeInv, SlotInv, ApartInv, SeatInv, PromiseInv, [Next]_vars
             PROVE  PromiseInv'
  OBVIOUS
<1>1. ASSUME NEW r \in Requests, Abort(r) PROVE PromiseInv'
  <2>1. pc[r] # "booked" /\ "aborted" \in Answered
    BY <1>1 DEF Abort, InTx, Answered
  <2> QED
    BY <1>1, <2>1, PromiseEnds DEF Abort, tables, planning
<1>2. ASSUME NEW r \in Requests, RequestStep(r) PROVE PromiseInv'
  BY <1>2, PromisePlanning, PromiseLock, PromiseFind, PromiseJoin, PromiseCreate,
     PromiseCommit DEF RequestStep
<1>3. ASSUME NEW k \in Cancels, CancelStep(k) PROVE PromiseInv'
  BY <1>3, PromiseCancellation
<1>4. CASE HoldExpires \/ UNCHANGED vars
  <2>1. UNCHANGED <<events, seats, pc, input, plan, tx, held, cancel>>
    BY <1>4 DEF HoldExpires, vars, tables
  <2>2. \A s \in Requests : OnItsWay(s)'
    <3>1. \A s \in Requests : \A g : Attends(s, g) => Attends(s, g)'
      BY <2>1 DEF Attends, SeatsSeen, Client
    <3>2. \A s \in Requests : Undisturbed(s)
      BY <2>1, <3>1 DEF Undisturbed
    <3> QED
      BY <3>2, WayKept DEF PromiseInv
  <2>3. \A g : OfClass(g)' <=> OfClass(g)
    BY <2>1, SameKinds
  <2>4. CancelKinds' /\ FreeSeats' /\ Attended'
    BY <2>1, <2>3
    DEF PromiseInv, CancelKinds, FreeSeats, Attended, Room, Hosted, SeatsSeen, First
  <2> QED
    BY <2>2, <2>4 DEF PromiseInv
<1> QED
  BY <1>1, <1>2, <1>3, <1>4 DEF Next

-----------------------------------------------------------------------------
\* Who takes part in a slot, with the tables as parameters
Part(E, S, s) == {p.client : p \in {q \in S : \E e \in E : e.slot = s /\ q.group = e.group}}

Slots(E) == {e.slot : e \in E}

\* The event at a slot names the group of those who take part.
LEMMA PartOfGroup ==
    ASSUME NEW E, NEW S, NEW e \in E, \A f \in E : f.slot = e.slot => f = e
    PROVE  Part(E, S, e.slot) = {p.client : p \in SeatsOf(S, e.group)}
BY DEF Part, SeatsOf

\* The client of a commit and the slots that it asked for
LEMMA CommitPlan ==
    ASSUME TypeInv, PromiseInv, NEW r \in Requests, pc[r] = "commit"
    PROVE  \E p \in Chains(input[r]) :
             LET P == {p[i] : i \in DOMAIN p}
             IN  /\ \A s \in P : Done(r, s)
                 /\ \A e \in tx[r].events : e.slot \in P
                 /\ \A q \in tx[r].seats, e \in events :
                      OfClass(q.group) /\ Owner(e.id) = q.group => e.slot \in P
<1>1. PICK p \in Chains(input[r]) : OnChain(r, p)
  BY DEF PromiseInv, OnItsWay, InTx
<1>2. Len(plan[r]) = 0
  BY DEF PromiseInv, OnItsWay
<1>3. Len(p) \in Nat /\ DOMAIN p = 1..Len(p)
  BY ChainShape, LenProperties DEF TypeInv
<1>4. Len(p) - Len(plan[r]) = Len(p)
  BY <1>2, <1>3
<1>5. {p[i] : i \in 1..(Len(p) - Len(plan[r]))} = {p[i] : i \in DOMAIN p}
  BY <1>3, <1>4
<1> QED
  BY <1>1, <1>5 DEF OnChain

\* A booking in terms of the tables
Takes(r, P) ==
    /\ P \in Wished(input[r])
    /\ \A s \in P : \/ s \notin Slots(events)
                    \/ Client(r) \in Part(events, seats, s)
                    \/ /\ IsClass(s.service)
                       /\ Cardinality(Part(events, seats, s)) < Capacity[s.service]

Shows(r, P, M) ==
    /\ M \subseteq {s \in P : s \notin Slots(events) /\ IsClass(s.service)}
    /\ Slots(events') = Slots(events) \union (P \ M)
    /\ \A s \in Slots(events') :
         Part(events', seats', s) =
           (IF s \notin Slots(events) THEN {} ELSE Part(events, seats, s))
             \union (IF s \in P THEN {Client(r)} ELSE {})

LEMMA CommitAdmits ==
    ASSUME TypeInv, SlotInv, ApartInv, SeatInv, PromiseInv,
           NEW r \in Requests, pc[r] = "commit", NEW s, Done(r, s)
    PROVE  \/ s \notin Slots(events)
           \/ Client(r) \in Part(events, seats, s)
           \/ /\ IsClass(s.service)
              /\ Cardinality(Part(events, seats, s)) < Capacity[s.service]
<1>1. CASE \E e \in tx[r].events : e.slot = s
  BY <1>1 DEF SlotInv, OwnApart, Slots
<1>2. CASE Gone(r, s)
  BY <1>2 DEF Gone, EventsSeen, Slots
<1>3. ASSUME NEW e \in events, e.slot = s, Attends(r, e.group)
      PROVE  \/ Client(r) \in Part(events, seats, s)
             \/ /\ IsClass(s.service)
                /\ Cardinality(Part(events, seats, s)) < Capacity[s.service]
  <2>1. PICK p \in SeatsSeen(r) : p.group = e.group /\ p.client = Client(r)
    BY <1>3 DEF Attends
  <2>2. CASE p \in seats
    BY <1>3, <2>1, <2>2 DEF Part
  <2>3. CASE p \in tx[r].seats
    <3>1. OfClass(e.group)
      <4>1. RightSeat(p) /\ p.id = r /\ pc[e.group] = "booked"
        BY <2>3 DEF SeatInv, SeatKinds, ApartInv, Committed
      <4> QED
        BY <2>1, <4>1 DEF RightSeat
    <3>2. e.slot.service = First(e.group).service /\ IsClass(e.slot.service)
      BY <3>1 DEF SeatInv, EventKinds, RightKind
    <3> DEFINE S == SeatsOf(seats, e.group)
               C == {q.client : q \in S}
    <3>3. Cardinality(S) < Capacity[s.service]
      BY <1>3, <2>1, <2>3, <3>1, <3>2 DEF PromiseInv, FreeSeats, Room
    <3>4. IsFiniteSet(S)
      BY FewerSeats DEF PromiseInv, FreeSeats
    <3>5. IsFiniteSet(C) /\ Cardinality(C) <= Cardinality(S)
      <4> HIDE DEF S
      <4> QED
        BY <3>4, ClientsOfSeats
    <3>6. Cardinality(C) \in Nat /\ Cardinality(S) \in Nat
      BY <3>4, <3>5, FS_CardinalityType
    <3>7. Capacity[s.service] \in Nat
      BY <1>3, Ids, BookingAssumption DEF Event, Slot, TypeInv
    <3>8. Part(events, seats, s) = C
      <4>1. \A f \in events : f.slot = e.slot => f = e
        BY <1>3 DEF SlotInv, SlotOnce
      <4>2. Part(events, seats, e.slot) = {q.client : q \in SeatsOf(seats, e.group)}
        BY <1>3, <4>1, PartOfGroup
      <4> QED
        BY <1>3, <4>2
    <3> HIDE DEF S, C
    <3>9. Cardinality(C) < Capacity[s.service]
      BY <3>3, <3>5, <3>6, <3>7
    <3> QED
      BY <1>3, <3>2, <3>8, <3>9
  <2> QED
    BY <2>2, <2>3 DEF SeatsSeen
<1> QED
  BY <1>1, <1>2, <1>3 DEF Done

\* What a commit does to one slot
LEMMA CommitSlot ==
    ASSUME ClassesAlone, TypeInv, SlotInv, ApartInv, SeatInv, PromiseInv,
           TypeInv', SlotInv', SeatInv', PromiseInv',
           NEW r \in Requests, PromiseCommits(r), NEW f \in EventsSeen(r),
           NEW P, \A s \in P : Done(r, s), \A e \in tx[r].events : e.slot \in P,
           \A q \in tx[r].seats, e \in events :
             OfClass(q.group) /\ Owner(e.id) = q.group => e.slot \in P
    PROVE  Part(events', seats', f.slot) =
             (IF f.slot \notin Slots(events) THEN {} ELSE Part(events, seats, f.slot))
               \union (IF f.slot \in P THEN {Client(r)} ELSE {})
<1>e. PICK e : e = After(r, f)
  OBVIOUS
<1>s. PICK s : s = f.slot
  OBVIOUS
<1>c. PICK c : c = Client(Owner(f.id))
  OBVIOUS
<1>0. /\ pc[r] = "commit" /\ pc[r] \in InTx /\ input' = input
      /\ seats' = seats \union tx[r].seats
  BY DEF PromiseCommits, CommitsSeats, Commits, SeatsSeen, InTx
<1>1. /\ e \in events' /\ e.id = f.id /\ e.slot = s
      /\ (OfClass(e.group) <=> OfClass(f.group))
      /\ OfClass(f.group) => e = f
  BY <1>e, <1>s, CommittedRows
<1>2. RightKind(f) /\ RightKind(e)
  BY <1>0, <1>e, AfterKinds DEF SeatInv, EventKinds, EventsSeen
<1>3. \A d \in events' : d.slot = e.slot => d = e
  BY <1>1 DEF SlotInv, SlotOnce
<1>4. \A d \in events : d.slot = s => d = f
  BY <1>s DEF SlotInv, SlotOnce, OwnApart, EventsSeen
<1>5. f \notin events => s \notin Slots(events) /\ f \in tx[r].events /\ s \in P
  BY <1>4, <1>s DEF Slots, EventsSeen
<1>6. f \in events => s \in Slots(events) /\ f \notin tx[r].events
  BY <1>s DEF Slots, SlotInv, OwnApart
<1>7. s \in P /\ f \in events => Attends(r, f.group)
  <2>1. ASSUME s \in P, f \in events
        PROVE  Attends(r, f.group)
    <3>1. ~(\E d \in tx[r].events : d.slot = s) /\ ~Gone(r, s)
      BY <1>s, <2>1 DEF SlotInv, OwnApart, Gone, EventsSeen
    <3>2. PICK d \in events : d.slot = s /\ Attends(r, d.group)
      BY <2>1, <3>1 DEF Done
    <3>3. d = f
      BY <1>4, <3>2
    <3> QED
      BY <3>2, <3>3
  <2> QED
    BY <2>1
<1>8. f \in tx[r].events => f.group = r /\ Owner(f.id) = r
  BY DEF ApartInv, OwnRows
<1>9. \A p \in tx[r].seats : p.id = r /\ p.client = Client(r)
  BY DEF SeatInv, SeatKinds, RightSeat
<1>10. CASE OfClass(f.group)
  <2>1. e = f
    BY <1>1, <1>10
  <2>2. Part(events', seats', s) = {p.client : p \in SeatsOf(seats', f.group)}
    BY <1>1, <1>3, <2>1, PartOfGroup
  <2>3. CASE f \in events
    <3>1. Part(events, seats, s) = {p.client : p \in SeatsOf(seats, f.group)}
      BY <1>4, <1>s, <2>3, PartOfGroup
    <3>2. ASSUME NEW q \in tx[r].seats, q.group = f.group
          PROVE  s \in P
      <4>1. Owner(f.id) = f.group
        BY <1>2, <1>10 DEF RightKind, Owner
      <4> QED
        BY <1>10, <1>s, <2>3, <3>2, <4>1
    <3>3. s \in P => \E p \in SeatsOf(seats', f.group) : p.client = Client(r)
      BY <1>0, <1>7, <2>3 DEF Attends, SeatsSeen, SeatsOf
    <3>4. \A x : x \in {p.client : p \in SeatsOf(seats', f.group)} <=>
                 \/ x \in {p.client : p \in SeatsOf(seats, f.group)}
                 \/ s \in P /\ x = Client(r)
      BY <1>0, <1>9, <3>2, <3>3 DEF SeatsOf
    <3> HIDE DEF SeatsOf
    <3> QED
      BY <1>6, <1>s, <2>2, <2>3, <3>1, <3>4
  <2>4. CASE f \notin events
    <3>1. f.group = r /\ s \notin Slots(events) /\ s \in P
      BY <1>5, <1>8, <2>4
    <3>2. \A p \in seats : p.group # r
      BY <1>0 DEF SeatInv, SeatKinds
    <3>3. \E p \in tx[r].seats : p.group = r
      BY <1>5, <2>4 DEF PromiseInv, Attended, Hosted
    <3>4. {p.client : p \in SeatsOf(seats', f.group)} = {Client(r)}
      BY <1>0, <1>9, <3>1, <3>2, <3>3 DEF SeatsOf
    <3> QED
      BY <1>s, <2>2, <3>1, <3>4
  <2> QED
    BY <2>3, <2>4
<1>11. CASE ~OfClass(f.group)
  <2>1. Part(events', seats', s) = {c}
    <3>1. Client(e.group) = c /\ ~OfClass(e.group)
      BY <1>1, <1>2, <1>11, <1>c DEF RightKind
    <3>2. ASSUME NEW p \in seats', p.group = e.group
          PROVE  p.client = c
      <4>1. RightSeat(p)'
        BY <3>2 DEF SeatInv, SeatKinds
      <4>2. RightSeat(p)
        BY <1>0, <4>1, SameKinds
      <4> QED
        BY <3>1, <3>2, <4>2 DEF RightSeat
    <3>3. \E p \in seats' : p.group = e.group
      <4>1. ~OfClass(e.group)'
        BY <1>0, <3>1, SameKinds
      <4> QED
        BY <1>1, <4>1 DEF PromiseInv, Attended
    <3>4. Part(events', seats', e.slot) = {c}
      BY <1>1, <1>3, <3>2, <3>3 DEF Part
    <3> QED
      BY <1>1, <3>4
  <2>2. CASE f \in events
    <3>1. ASSUME NEW p \in SeatsSeen(r), p.group = f.group
          PROVE  p.client = c
      BY <1>2, <1>11, <1>c, <3>1, SeatsOutsideClasses DEF RightKind
    <3>2. \E p \in seats : p.group = f.group
      BY <1>11, <2>2 DEF PromiseInv, Attended
    <3>3. \A p \in seats : p \in SeatsSeen(r)
      BY DEF SeatsSeen
    <3>4. Part(events, seats, s) = {c}
      <4>1. \A p \in seats : p.group = f.group => p.client = c
        BY <3>1, <3>3
      <4>2. Part(events, seats, f.slot) = {c}
        BY <1>4, <1>s, <2>2, <3>2, <4>1 DEF Part
      <4> QED
        BY <1>s, <4>2
    <3>5. s \in P => Client(r) = c
      BY <1>7, <2>2, <3>1 DEF Attends
    <3> QED
      BY <1>6, <1>s, <2>1, <2>2, <3>4, <3>5
  <2>3. CASE f \notin events
    BY <1>5, <1>8, <1>c, <1>s, <2>1, <2>3
  <2> QED
    BY <2>2, <2>3
<1> QED
  BY <1>10, <1>11

LEMMA CommitShows ==
    ASSUME ClassesAlone, TypeInv, SlotInv, ApartInv, SeatInv, PromiseInv,
           TypeInv', SlotInv', SeatInv', PromiseInv',
           NEW r \in Requests, PromiseCommits(r)
    PROVE  \E P : Takes(r, P) /\ \E M : Shows(r, P, M)
<1>1. pc[r] = "commit"
  BY DEF PromiseCommits, CommitsSeats, Commits
<1>2. PICK p \in Chains(input[r]) :
        LET P == {p[i] : i \in DOMAIN p}
        IN  /\ \A s \in P : Done(r, s)
            /\ \A e \in tx[r].events : e.slot \in P
            /\ \A q \in tx[r].seats, e \in events :
                 OfClass(q.group) /\ Owner(e.id) = q.group => e.slot \in P
  BY <1>1, CommitPlan
<1>P. PICK P : P = {p[i] : i \in DOMAIN p}
  OBVIOUS
<1>M. PICK M : M = {s \in P : Gone(r, s)}
  OBVIOUS
<1>3. /\ \A s \in P : Done(r, s)
      /\ \A e \in tx[r].events : e.slot \in P
      /\ \A q \in tx[r].seats, e \in events :
           OfClass(q.group) /\ Owner(e.id) = q.group => e.slot \in P
  BY <1>2, <1>P
<1>4. P \in Wished(input[r])
  BY <1>P DEF Wished
<1>5. Takes(r, P)
  BY <1>1, <1>3, <1>4, CommitAdmits DEF Takes
<1>6. M \subseteq {s \in P : s \notin Slots(events) /\ IsClass(s.service)}
  BY <1>M DEF Gone, EventsSeen, Slots
<1>7. Slots(events') = {f.slot : f \in EventsSeen(r)}
  BY CommittedRows DEF Slots
<1>8. {f.slot : f \in EventsSeen(r)} = Slots(events) \union (P \ M)
  <2>1. ASSUME NEW f \in EventsSeen(r)
        PROVE  f.slot \in Slots(events) \/ f.slot \in P \ M
    BY <1>3, <1>M DEF EventsSeen, Slots, Gone
  <2>2. ASSUME NEW s \in P \ M
        PROVE  \E f \in EventsSeen(r) : f.slot = s
    BY <1>3, <1>M DEF Done, EventsSeen
  <2>3. \A s \in Slots(events) : \E f \in EventsSeen(r) : f.slot = s
    BY DEF Slots, EventsSeen
  <2> QED
    BY <2>1, <2>2, <2>3
<1>9. \A s \in Slots(events') :
        Part(events', seats', s) =
          (IF s \notin Slots(events) THEN {} ELSE Part(events, seats, s))
            \union (IF s \in P THEN {Client(r)} ELSE {})
  <2>1. ASSUME NEW f \in EventsSeen(r)
        PROVE  Part(events', seats', f.slot) =
                 (IF f.slot \notin Slots(events) THEN {} ELSE Part(events, seats, f.slot))
                   \union (IF f.slot \in P THEN {Client(r)} ELSE {})
    BY <1>3, <2>1, CommitSlot
  <2> QED
    BY <1>7, <2>1
<1>10. Shows(r, P, M)
  BY <1>6, <1>7, <1>8, <1>9 DEF Shows
<1> QED
  BY <1>5, <1>10
-----------------------------------------------------------------------------
\* The book and the answers, as Attendance has them
BookNow == [s \in {e.slot : e \in events} |-> TakingPart(s)]

Answers == [r \in Requests |-> Answer(r)]

Seats == [s \in Slot |-> Capacity[s.service]]

LEMMA BookFacts ==
    /\ DOMAIN BookNow = Slots(events)
    /\ \A s \in Slots(events) : BookNow[s] = Part(events, seats, s)
    /\ BookNow' = [s \in Slots(events') |-> Part(events', seats', s)]
BY DEF BookNow, TakingPart, Slots, Part

\* A request that is answered, while the others go on as they were
LEMMA OneAnswer ==
    ASSUME TypeInv, NEW r \in Requests, NEW label \in Answered,
           pc[r] \notin Answered, pc' = [pc EXCEPT ![r] = label]
    PROVE  /\ Answers[r] = "open"
           /\ Answers' = [Answers EXCEPT ![r] = IF label = "booked" THEN "booked" ELSE "refused"]
BY DEF Answers, Answer, Answered, TypeInv, TypeOK

\* Refusals: the book stays, the request is answered.
LEMMA RefusalIsRefuse ==
    ASSUME TypeInv, NEW r \in Requests, NEW label \in {"rejected", "aborted"},
           pc[r] \notin Answered, Goto(r, label), UNCHANGED <<events, seats, input>>
    PROVE  Promise!Refuse(r)
<1>1. Answers[r] = "open" /\ Answers' = [Answers EXCEPT ![r] = "refused"]
  BY OneAnswer DEF Goto, Answered
<1>2. BookNow' = BookNow
  BY DEF BookNow, TakingPart
<1> QED
  BY <1>1, <1>2 DEF Promise!Refuse, Answers, BookNow

LEMMA SameCardinality == \A S : Promise!Cardinality(S) = Cardinality(S)
BY DEF Promise!Cardinality, Cardinality, Promise!IsFiniteSet, IsFiniteSet

LEMMA CommitIsBook ==
    ASSUME ClassesAlone, TypeInv, SlotInv, ApartInv, SeatInv, PromiseInv,
           TypeInv', SlotInv', SeatInv', PromiseInv',
           NEW r \in Requests, PromiseCommits(r)
    PROVE  Promise!Book(r)
<1>1. pc[r] = "commit" /\ pc' = [pc EXCEPT ![r] = "booked"] /\ input' = input
  BY DEF PromiseCommits, CommitsSeats, Commits
<1>2. Answers[r] = "open" /\ Answers' = [Answers EXCEPT ![r] = "booked"]
  BY <1>1, OneAnswer DEF Answered
<1>3. PICK P : Takes(r, P) /\ \E M : Shows(r, P, M)
  BY CommitShows
<1>4. PICK M : Shows(r, P, M)
  BY <1>3
<1>5. P \in Wished(input[r])
  BY <1>3 DEF Takes
<1>6. \A s \in P : s \in Slot
  BY <1>5, ChainShape DEF Wished, TypeInv
<1>7. \A s \in P : Seats[s] = Capacity[s.service]
  BY <1>6 DEF Seats
<1>8. \A s \in P : \/ s \notin DOMAIN BookNow
                   \/ Client(r) \in BookNow[s]
                   \/ Seats[s] > 1 /\ Cardinality(BookNow[s]) < Seats[s]
  BY <1>3, <1>7, BookFacts DEF Takes, IsClass
<1>9. M \in SUBSET {s \in P : s \notin DOMAIN BookNow /\ Seats[s] > 1}
  BY <1>4, <1>7, BookFacts DEF Shows, IsClass
<1>10. BookNow' = [s \in DOMAIN BookNow \union (P \ M) |->
                     (IF s \notin DOMAIN BookNow THEN {} ELSE BookNow[s])
                       \union (IF s \in P THEN {Client(r)} ELSE {})]
  BY <1>4, BookFacts DEF Shows
<1>11. \A s : Promise!Open(s) <=> s \notin DOMAIN BookNow
  BY DEF Promise!Open, BookNow
<1>12. \A s : Promise!IsClass(s) <=> Seats[s] > 1
  BY DEF Promise!IsClass, Seats
<1>13. \A s \in P : Promise!Admits(s, Client(r))
  BY <1>8, <1>11, <1>12, SameCardinality DEF Promise!Admits, BookNow, Seats
<1>14. \A s \in P : Promise!Admits(s, Asker(input[r]))
  BY <1>13 DEF Asker, Client
<1>15. BookNow' = [s \in DOMAIN BookNow \union (P \ M) |->
                     (IF Promise!Open(s) THEN {} ELSE BookNow[s])
                       \union (IF s \in P THEN {Asker(input[r])} ELSE {})]
  BY <1>10, <1>11 DEF Asker, Client
<1>16. M \in SUBSET {s \in P : Promise!Open(s) /\ Promise!IsClass(s)}
  BY <1>9, <1>11, <1>12
<1> QED
  BY <1>1, <1>2, <1>5, <1>14, <1>15, <1>16 DEF Promise!Book, Answers, BookNow

\* Steps that do not show
LEMMA Stutters ==
    ASSUME BookNow' = BookNow, Answers' = Answers, input' = input
    PROVE  UNCHANGED Promise!vars
BY DEF Promise!vars, BookNow, Answers

\* A request that is not answered yet and does not become so
LEMMA StillOpen ==
    ASSUME NEW r \in Requests, pc[r] \notin Answered, pc'[r] \notin Answered,
           \A s \in Requests \ {r} : pc'[s] = pc[s],
           UNCHANGED <<events, seats, input>>
    PROVE  UNCHANGED Promise!vars
<1>1. BookNow' = BookNow
  BY DEF BookNow, TakingPart
<1>2. \A s \in Requests : Answer(s)' = Answer(s)
  BY DEF Answer, Answered
<1>3. Answers' = Answers
  BY <1>2 DEF Answers
<1> QED
  BY <1>1, <1>3, Stutters

\* Whoever takes part in a slot still does after a step of a cancellation, as
\* long as the event is there.
LEMMA CancelKeepsPart ==
    ASSUME TypeInv, SlotInv, SeatInv, PromiseInv, NEW k \in Cancels, CancelStep(k),
           NEW s \in Slots(events')
    PROVE  s \in Slots(events) /\ Part(events', seats', s) = Part(events, seats, s)
<1>1. Cancelling /\ events' \subseteq events
  BY CancelTables DEF Cancelling
<1>2. PICK e \in events' : e.slot = s
  BY DEF Slots
<1>3. \A f \in events : f.slot = e.slot => f = e
  BY <1>1 DEF SlotInv, SlotOnce
<1>4. seats' \subseteq seats \/ \E c : seats' = SeatCancelled(c)
  BY DEF CancelStep, CancelRead, CancelIndividual, CancelSeat, DeleteEvents,
         DeleteSeats, DeleteGroup, tables
<1>5. \A q \in seats' : \E p \in seats : q.group = p.group /\ q.client = p.client
  BY <1>4, SeatCancelledRows DEF TypeInv
<1>6. \A p \in seats : p.group = e.group =>
        \E q \in seats' : q.group = p.group /\ q.client = p.client
  BY <1>1 DEF Cancelling
<1>7. {p.client : p \in SeatsOf(seats', e.group)} = {p.client : p \in SeatsOf(seats, e.group)}
  BY <1>5, <1>6 DEF SeatsOf
<1>8. Part(events', seats', e.slot) = {p.client : p \in SeatsOf(seats', e.group)}
  BY <1>1, <1>3, PartOfGroup
<1>9. Part(events, seats, e.slot) = {p.client : p \in SeatsOf(seats, e.group)}
  BY <1>1, <1>3, PartOfGroup
<1> QED
  BY <1>1, <1>2, <1>7, <1>8, <1>9 DEF Slots

\* A class has one event, so that its deletion empties one slot.
LEMMA ClassLeaves ==
    ASSUME TypeInv, SlotInv, ApartInv, SeatInv, PromiseInv, NEW k \in Cancels, CancelStep(k)
    PROVE  \/ Slots(events') = Slots(events)
           \/ \E s \in Slots(events) :
                s \in Slot /\ IsClass(s.service) /\ Slots(events') = Slots(events) \ {s}
<1>1. CASE events' = events
  BY <1>1
<1>2. CASE DeleteEvents(k)
  <2>g. PICK g : g = cancel[k].seat.group
    OBVIOUS
  <2>1. events' = {e \in events : e.group # g} /\ OfClass(g)
    BY <1>2, <2>g DEF DeleteEvents, PromiseInv, CancelKinds, Running
  <2>2. CASE \A e \in events : e.group # g
    BY <2>1, <2>2
  <2>3. ASSUME NEW e \in events, e.group = g
        PROVE  /\ e.slot \in Slot /\ IsClass(e.slot.service)
               /\ Slots(events') = Slots(events) \ {e.slot}
    <3>1. \A f \in events : f.group = g => f.id = <<g, 1>> /\ IsClass(f.slot.service)
      BY <2>1 DEF SeatInv, EventKinds, RightKind
    <3>2. \A f \in events : f.group = g => f.slot = e.slot
      BY <2>3, <3>1 DEF ApartInv, IdNamesSlot
    <3>3. \A f \in events : f.slot = e.slot => f = e
      BY DEF SlotInv, SlotOnce
    <3>4. e.slot \in Slot
      BY DEF TypeInv, TypeOK, Event
    <3> QED
      BY <2>1, <2>3, <3>1, <3>2, <3>3, <3>4 DEF Slots
  <2> QED
    BY <2>1, <2>2, <2>3 DEF Slots
<1> QED
  BY <1>1, <1>2 DEF CancelStep, CancelRead, CancelIndividual, CancelSeat,
                    DeleteSeats, DeleteGroup, tables

LEMMA CancelShows ==
    ASSUME TypeInv, SlotInv, ApartInv, SeatInv, PromiseInv, NEW k \in Cancels, CancelStep(k)
    PROVE  Promise!Dissolve \/ UNCHANGED Promise!vars
<1>1. pc' = pc /\ input' = input
  BY CancelTables DEF Cancelling
<1>2. Answers' = Answers
  BY <1>1 DEF Answers, Answer
<1>3. \A s \in Slots(events') : s \in Slots(events) /\ Part(events', seats', s) = BookNow[s]
  BY CancelKeepsPart, BookFacts
<1>4. CASE Slots(events') = Slots(events)
  <2>1. BookNow' = BookNow
    <3>1. BookNow' = [s \in Slots(events) |-> BookNow[s]]
      BY <1>3, <1>4, BookFacts
    <3>2. BookNow = [s \in DOMAIN BookNow |-> BookNow[s]]
      BY DEF BookNow
    <3> QED
      BY <3>1, <3>2, BookFacts
  <2> QED
    BY <1>1, <1>2, <2>1, Stutters
<1>5. ASSUME NEW s \in Slots(events), s \in Slot, IsClass(s.service),
             Slots(events') = Slots(events) \ {s}
      PROVE  Promise!Dissolve
  <2>1. s \in DOMAIN BookNow /\ DOMAIN BookNow \ {s} = Slots(events')
    BY <1>5, BookFacts
  <2>2. Promise!IsClass(s)
    BY <1>5 DEF Promise!IsClass, IsClass
  <2>3. BookNow' = [t \in DOMAIN BookNow \ {s} |-> BookNow[t]]
    BY <1>3, <2>1, BookFacts
  <2> QED
    BY <1>1, <1>2, <2>1, <2>2, <2>3 DEF Promise!Dissolve, BookNow, Answers
<1> QED
  BY <1>4, <1>5, ClassLeaves

LEMMA RequestShows ==
    ASSUME ClassesAlone, TypeInv, SlotInv, ApartInv, SeatInv, PromiseInv,
           TypeInv', SlotInv', SeatInv', PromiseInv',
           NEW r \in Requests, RequestStep(r) \/ Abort(r)
    PROVE  Promise!Book(r) \/ Promise!Refuse(r) \/ UNCHANGED Promise!vars
<1> USE DEF tables, planning
<1>1. pc[r] \notin Answered
  BY DEF RequestStep, Post, TryJoin, CheckHold, SetHold, Pick, Assign, Lock, Find, Join,
         Create, Commit, Abort, InTx, Answered
<1>2. CASE Commit(r) /\ ~(Reject(r) /\ UNCHANGED <<events, seats>>)
  <2>1. PromiseCommits(r)
    BY <1>2 DEF Commit, Commits, CommitsSeats, PromiseCommits, Goto, EndTx
  <2> QED
    BY <2>1, CommitIsBook
<1>3. CASE Abort(r)
  BY <1>1, <1>3, RefusalIsRefuse DEF Abort
<1>4. CASE RequestStep(r) /\ (Commit(r) => Reject(r) /\ UNCHANGED <<events, seats>>)
  <2>1. UNCHANGED <<events, seats, input>>
    BY <1>4 DEF RequestStep, Post, TryJoin, CheckHold, SetHold, Pick, Assign, Lock, Find,
                Join, Create, Commit
  <2>2. CASE Reject(r)
    BY <1>1, <2>1, <2>2, RefusalIsRefuse DEF Reject
  <2>3. CASE ~Reject(r)
    <3>1. PICK label \in Planning \union InTx : Goto(r, label)
      BY <1>4, <2>3 DEF RequestStep, Post, TryJoin, CheckHold, SetHold, Pick, Assign, Lock,
                        Find, Join, Create, Advance, Planning, InTx
    <3>2. pc'[r] = label /\ \A s \in Requests \ {r} : pc'[s] = pc[s]
      BY <3>1 DEF Goto, TypeInv, TypeOK
    <3>3. label \notin Answered
      BY DEF Planning, InTx, Answered
    <3> QED
      BY <1>1, <2>1, <3>2, <3>3, StillOpen
  <2> QED
    BY <2>2, <2>3
<1> QED
  BY <1>2, <1>3, <1>4

LEMMA StepShows ==
    ASSUME ClassesAlone, TypeInv, SlotInv, ApartInv, SeatInv, PromiseInv,
           TypeInv', SlotInv', SeatInv', PromiseInv', [Next]_vars
    PROVE  [Promise!Next]_(Promise!vars)
<1>1. ASSUME NEW r \in Requests, RequestStep(r) \/ Abort(r)
      PROVE  Promise!Next \/ UNCHANGED Promise!vars
  BY <1>1, RequestShows DEF Promise!Next
<1>2. ASSUME NEW k \in Cancels, CancelStep(k)
      PROVE  Promise!Next \/ UNCHANGED Promise!vars
  BY <1>2, CancelShows DEF Promise!Next
<1>3. CASE HoldExpires \/ UNCHANGED vars
  <2>1. UNCHANGED <<events, seats, pc, input>>
    BY <1>3 DEF HoldExpires, vars, tables
  <2>2. BookNow' = BookNow /\ Answers' = Answers
    BY <2>1 DEF BookNow, TakingPart, Answers, Answer
  <2> QED
    BY <2>1, <2>2, Stutters
<1> QED
  BY <1>1, <1>2, <1>3 DEF Next

LEMMA StartShows ==
    ASSUME Init
    PROVE  Promise!Init
<1>1. input \in [Requests -> Bookings]
  BY BookingAssumption DEF Init
<1>2. BookNow = [s \in {} |-> {}]
  BY DEF Init, BookNow
<1>3. Answers = [r \in Requests |-> "open"]
  BY DEF Init, Answers, Answer
<1> QED
  BY <1>1, <1>2, <1>3 DEF Promise!Init, BookNow, Answers

\* Whatever requests, transactions and cancellations do to each other, their
\* outcome is that of bookings which take effect one at a time: Booking
\* implements Attendance.
THEOREM BookingsTakeEffectAtOnce ==
    ASSUME ClassesAlone
    PROVE  Spec => ImplementsAttendance
<1>1. Init => Promise!Init
  BY StartShows
<1>2. /\ TypeInv /\ SlotInv /\ ApartInv /\ SeatInv /\ PromiseInv
      /\ TypeInv' /\ SlotInv' /\ SeatInv' /\ PromiseInv' /\ [Next]_vars
      => [Promise!Next]_(Promise!vars)
  BY StepShows
<1>3. TypeInv /\ SlotInv /\ ApartInv /\ SeatInv /\ [Next]_vars => SeatInv'
  BY SeatStep
<1>4. TypeInv /\ SlotInv /\ ApartInv /\ SeatInv /\ PromiseInv /\ [Next]_vars => PromiseInv'
  BY PromiseStep
<1> QED
  BY <1>1, <1>2, <1>3, <1>4, TypeInit, TypeStep, SlotInit, SlotStep, ApartInit, ApartStep,
     SeatInit, PromiseInit, PTL
  DEF Spec, ImplementsAttendance, Promise!Spec
=============================================================================
