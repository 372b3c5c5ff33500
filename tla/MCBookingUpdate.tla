-------------------------- MODULE MCBookingUpdate --------------------------
(* Instances of BookingUpdate for TLC. *)
EXTENDS BookingUpdate, TLC

CONSTANTS r1, r2, r3, ann, bob, cid, u1, u2, yoga, cut, tint, e1, e2, g1, g2

MCCapacity == yoga :> 2 @@ cut :> 1 @@ tint :> 1

At(service, user, start, group) ==
    [slot |-> [service |-> service, user |-> user, start |-> start, end |-> start + 1],
     group |-> group, live |-> TRUE]

Want(service, staff) == [service |-> service, duration |-> 1, staff |-> staff]

Long(service, staff) == [Want(service, staff) EXCEPT !.duration = 2]

Move(client, event, start, attendees) ==
    [client |-> client, event |-> event, start |-> start, deletes |-> {},
     attendees |-> attendees]

Seat(g, c) == <<Initially, g, c>>
Groups(cancelled) == [g \in GroupIds |-> [cancelled |-> g \in cancelled]]

\* Requests are interchangeable: each choice of three asks is assigned once.
AsksFrom(list) ==
    LET n == 1..Len(list)
    IN  {(r1 :> list[t[1]]) @@ (r2 :> list[t[2]]) @@ (r3 :> list[t[3]]) :
            t \in {u \in n \X n \X n : u[1] <= u[2] /\ u[2] <= u[3]}}

ScenesOf(layouts, asks, cancelled) ==
    {[events |-> l.events, seats |-> l.seats, groups |-> Groups(c), asks |-> a] :
        l \in layouts, a \in AsksFrom(asks), c \in cancelled}

\* Two classes after each other, with one or two participants in the first
ClassLayouts ==
    {[events |-> e1 :> At(yoga, u1, 0, g1) @@ e2 :> At(yoga, u1, 1, g2),
      seats |-> {Seat(g1, ann), Seat(g2, cid)} \union more] :
        more \in {{}, {Seat(g1, bob)}}}

ClassAsks ==
    <<Move(ann, e1, 1, <<Want(yoga, {u1})>>), Move(ann, e1, 0, <<Want(yoga, {u1})>>),
      Move(ann, e1, 2, <<Want(yoga, {u1})>>), Move(bob, e1, 1, <<Want(yoga, {u1})>>),
      Move(cid, e2, 0, <<Want(yoga, {u1})>>), Move(cid, e2, 2, <<Want(yoga, {u1})>>)>>

\* Two bookings of one service each, one of them perhaps cancelled
SingleLayouts ==
    {[events |-> e1 :> At(cut, u1, 0, g1) @@ e2 :> At(tint, u1, 1, g2),
      seats |-> {Seat(g1, ann), Seat(g2, bob)}]}

SingleAsks ==
    <<Move(ann, e1, 1, <<Want(cut, {u1, u2})>>), Move(ann, e1, 2, <<Long(cut, {u1})>>),
      Move(bob, e2, 3, <<Want(tint, {u1})>>), Move(bob, e2, 0, <<Want(tint, {u1})>>),
      Move(bob, e2, 1, <<Want(tint, {u1}), Want(cut, {u1})>>)>>

\* A booking of two services, rebuilt with one, two or three
SeveralLayouts ==
    {[events |-> e1 :> At(cut, u1, 0, g1) @@ e2 :> At(tint, u2, 1, g1),
      seats |-> {Seat(g1, ann)}]}

SeveralAsks ==
    LET two == Move(ann, e1, 1, <<Want(cut, {u1}), Want(tint, {u1, u2})>>)
    IN  <<two, [two EXCEPT !.deletes = {e2}], [two EXCEPT !.event = e2, !.start = 0],
          Move(ann, e1, 0, <<Want(tint, {u1, u2})>>),
          Move(ann, e1, 0, <<Want(cut, {u1}), Want(tint, {u2}), Want(cut, {u1})>>),
          [Move(ann, e1, 2, <<Want(cut, {u1})>>) EXCEPT !.deletes = {e2}]>>

AllScenes ==
    ScenesOf(ClassLayouts, ClassAsks, {{}, {g2}})
      \union ScenesOf(SingleLayouts, SingleAsks, {{}, {g1}, {g2}})
      \union ScenesOf(SeveralLayouts, SeveralAsks, {{}})
=============================================================================
