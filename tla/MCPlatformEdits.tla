-------------------------- MODULE MCPlatformEdits --------------------------
(* Instances of PlatformEdits for TLC. *)
EXTENDS PlatformEdits

CONSTANTS r1, r2, r3, ann, bob, e1, e2, e3, e4, home

EventRow(start, end) ==
    [kind |-> "event", group |-> home, start |-> start, end |-> end, life |-> "live"]

Seat(client, life) ==
    [kind |-> "seat", group |-> home, client |-> client, active |-> TRUE, life |-> life]

\* Four events, the times of each; Ann attends, an edit has taken Bob out.
Booking(times) ==
    [e \in EventIds |-> EventRow(times[e][1], times[e][2])]
      @@ home :> [kind |-> "group", start |-> 0, end |-> 4, cancelled |-> FALSE,
                  life |-> "live"]
      @@ <<Initially, ann>> :> Seat(ann, "live")
      @@ <<Initially, bob>> :> Seat(bob, "deleted")

\* One after the other, and one beside all others
Chain == Booking(e1 :> <<0, 1>> @@ e2 :> <<1, 2>> @@ e3 :> <<2, 3>> @@ e4 :> <<3, 4>>)
Beside == Booking(e1 :> <<0, 4>> @@ e2 :> <<1, 2>> @@ e3 :> <<2, 3>> @@ e4 :> <<3, 4>>)

Move(e, start, end, many) ==
    [kind |-> "move", event |-> e, start |-> start, end |-> end, many |-> many]

Edit(clients, services) ==
    [kind |-> "edit", group |-> home, start |-> 1, clients |-> clients,
     services |-> services]

Service(e) == [event |-> e, duration |-> 1]

\* Moves that keep, shift or split what is left, one with no time in it, edits
\* that drop, keep and add events and change the clients, deletions, clients
Jobs ==
    <<Move(e1, 4, 5, TRUE), Move(e2, 5, 6, TRUE), Move(e3, 6, 7, TRUE),
      Move(e1, 3, 3, TRUE),
      Move(e2, 3, 5, FALSE), Move(e3, 6, 7, FALSE),
      Edit({ann}, <<Service(e1), Service(e3)>>),
      Edit({ann, bob}, <<Service(e2), Service(New)>>),
      [kind |-> "delete", event |-> e1], [kind |-> "delete", event |-> e3],
      [kind |-> "join", event |-> e2, client |-> bob],
      [kind |-> "cancel", event |-> e2, client |-> ann]>>

\* Requests are interchangeable: each choice of three jobs is assigned once.
JobChoices ==
    {(r1 :> Jobs[t[1]]) @@ (r2 :> Jobs[t[2]]) @@ (r3 :> Jobs[t[3]]) :
        t \in {u \in [1..3 -> DOMAIN Jobs] : u[1] <= u[2] /\ u[2] <= u[3]}}

AllScenes == {[rows |-> b, jobs |-> f] : b \in {Chain, Beside}, f \in JobChoices}
=============================================================================
