---------------------------- MODULE MCDatedHours ----------------------------
(* Two requests about the hours of ann, who works in two workspaces, and bob. *)
EXTENDS DatedHours, TLC

CONSTANTS ws1, ws2, ann, bob, r1, r2, d1, h1, h2, w1

Open == [closed |-> FALSE, span |-> <<1, 2>>]
Shut == [closed |-> TRUE, span |-> <<0, 0>>]

Hours(id, day, h) ==
    [id |-> id, user |-> ann, place |-> ws1, day |-> day, hours |-> h]

Tables ==
    { [rows |-> {Hours(h1, 1, Open)}, absences |-> {}],
      [rows |-> {Hours(h1, 1, Open), Hours(h2, 1, Shut)}, absences |-> {}],
      [rows |-> {Hours(h1, 1, Open), Hours(h2, 2, Open)},
       absences |-> {[id |-> w1, user |-> bob, days |-> {1}]}] }

About(op, rest) == [op |-> op, place |-> ws1, user |-> ann] @@ rest

Bodies ==
    {About("add", [day |-> 1, hours |-> Shut]),
     About("put", [id |-> h1, patch |-> [user |-> bob]]),
     About("put", [id |-> h1, patch |-> [day |-> 2]]),
     About("put", [id |-> h1, patch |-> [place |-> ws2, hours |-> Shut]]),
     About("drop", [id |-> h1]),
     About("away", [days |-> {1, 2}]),
     About("move", [id |-> w1, days |-> {2}]),
     About("back", [id |-> w1])}

\* The order of the two requests does not matter.
MCScenes ==
    {[rows |-> t.rows, absences |-> t.absences,
      body |-> LET first == CHOOSE x \in p : TRUE
                   rest == p \ {first}
               IN  r1 :> first @@
                   r2 :> IF rest = {} THEN first ELSE CHOOSE y \in rest : TRUE] :
        t \in Tables, p \in {{x, y} : x, y \in Bodies}}
=============================================================================
