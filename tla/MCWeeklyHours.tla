--------------------------- MODULE MCWeeklyHours ---------------------------
(* Two requests about the hours of a workspace, or about those of a           *)
(* professional who works in two.                                            *)
EXTENDS WeeklyHours, TLC

CONSTANTS ws1, ws2, ann, r1, r2, d1

Open(from, to) == [closed |-> FALSE, span |-> <<from, to>>]
Shut == [closed |-> TRUE, span |-> <<0, 0>>]

Old(n, owner, place, h) ==
    [id |-> <<before, n>>, owner |-> owner, place |-> place,
     closed |-> h.closed, span |-> h.span, by |-> before]

\* No rows; the workspace open, or closed; the professional open in both
\* workspaces, or closed in both.
Tables(owner) ==
    {{}} \cup
    IF owner = shop
    THEN {{Old(1, shop, ws1, Open(1, 2)), Old(2, shop, ws1, Open(2, 3))},
          {Old(1, shop, ws1, Shut)}}
    ELSE {{Old(1, ann, ws1, Open(1, 2)), Old(2, ann, ws2, Open(2, 3))},
          {Old(1, ann, ws1, Shut), Old(2, ann, ws2, Shut)}}

Ask(op, owner, n, hours) ==
    [op |-> op, owner |-> owner, place |-> ws1, id |-> <<before, n>>, hours |-> hours]

Bodies(owner) ==
    {Ask(op, owner, 1, {h}) :
        op \in {"add", "put"}, h \in {Open(1, 3), Shut}}
    \cup {Ask("drop", owner, 1, {})}
    \cup IF owner = shop
         THEN {Ask("generate", shop, 0, hours) :
                 hours \in {{Open(1, 2), Open(2, 3)}, {Open(1, 2), Shut},
                            {Open(1, 3), Open(2, 3)}}}
         ELSE {Ask("put", ann, 2, {Open(2, 3)})}

\* A request about the row that the other one is about to add.
Followed(owner) ==
    {r1 :> Ask("add", owner, 1, {Open(1, 3)}) @@ r2 :> [b EXCEPT !.id = <<r1, 0>>] :
        b \in {c \in Bodies(owner) : c.op \in {"put", "drop"}}}

\* The order of two requests about other rows does not matter.
MCScenes ==
    {[table |-> {}, body |-> b] : b \in UNION {Followed(owner) : owner \in Owners}}
    \cup UNION {{[table |-> t,
             body |-> IF Cardinality(p) = 1
                      THEN [r \in Requests |-> CHOOSE x \in p : TRUE]
                      ELSE r1 :> (CHOOSE x \in p : TRUE) @@
                           r2 :> (CHOOSE y \in p : y # CHOOSE x \in p : TRUE)] :
                t \in Tables(owner),
                p \in {{x, y} : x, y \in Bodies(owner)}} : owner \in Owners}
=============================================================================
