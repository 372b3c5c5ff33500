--------------------------- MODULE MCAvailability ---------------------------
\* TLC instances of Availability.
EXTENDS Availability, TLC

CONSTANTS u1, u2, cut, tint, yoga, c1, c2

MCCanDo == cut :> {u1, u2} @@ tint :> {u2} @@ yoga :> {u1}
MCDuration == cut :> 2 @@ tint :> 1 @@ yoga :> 2
MCCapacity == cut :> 1 @@ tint :> 1 @@ yoga :> 2

W(start, end) == [start |-> start, end |-> end]

On(day0, day1) == 0 :> day0 @@ 1 :> day1

Plain ==
    [offset |-> 0, business |-> On({W(2, 5), W(5, 8)}, {W(9, 12)}),
     worker |-> u1 :> On(None, None) @@ u2 :> On({W(3, 8)}, {}),
     temporary |-> u1 :> On(None, None) @@ u2 :> On(None, {W(10, 12)}),
     allowed |-> {u1, u2}, weightless |-> {}, fallback |-> TRUE,
     lead |-> 2, advance |-> 0, step |-> 2, alignService |-> FALSE]

Even ==
    [Plain EXCEPT !.business = On({W(2, 4), W(4, 8)}, {W(10, 12)}),
                  !.worker = u1 :> On(None, None) @@ u2 :> On({W(2, 8)}, {})]

\* A workspace west of Greenwich with a fine grid; one that books a day ahead,
\* with all hours on the grid; and one whose grid follows the services, with a
\* professional left out and one without weight.
MCScenes ==
    {[Plain EXCEPT !.offset = -2, !.step = 1, !.fallback = FALSE],
     [Even EXCEPT !.advance = 1],
     [Plain EXCEPT !.lead = 0, !.alignService = TRUE, !.allowed = {u2},
                   !.weightless = {u2}]}

Want(service, staff) == [service |-> service, staff |-> staff]

MCAsks == {<<Want(cut, Anyone)>>, <<Want(yoga, Anyone)>>,
           <<Want(tint, Anyone), Want(cut, Anyone)>>, <<Want(yoga, Anyone), Want(cut, u2)>>}

Entry(user, service, start, end) ==
    [user |-> user, service |-> service, start |-> start, end |-> end,
     status |-> "live", clients |-> {}]

MCPlatformRows == {Entry(u1, yoga, 3, 5), Entry(u1, yoga, 3, 6), Entry(u2, cut, 2, 7), Entry(u2, cut, 4, 4)}

MCClientSymmetry == Permutations(Clients)
=============================================================================
