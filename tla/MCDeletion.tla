----------------------------- MODULE MCDeletion -----------------------------
\* TLC instances of Deletion.
EXTENDS Deletion

CONSTANTS h1, h2, g1, g2, e1, e2, e3, a1, b1, a2, n1, hours

\* A class of two clients, and an individual booking with a block, of one
\* professional.  The client of the second may join the class, and a fourth
\* has no booking.
Refers(user, client, clientWorkspace, group) ==
    [company |-> "co", workspace |-> "ws", user |-> user, client |-> client,
     clientWorkspace |-> clientWorkspace, group |-> group]

MCAttr ==
    [x \in Rows |->
        IF x \in {g1, g2} THEN Refers("-", "-", "-", "-")
        ELSE IF x = e1 THEN Refers("pro", "-", "-", g1)
        ELSE IF x \in {e2, e3} THEN Refers("pro", "-", "-", g2)
        ELSE IF x = a1 THEN Refers("-", "ann", "annW", g1)
        ELSE IF x = b1 THEN Refers("-", "bob", "bobW", g1)
        ELSE IF x = n1 THEN Refers("-", "dan", "danW", g1)
        ELSE IF x = a2 THEN Refers("-", "dan", "danW", g2)
        ELSE Refers("pro", "-", "-", "-")]

Ask(table, ids, rel) == [table |-> table, ids |-> ids, rel |-> rel]

Clients3 == Ask("clients", <<"ann", "cat", "bob">>, "-")
Bob == Ask("clients", <<"bob">>, "-")
BobW == Ask("clientWorkspaces", <<"bobW">>, "-")

MCSent ==
    {SetToBag({Clients3}),
     SetToBag({Ask("clients", <<"ann", "bob">>, "-"), Ask("clients", <<"dan">>, "-")}),
     SetToBag({BobW}) (+) SetToBag({BobW}) (+) SetToBag({Ask("clients", <<"ann">>, "-")}),
     SetToBag({Ask("workspaces", <<"ws">>, "-"), Ask("users", <<"pro">>, "-")}),
     SetToBag({Ask("companies", <<"co">>, "-"), Bob}),
     SetToBag({Ask("byWorkspace", <<"ws">>, "pro"), Ask("byUser", <<"pro">>, "ws")}),
     SetToBag({Ask("byWorkspaceHard", <<"ws">>, "pro"), Bob}),
     SetToBag({Ask("usersEventDeleteDefinitive", <<"pro">>, "-"), Ask("companies", <<"co">>, "-")}),
     SetToBag({Ask("calendarEvents", <<"e">>, "-"), Ask("bookings", <<"e">>, "-")})}

=============================================================================
