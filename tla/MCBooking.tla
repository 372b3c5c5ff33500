----------------------------- MODULE MCBooking -----------------------------
\* TLC instances of Booking.
EXTENDS BookingRefinement, TLC

CONSTANTS r1, r2, r3, k1, c1, c2, c3, u1, u2, yoga, cut, tint

MCCapacity == yoga :> 2 @@ cut :> 1 @@ tint :> 1

One(service, duration, staff) ==
    <<[service |-> service, duration |-> duration, staff |-> staff]>>

Ask(client, start, attendees) ==
    [client |-> client, start |-> start, attendees |-> attendees]

\* Three clients for two seats of a class, and an individual service at an
\* overlapping time, with a professional who has no weight, and twice as long
MCSingle ==
    <<Ask(c1, 0, One(yoga, 2, {u1})), Ask(c2, 0, One(yoga, 2, {u1})),
      Ask(c3, 0, One(yoga, 2, {u1})), Ask(c1, 1, One(cut, 1, {u1})),
      Ask(c1, 1, One(cut, 1, {u2})),
      Ask(c2, 1, One(cut, 2, {u1}))>>

\* Individual services by fixed professionals, two of them in both orders
MCSeveral ==
    <<Ask(c1, 0, One(cut, 1, {u1}) \o One(tint, 1, {u2})),
      Ask(c2, 0, One(tint, 1, {u2}) \o One(cut, 1, {u1})),
      Ask(c3, 1, One(cut, 1, {u1}) \o One(tint, 1, {u2}))>>

\* The first client books the cut again with a tint before it, while the second
\* one books it for longer.
MCAgain ==
    <<Ask(c1, 1, One(cut, 1, {u1})), Ask(c2, 1, One(cut, 2, {u1})),
      Ask(c1, 0, One(tint, 1, {u2}) \o One(cut, 1, {u1}))>>

\* Three members of s, whichever request has which
Threes(s) ==
    {r1 :> s[i[1]] @@ r2 :> s[i[2]] @@ r3 :> s[i[3]] :
        i \in {j \in [1..3 -> DOMAIN s] : j[1] <= j[2] /\ j[2] <= j[3]}}

Elements(s) == {s[i] : i \in DOMAIN s}

MCBookings ==
    UNION {Elements(MCSingle), Elements(MCSeveral), Elements(MCAgain)}

MCJobs ==
    Threes(MCSingle) \union Threes(MCSeveral)
      \union {r1 :> MCAgain[1] @@ r2 :> MCAgain[2] @@ r3 :> MCAgain[3]}
=============================================================================
