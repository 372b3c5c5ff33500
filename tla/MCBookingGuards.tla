-------------------------- MODULE MCBookingGuards --------------------------
\* TLC instance of BookingGuards.
EXTENDS BookingGuards, TLC

CONSTANTS r1, r2, r3

At(start, end) == [start |-> start, end |-> end]

Wish(kind, time, class) == [kind |-> kind, time |-> time, class |-> class]

\* Three times of one day, the second over the others, and one of the next
MCAsks ==
    <<Wish("add", At(0, 2), TRUE), Wish("add", At(1, 3), FALSE), Wish("add", At(2, 4), FALSE),
      Wish("update", At(1, 3), TRUE), Wish("update", At(1, 3), FALSE),
      Wish("update", At(4, 6), TRUE), Wish("update", At(4, 6), FALSE), [kind |-> "cancel"],
      [kind |-> "other", time |-> At(1, 3)]>>

MCAskSet == {MCAsks[i] : i \in DOMAIN MCAsks}

\* Whichever request asks for what, at least one adds.
MCJobs ==
    {r1 :> MCAsks[i[1]] @@ r2 :> MCAsks[i[2]] @@ r3 :> MCAsks[i[3]] :
        i \in {j \in [1..3 -> DOMAIN MCAsks] : j[1] <= 3 /\ j[1] <= j[2] /\ j[2] <= j[3]}}

\* A class as it was made, and one of two times
MCClasses ==
    {[window |-> At(1, 3), events |-> {At(1, 3)}, dead |-> {}, group |-> "active"],
     [window |-> At(1, 6), events |-> {At(1, 3), At(4, 6)}, dead |-> {}, group |-> "active"]}

MCConfigs ==
    {[perDay |-> Unset, concurrent |-> Unset], [perDay |-> 2, concurrent |-> 1]}
=============================================================================
