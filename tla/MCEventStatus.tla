--------------------------- MODULE MCEventStatus ---------------------------
(* Instances of EventStatus for TLC. *)
EXTENDS EventStatus, TLC

CONSTANTS r1, r2, r3, ann, bob

Change(status) == [kind |-> "change", status |-> status]
Ask(kind, client) == [kind |-> kind, client |-> client]
Edit(status, clients) == [kind |-> "edit", status |-> status, clients |-> clients]

\* Each status a change can lead to that a cascade or a table entry depends on,
\* an edit with and without a status, and the two removals
PlatformJobs ==
    <<Change("ACCEPTED"), Change("CONFIRMED"), Change("CANCELLED"),
      Change("CANCELLED_BY_CLIENT_REMOVED"), Edit(NoStatus, {ann}),
      Edit("PENDING", {ann}), [kind |-> "clear"], [kind |-> "delete"]>>

IndividualJobs == PlatformJobs \o <<Ask("confirm", ann), Ask("cancel", ann)>>

ClassJobs == IndividualJobs \o <<Ask("confirm", bob), Ask("cancel", bob)>>

\* Requests are interchangeable: each choice of three jobs is assigned once.
Choices(list) ==
    {(r1 :> list[i]) @@ (r2 :> list[j]) @@ (r3 :> list[k]) :
        <<i, j, k>> \in {t \in (1..Len(list)) \X (1..Len(list)) \X (1..Len(list)) :
                            t[1] <= t[2] /\ t[2] <= t[3]}}

IndividualScenes ==
    {[several |-> FALSE, clients |-> {ann}, jobs |-> f] : f \in Choices(IndividualJobs)}

ClassScenes ==
    {[several |-> TRUE, clients |-> {ann, bob}, jobs |-> f] : f \in
        {g \in Choices(ClassJobs) : \E r \in Requests : g[r].kind \in {"confirm", "cancel"}}}

AllScenes == IndividualScenes \union ClassScenes
=============================================================================
