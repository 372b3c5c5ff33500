----------------------------- MODULE Attendance -----------------------------
(***************************************************************************)
(* What bookings on the web promise, whatever requests, transactions and   *)
(* cancellations do to each other: a request either is refused and leaves  *)
(* no trace, or takes effect at one moment, in slots that nobody had or    *)
(* in a class with a seat left.  Nobody is put out of a slot, save when a   *)
(* class is dissolved as a whole.                                          *)
(***************************************************************************)
EXTENDS Naturals, FiniteSets

CONSTANTS
    Requests,
    Wishes,      \* what a request may ask for
    ClientOf(_), \* who asks
    PlansOf(_),  \* the sets of slots that would do
    Capacity     \* the seats of each slot

VARIABLES
    wish,    \* what each request asks for
    book,    \* the slots that are taken, and those who take part
    answer   \* what each request was told

vars == <<wish, book, answer>>

Open(s) == s \notin DOMAIN book

IsClass(s) == Capacity[s] > 1

Init ==
    /\ wish \in [Requests -> Wishes]
    /\ book = [s \in {} |-> {}]
    /\ answer = [r \in Requests |-> "open"]

\* A slot that nobody has, one where the client takes part already, or a
\* class with a seat left
Admits(s, client) ==
    \/ Open(s)
    \/ client \in book[s]
    \/ IsClass(s) /\ Cardinality(book[s]) < Capacity[s]

\* The client takes part in all slots of a plan, save in a class that was
\* dissolved just after the client had joined it.
Book(r) ==
    /\ answer[r] = "open"
    /\ answer' = [answer EXCEPT ![r] = "booked"]
    /\ \E plan \in PlansOf(wish[r]) :
        \E missed \in SUBSET {s \in plan : Open(s) /\ IsClass(s)} :
            /\ \A s \in plan : Admits(s, ClientOf(wish[r]))
            /\ book' = [s \in DOMAIN book \union (plan \ missed) |->
                          (IF Open(s) THEN {} ELSE book[s])
                            \union (IF s \in plan THEN {ClientOf(wish[r])} ELSE {})]
    /\ UNCHANGED wish

Refuse(r) ==
    /\ answer[r] = "open"
    /\ answer' = [answer EXCEPT ![r] = "refused"]
    /\ UNCHANGED <<wish, book>>

\* A class loses its last participant.
Dissolve ==
    /\ \E s \in DOMAIN book :
        /\ IsClass(s)
        /\ book' = [t \in DOMAIN book \ {s} |-> book[t]]
    /\ UNCHANGED <<wish, answer>>

Next ==
    \/ \E r \in Requests : Book(r) \/ Refuse(r)
    \/ Dissolve

Spec == Init /\ [][Next]_vars
=============================================================================
