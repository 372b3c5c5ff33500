----------------------------- MODULE RoundRobin -----------------------------
(***************************************************************************)
(* The smooth weighted round robin that spreads the bookings of a service  *)
(* over its professionals (pickWeightedSmoothRR).                          *)
(*                                                                         *)
(* Its state is one JSON value in Redis.  A pick reads it, computes and    *)
(* writes it back, with nothing to stop another pick in between: holds     *)
(* only keep picks of the same time apart.  Whoever is eligible, and the   *)
(* weights, may differ from one pick to the next.                          *)
(***************************************************************************)
EXTENDS FairShares, FiniteSetsExt

CONSTANTS
    WeightMaps, \* the weights a workspace may have configured
    Pickers,    \* requests that may be picking at the same time
    MaxLost     \* bound: picks whose update is lost

ASSUME RoundRobinAssumption ==
    /\ Staff \subseteq Nat /\ IsFiniteSet(Staff)
    /\ MaxWeight \in Nat \ {0} /\ MaxLost \in Nat
    /\ WeightMaps \subseteq [Staff -> 0..MaxWeight]

VARIABLES
    state,   \* the value in Redis: the "current" of each professional
    pick,    \* what each picker has read and computed
    writes   \* how many picks have been written since each picker's read

vars == <<state, pick, owed, writes, lost>>

Zero == [u \in Staff |-> 0]

\* Those of a weight, among whom the pick is made
Pool(eligible, weights) == {u \in eligible : weights[u] > 0}

Total(pool, weights) == MapThenSumSet(LAMBDA u : weights[u], pool)

Raised(s, pool, weights) == [u \in Staff |-> IF u \in pool THEN s[u] + weights[u] ELSE s[u]]

\* The greatest "current"; of equals the first id.
Chosen(raised, pool) ==
    CHOOSE u \in pool : \A v \in pool :
        raised[v] < raised[u] \/ (raised[v] = raised[u] /\ u <= v)

\* The chosen one pays the weights of all.
Paid(raised, u, pool, weights) == [raised EXCEPT ![u] = @ - Total(pool, weights)]

Init ==
    /\ state = Zero /\ owed = Zero
    /\ pick = [p \in Pickers |-> [at |-> "idle"]]
    /\ writes = [p \in Pickers |-> 0]
    /\ lost = 0

\* getState, and the computation on what it returned.  With nobody of a
\* weight the answer is null, and nothing is written.
Read(p) ==
    /\ pick[p].at = "idle"
    /\ \E eligible \in (SUBSET Staff) \ {{}}, weights \in WeightMaps :
        LET pool == Pool(eligible, weights)
            raised == Raised(state, pool, weights)
            u == Chosen(raised, pool)
        IN /\ pool # {}
           /\ pick' = [pick EXCEPT ![p] =
                 [at |-> "save", next |-> Paid(raised, u, pool, weights),
                  turn |-> Paid(Raised(Zero, pool, weights), u, pool, weights)]]
    /\ writes' = [writes EXCEPT ![p] = 0]
    /\ UNCHANGED <<state, owed, lost>>

\* Mutant: the new state is not saved.
SaveNothing(p) ==
    /\ pick[p].at = "save"
    /\ lost + writes[p] <= MaxLost
    /\ UNCHANGED state
    /\ owed' = [u \in Staff |-> owed[u] + pick[p].turn[u]]
    /\ lost' = lost + writes[p]
    /\ writes' = [q \in Pickers |-> IF q = p THEN 0 ELSE Min({writes[q] + 1, MaxLost + 1})]
    /\ pick' = [pick EXCEPT ![p] = [at |-> "idle"]]

\* saveState, whatever was written since the read.
Save(p) ==
    /\ pick[p].at = "save"
    /\ lost + writes[p] <= MaxLost
    /\ state' = pick[p].next
    /\ owed' = [u \in Staff |-> owed[u] + pick[p].turn[u]]
    /\ lost' = lost + writes[p]
    /\ writes' = [q \in Pickers |-> IF q = p THEN 0 ELSE Min({writes[q] + 1, MaxLost + 1})]
    /\ pick' = [pick EXCEPT ![p] = [at |-> "idle"]]

\* Redis refuses the write; the request fails.
Fail(p) ==
    /\ pick[p].at = "save"
    /\ pick' = [pick EXCEPT ![p] = [at |-> "idle"]]
    /\ UNCHANGED <<state, owed, writes, lost>>

\* The key lives two weeks from the last pick; the count starts again.
Expire ==
    /\ \A p \in Pickers : pick[p].at = "idle"
    /\ state' = Zero /\ owed' = Zero /\ lost' = 0
    /\ UNCHANGED <<pick, writes>>

Next ==
    \/ \E p \in Pickers : Read(p) \/ Save(p) \/ Fail(p)
    \/ Expire

Spec == Init /\ [][Next]_vars

=============================================================================
