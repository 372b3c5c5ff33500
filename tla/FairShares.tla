----------------------------- MODULE FairShares -----------------------------
(***************************************************************************)
(* What RoundRobin promises the professionals of a service: a share of its *)
(* bookings in proportion to their weights.                                *)
(***************************************************************************)
EXTENDS Integers, FiniteSets

CONSTANTS
    Staff,      \* professionals, as numbers in the order of their ids
    MaxWeight

VARIABLES
    owed,    \* the turns each professional is owed by the picks answered
    lost     \* picks whose update was overwritten

Bound == (Cardinality(Staff) - 1) * MaxWeight

\* The picks that were really answered give everybody the share of the
\* weights, up to one turn for each pick whose update was lost.
SharesAreFair ==
    \A u \in Staff :
        LET slack == (1 + lost) * Bound
        IN -slack <= owed[u] /\ owed[u] <= slack
=============================================================================
