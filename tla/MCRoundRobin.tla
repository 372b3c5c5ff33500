---------------------------- MODULE MCRoundRobin ----------------------------
\* TLC instance of RoundRobin.
EXTENDS RoundRobin, TLC

CONSTANTS p1, p2

\* Equal weights, unequal weights, and a professional without weight
MCWeightMaps ==
    {1 :> 2 @@ 2 :> 2 @@ 3 :> 2, 1 :> 2 @@ 2 :> 1 @@ 3 :> 1, 1 :> 0 @@ 2 :> 2 @@ 3 :> 1}

MCPickerSymmetry == Permutations(Pickers)
=============================================================================
