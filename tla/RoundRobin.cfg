\* Two picks at a time among three professionals.
CONSTANTS
    p1 = p1
    p2 = p2
    Staff = {1, 2, 3}
    WeightMaps <- MCWeightMaps
    Pickers = {p1, p2}
    MaxWeight = 2
    MaxLost = 1
SPECIFICATION Spec
SYMMETRY MCPickerSymmetry
CHECK_DEADLOCK FALSE
INVARIANTS
    SharesAreFair
