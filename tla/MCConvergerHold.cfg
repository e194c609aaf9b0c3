SPECIFICATION Spec
CONSTANTS
    UID = {u1}
    Duration = 1
    MaxTime = 2
SYMMETRY UIDSymmetry
INVARIANTS
    NoLostHold
