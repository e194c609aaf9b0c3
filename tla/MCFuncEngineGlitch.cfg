SPECIFICATION Spec
CONSTANTS
    Programs = {"map"}
    MaxVal = 1
    MaxChanges = 2
INVARIANT TableIsConsistent
