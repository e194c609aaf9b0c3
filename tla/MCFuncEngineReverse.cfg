SPECIFICATION Spec
CONSTANTS
    Programs = {"stmtif"}
    MaxVal = 1
    MaxChanges = 3
INVARIANT ShapeFollowsInputs
