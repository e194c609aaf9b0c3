SPECIFICATION FairSpec
CONSTANTS
    Programs <- Expressions
    MaxVal = 2
    MaxChanges = 2
INVARIANTS
    TypeOK
    NeverFails
