SPECIFICATION Spec
CONSTANTS
    n1 = n1
    n2 = n2
    x = x
    Res <- TwoRes
    Value = {x}
    Absent = Absent
    Exists = Exists
    None = None
    Torn = Torn
    Wants <- BothWant
    Overwrite = FALSE
INVARIANTS
    InstructionsKept
    SubsequentGraphReverses
