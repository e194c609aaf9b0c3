SPECIFICATION Spec
CONSTANTS
    n1 = n1
    n2 = n2
    x = x
    Res <- OneRes
    Value = {x}
    Absent = Absent
    Exists = Exists
    None = None
    Torn = Torn
    Wants <- FirstWants
    Overwrite = FALSE
INVARIANTS
    NeverTorn
