CONSTANTS
    Users = {u1, u2}
    Requests = {r1, r2, r3}
    Items = {1}
    Fields = {title}
    Values = {a, b}
    Blank = Blank
    AnyVersion = AnyVersion
    MaxVersion = 1
    None = None
SYMMETRY RequestSymmetry
SPECIFICATION Spec
INVARIANTS OneWritePerVersion 
CHECK_DEADLOCK FALSE
