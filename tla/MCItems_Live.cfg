CONSTANTS
    Users = {u1}
    Requests = {r1, r2}
    Items = {1, 2}
    Fields = {title}
    Values = {a, b}
    Blank = Blank
    AnyVersion = AnyVersion
    MaxVersion = 2
    None = None
SPECIFICATION FairSpec
PROPERTIES EveryRequestEnds Linearizable
CHECK_DEADLOCK FALSE
