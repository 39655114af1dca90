CONSTANTS
    Users = {u1, u2}
    Keys = {k1}
    Bodies = {b1}
    Requests = {r1, r2}
    InFlightTimeout = 1
    Retention = 2
    MaxClock = 2
    None = None
SPECIFICATION FairSpec
PROPERTY EveryRequestEnds
CHECK_DEADLOCK FALSE
