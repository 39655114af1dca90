CONSTANTS
    Users = {u1}
    Keys = {k1}
    Bodies = {b1, b2}
    Requests = {r1, r2, r3}
    InFlightTimeout = 1
    Retention = 2
    MaxClock = 3
    None = None
SYMMETRY RequestSymmetry
SPECIFICATION Spec
INVARIANTS SoleHolderWhileHeld DoneOnceWhileHeld ReplayIsCommitted ReplayMatchesWhileHeld
CHECK_DEADLOCK FALSE
