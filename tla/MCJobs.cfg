CONSTANTS
    a = a
    b = b
    Replicas = {a, b}
    Operator = operator
    Nobody = nobody
    Jobs = {"prune-request-log", "expire-tokens"}
    Retention <- Keep
    Pool = 2
    BatchSize = 1
    Ids = {1, 2}
    MaxClock = 2
    MaxFaults = 1
SPECIFICATION MCSpec
INVARIANTS
    SoleRunner
    LockIsInUse
PROPERTIES
    DrainedWhenDone
    EveryRunEnds
