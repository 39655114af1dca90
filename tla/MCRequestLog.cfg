CONSTANTS
    r1 = r1
    r2 = r2
    r3 = r3
    Replicas = {}
    Operator = operator
    Nobody = nobody
    Jobs = {"prune-request-log"}
    Retention <- Keep
    Pool = 2
    BatchSize = 1
    Ids = {1, 2, 3}
    MaxClock = 1
    MaxFaults = 0
    Requests = {r1, r2, r3}
    Statuses = {500}
    Users = {"viewer", "other"}
    Viewer = "viewer"
    Outcomes = {"warning"}
    MaxBytes = 1
    Limit = 1
SYMMETRY RequestSymmetry
SPECIFICATION LogSpec
CHECK_DEADLOCK FALSE
INVARIANTS
    WalkIsExact
    
