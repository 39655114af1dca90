CONSTANTS
    Items = {i1, i2}
    Requests = {r1, r2, r3}
    None = None
SPECIFICATION FairSpec
INVARIANTS RowHasFile NoSilentOrphan BrokenOnlyIfRemoved
PROPERTY OrphansCollected
CHECK_DEADLOCK FALSE
