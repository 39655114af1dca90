CONSTANTS
    role = role
    token = token
    member = member
    Rows <- MCRows
    Links <- MCLinks
    Owner <- MCOwner
    Excluded = {token}
    Hooks = {h1}
    MaxTx = 2
    MaxDepth = 1
SPECIFICATION UnitSpec
INVARIANTS FiresOnceResolved 
CHECK_DEADLOCK FALSE
