CONSTANTS
    r1 = r1
    r2 = r2
    Requests = {r1, r2}
    Earlier = earlier
    Kinds = {"login", "refresh", "logout", "change", "forgot", "resend", "reset", "verify"}
    MaxClock = 3
    TicksPerSecond = 2
    AccessLife = 4
    RefreshLife = 2
    RequireVerified = TRUE
    LinkLife = 1
    Cooldown = 1
SYMMETRY RequestSymmetry
SPECIFICATION LinksSpec
CHECK_DEADLOCK FALSE
INVARIANTS
    OldSessionsEnd
    OldTokensEnd
    LogoutIsFinal
    RedeemedOnce
    OneLiveLink
    MailKeepsItsDistance
