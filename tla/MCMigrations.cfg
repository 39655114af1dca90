CONSTANTS
    u1 = u1
    u2 = u2
    Users = {u1, u2}
    Addresses = {"ada", "bob"}
    RoleNames = {"staff", "admin", "a_name_too_long_for_users_role"}
SPECIFICATION Spec
INVARIANTS
    SchemaFollowsRevision
    BaseRolesAsSeeded
    UpgradeRefusedForCause
PROPERTIES
    NobodyGainsRank
