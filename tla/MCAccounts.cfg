CONSTANTS
    Requests = {r1, r2}
    Emails = {e1, e2}
    Kinds = {"register", "create_superuser", "grant_role", "add_role", "remove_role", "add_member",
             "remove_member", "update", "deactivate", "remove", "impersonate", "create_role",
             "update_role", "delete_role", "seed", "demo_seed", "update_preferences", "update_features"}
SYMMETRY Symmetry
SPECIFICATION PrefSpec
INVARIANTS PrefTypeOK FirstIsSuperadmin OneOpenAccountPerEmail
PROPERTIES AdministratorRoleStands NobodyDropsOwnRank BorrowedTouchesNothing RoleLeavesNobody
    ClosedByTheirEquals SaveKeepsTheOthers
CHECK_DEADLOCK FALSE
