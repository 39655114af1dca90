----------------------------- MODULE Authorization -----------------------------
(***************************************************************************)
(* core/authorization.py: what the roles of an account let it do.  A role  *)
(* is a record with a name and a set of grants <<resource, action, scope>>; *)
(* an account is seen here as the set of roles it holds.                   *)
(***************************************************************************)
EXTENDS Integers

Own(resource, action) == <<resource, action, "own">>
All(resource, action) == <<resource, action, "all">>

OwnItems == {Own("items", a) : a \in {"read", "create", "update", "delete"}}

\* BASE_ROLES
BASE_ROLES ==
    [user |->
        OwnItems \cup {Own("request_log", "read"), All("feature_flags", "read"), All("settings", "read")},
     superadmin |->
        OwnItems \cup {All("request_log", "read"), All("audit_log", "read"), All("settings", "read")}
            \cup {All("users", a) : a \in {"read", "update", "delete", "impersonate"}}
            \cup {All("roles", a) : a \in {"read", "create", "update", "delete"}}
            \cup {All("feature_flags", a) : a \in {"read", "update"}}]

BLOCKED_WHILE_IMPERSONATING ==
    {<<"roles", a>> : a \in {"create", "update", "delete"}}
        \cup {<<"users", a>> : a \in {"update", "delete", "impersonate"}} \cup {<<"feature_flags", "update">>}

is_superuser(held) == \E role \in held : role.name = "superadmin"

\* _widest: the grants of all roles, and the wider scope when two name the
\* same permission.
_widest(held) ==
    LET grants == UNION {role.grants : role \in held} IN
    [key \in {<<g[1], g[2]>> : g \in grants} |->
        IF All(key[1], key[2]) \in grants THEN "all" ELSE "own"]

\* scope_for; "none" is None
scope_for(held, resource, action) ==
    LET widest == _widest(held) IN
    CASE is_superuser(held) -> "all"
      [] ~is_superuser(held) /\ <<resource, action>> \in DOMAIN widest -> widest[<<resource, action>>]
      [] OTHER -> "none"

outranks(actor, target) == is_superuser(actor) \/ ~is_superuser(target)

may_impersonate(actor, target) ==
    scope_for(actor, "users", "impersonate") # "none" /\ outranks(actor, target)

\* RoleService.effective_grants: what an account is told it may do.
effective_grants(held, permissions) ==
    IF is_superuser(held) THEN {All(p[1], p[2]) : p \in permissions}
    ELSE {<<k[1], k[2], _widest(held)[k]>> : k \in DOMAIN _widest(held)}

=============================================================================
