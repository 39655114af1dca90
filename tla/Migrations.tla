------------------------------ MODULE Migrations ------------------------------
(***************************************************************************)
(* The chain of Alembic revisions, run up and down over a database that    *)
(* has accounts and roles in it.                                           *)
(*                                                                         *)
(* A revision is what it creates and drops on the way up and on the way    *)
(* down, and, for some, what it does to the rows.  env.py runs it in a     *)
(* transaction: one that a constraint refuses leaves everything as it was. *)
(* `alembic upgrade head` is many steps of this model in one transaction.  *)
(* Columns of a new table are part of the table.                           *)
(***************************************************************************)
EXTENDS Authorization, Sequences, FiniteSetsExt

CONSTANTS
    Users,        \* accounts
    Addresses,    \* mail addresses, spelled in capitals or not
    RoleNames     \* names the API may give a role

VARIABLES
    rev,        \* revisions applied
    schema,     \* tables, columns, constraints and indexes there are
    db,         \* the rows
    touched     \* history: base roles somebody has edited

vars == <<rev, schema, db, touched>>

Rev(name, adds, drops, restores, removes) ==
    [name |-> name, up |-> [add |-> adds, drop |-> drops], down |-> [add |-> restores, drop |-> removes]]

\* A revision whose downgrade removes what its upgrade created.
Adding(name, adds) == Rev(name, adds, {}, {}, adds)

-----------------------------------------------------------------------------
\* a96aab63202d
initial_schema ==
    Adding("initial_schema",
           {"users", "ix_users_email", "items", "fk_items_owner_id_users", "ix_items_owner_id"})

KeepsOldIndex ==
    Rev("add_timestamps_and_user_role",
        {"items.updated_at", "users.role", "users.updated_at", "uq_users_email"}, {"ix_users_email"},
        {}, {"uq_users_email", "users.updated_at", "users.role", "items.updated_at"})

\* 80bc0acf7d07
add_timestamps_and_user_role ==
    Rev("add_timestamps_and_user_role",
        {"items.updated_at", "users.role", "users.updated_at", "uq_users_email"}, {"ix_users_email"},
        {"ix_users_email"}, {"uq_users_email", "users.updated_at", "users.role", "items.updated_at"})

\* c93eac896d35
add_soft_delete ==
    Rev("add_soft_delete",
        {"items.deleted_at", "users.deleted_at", "uq_users_email_active"}, {"uq_users_email"},
        {"uq_users_email"}, {"uq_users_email_active", "users.deleted_at", "items.deleted_at"})

\* f32374488e8e
add_request_logs_and_a_user_name ==
    Adding("add_request_logs_and_a_user_name",
           {"request_logs", "request_logs.id_int", "ix_request_logs_created_at", "ix_request_logs_request_id",
            "ix_request_logs_status_code", "ix_request_logs_user_id_created_at", "users.name"})

\* b399ddf7cb8a
add_user_preferences ==
    Adding("add_user_preferences",
           {"user_preferences", "fk_user_preferences_user_id_users", "ix_user_preferences_user_id"})

\* 4793e2423fde
add_revocable_refresh_tokens ==
    Rev("add_revocable_refresh_tokens",
        {"refresh_tokens", "fk_refresh_tokens_user_id_users", "ix_refresh_tokens_user_id"},
        {"ix_request_logs_status_code"},
        {"ix_request_logs_status_code"},
        {"ix_refresh_tokens_user_id", "fk_refresh_tokens_user_id_users", "refresh_tokens"})

\* 41ffc6580287
add_per_account_feature_flags == Adding("add_per_account_feature_flags", {"user_preferences.features"})

\* 0a456e5b983c
lowercase_existing_emails == Adding("lowercase_existing_emails", {})

\* d1c7a4f2b8e3
add_roles_and_permissions ==
    Rev("add_roles_and_permissions",
        {"roles", "permissions", "role_permissions", "users.role_id", "fk_users_role_id_roles"}, {"users.role"},
        {"users.role"},
        {"fk_users_role_id_roles", "users.role_id", "role_permissions", "permissions", "roles"})

\* e2f8b1c4d906
rename_the_admin_role == Adding("rename_the_admin_role", {})

\* c4a17d59f8b2
let_an_account_hold_several_roles ==
    Rev("let_an_account_hold_several_roles",
        {"user_roles"}, {"users.role_id", "fk_users_role_id_roles"},
        {"users.role_id", "fk_users_role_id_roles"}, {"user_roles"})

\* a2e64cb7d130
let_a_role_carry_feature_flags == Adding("let_a_role_carry_feature_flags", {"roles.features"})

\* 9683fb4021be
add_audit_logs ==
    Adding("add_audit_logs",
           {"audit_logs", "ix_audit_logs_actor_id_occurred_at", "ix_audit_logs_occurred_at",
            "ix_audit_logs_request_id", "ix_audit_logs_table_name_row_pk"})

\* e476f80fd304
add_an_item_version_counter == Adding("add_an_item_version_counter", {"items.version"})

\* 29c672d5fb69
add_idempotency_keys ==
    Adding("add_idempotency_keys",
           {"idempotency_keys", "ix_idempotency_keys_created_at", "ix_idempotency_keys_user_id"})

\* 5edda92271a7
store_an_account_timezone == Adding("store_an_account_timezone", {"user_preferences.timezone"})

\* 4e9943672be8
add_single_use_account_tokens ==
    Adding("add_single_use_account_tokens",
           {"single_use_tokens", "fk_single_use_tokens_user_id_users", "ix_single_use_tokens_user_id",
            "users.email_verified_at"})

\* 2cafcc5bd6db
add_item_attachments ==
    Adding("add_item_attachments", {"attachments", "fk_attachments_item_id_items", "ix_attachments_item_id"})

\* d43209d5e476
stamp_when_a_password_changed == Adding("stamp_when_a_password_changed", {"users.password_changed_at"})

\* a5f508821053: five foreign keys cascade, request ids become 64 bits wide.
add_indexes_and_cascade_deletes ==
    LET then == {"ix_items_owner_id", "request_logs.id_int"}
        now == {"attachments.item_id_cascade", "items.owner_id_cascade", "refresh_tokens.user_id_cascade",
                "single_use_tokens.user_id_cascade", "user_preferences.user_id_cascade",
                "ix_items_owner_id_deleted_at", "request_logs.id_bigint"} IN
    Rev("add_indexes_and_cascade_deletes", now, then, then, now)

-----------------------------------------------------------------------------
\* Five revisions add a permission and grant it, with scope "all", to roles
\* they name.
Gate(name, key, holders) == [name |-> name, key |-> key, holders |-> holders]

\* b7d3e91af204
gate_settings == Gate("gate_settings", <<"settings", "read">>, {"user", "superadmin"})

\* f5c8021ea6b1
let_feature_flags_be_delegated ==
    Gate("let_feature_flags_be_delegated", <<"feature_flags", "update">>, {"superadmin"})

GateUserToo == Gate("gate_the_audit_log", <<"audit_log", "read">>, {"user", "superadmin"})

\* c81a4f7b2d55
gate_the_audit_log == Gate("gate_the_audit_log", <<"audit_log", "read">>, {"superadmin"})

\* d94b6e0f3a17
add_the_impersonate_permission ==
    Gate("add_the_impersonate_permission", <<"users", "impersonate">>, {"superadmin"})

\* e37c5a91b204
add_the_user_delete_permission ==
    Gate("add_the_user_delete_permission", <<"users", "delete">>, {"superadmin"})

Gates == {gate_settings, let_feature_flags_be_delegated, gate_the_audit_log, add_the_impersonate_permission,
          add_the_user_delete_permission}
Gating(gate) == Adding(gate.name, {})

\* down_revision links them into one chain.
Chain == <<
    initial_schema, add_timestamps_and_user_role, add_soft_delete, add_request_logs_and_a_user_name,
    add_user_preferences, add_revocable_refresh_tokens, add_per_account_feature_flags,
    lowercase_existing_emails, add_roles_and_permissions, rename_the_admin_role,
    let_an_account_hold_several_roles, Gating(gate_settings), Gating(let_feature_flags_be_delegated),
    let_a_role_carry_feature_flags, add_audit_logs, Gating(gate_the_audit_log),
    Gating(add_the_impersonate_permission), Gating(add_the_user_delete_permission),
    add_an_item_version_counter, add_idempotency_keys, store_an_account_timezone,
    add_single_use_account_tokens, add_item_attachments, stamp_when_a_password_changed,
    add_indexes_and_cascade_deletes>>

Latest == Len(Chain)
PlaceOf(name) == CHOOSE n \in 1..Latest : Chain[n].name = name

-----------------------------------------------------------------------------
\* Rows.  role is users.role, a name; holds is users.role_id, then user_roles.
None == "none"
ASSUME NamesAssumption == None \notin Addresses /\ None \notin RoleNames

RoleIds == 1..3
NoRole == [name |-> None, grants |-> {}]
NoUser == [email |-> None, upper |-> FALSE, closed |-> FALSE, role |-> None, holds |-> {}]
Empty == [users |-> [u \in Users |-> NoUser], roles |-> [i \in RoleIds |-> NoRole], permissions |-> {}]

There(d) == {u \in Users : d.users[u] # NoUser}
IdOf(d, name) == {i \in RoleIds : d.roles[i].name = name}
EachUser(d, Change(_)) == [d EXCEPT !.users = [u \in Users |-> IF u \in There(d) THEN Change(d.users[u]) ELSE NoUser]]

\* users.role has room for 20 characters, roles.name for 50.
Long == "a_name_too_long_for_users_role"

\* users.role_id is NOT NULL and one role.
One(h) == \E i \in RoleIds : h = {i}

\* What the constraints in force allow.
Unique(d, us) == \A u, v \in us : u # v => <<d.users[u].email, d.users[u].upper>> # <<d.users[v].email, d.users[v].upper>>
Allowed(d, s) ==
    /\ "ix_users_email" \in s \/ "uq_users_email" \in s => Unique(d, There(d))
    /\ "uq_users_email_active" \in s => Unique(d, {u \in There(d) : ~d.users[u].closed})
    /\ \A i, j \in RoleIds : i # j /\ d.roles[i] # NoRole => d.roles[i].name # d.roles[j].name
    /\ \A u \in There(d) : /\ "users.role" \in s => d.users[u].role \notin {None, Long}
                           /\ "users.role_id" \in s => One(d.users[u].holds)

\* 0a456e5b983c: every row, closed accounts too.
lower(d) == EachUser(d, LAMBDA u : [u EXCEPT !.upper = FALSE])

\* GRANTS of d1c7a4f2b8e3
GRANTS ==
    [user |-> OwnItems \cup {Own("request_log", "read"), All("feature_flags", "read")},
     admin |-> OwnItems \cup {All("request_log", "read"), All("users", "read"), All("users", "update"),
                              All("feature_flags", "read")}
                   \cup {All("roles", a) : a \in {"read", "create", "update", "delete"}}]

Keys(grants) == {<<g[1], g[2]>> : g \in grants}

RolesTooLate(d) ==
    EachUser(d, LAMBDA u : [u EXCEPT !.role = None, !.holds = IdOf(d, u.role)])

\* The tables are filled, and users.role becomes a reference.
roles_from_names(d) ==
    LET made == [d EXCEPT !.roles = [i \in RoleIds |-> CASE i = 1 -> [name |-> "user", grants |-> GRANTS.user]
                                                         [] i = 2 -> [name |-> "admin", grants |-> GRANTS.admin]
                                                         [] OTHER -> NoRole],
                          !.permissions = Keys(GRANTS.user \cup GRANTS.admin)] IN
    EachUser(made, LAMBDA u : [u EXCEPT !.role = None, !.holds = IdOf(made, u.role)])

\* And back: the tables are dropped.
names_from_roles(d) ==
    LET named == EachUser(d, LAMBDA u : [u EXCEPT !.role = d.roles[CHOOSE i \in u.holds : TRUE].name, !.holds = {}]) IN
    [named EXCEPT !.roles = Empty.roles, !.permissions = {}]

\* UPDATE roles SET name = to WHERE name = from
rename(d, from, to) ==
    [d EXCEPT !.roles = [i \in RoleIds |-> IF d.roles[i].name = from THEN [d.roles[i] EXCEPT !.name = to]
                                                                     ELSE d.roles[i]]]

OneRoleOrRank(d) ==
    EachUser(d, LAMBDA u : [u EXCEPT !.holds = IF u.holds # {} THEN {Min(u.holds)} ELSE IdOf(d, "superadmin")])

\* The smallest role_id an account has, or the role "user".
one_role(d) ==
    EachUser(d, LAMBDA u : [u EXCEPT !.holds = IF u.holds # {} THEN {Min(u.holds)} ELSE IdOf(d, "user")])

\* ON CONFLICT DO NOTHING: a grant that is there keeps its scope.
grant(d, gate) ==
    [d EXCEPT !.permissions = @ \cup {gate.key},
              !.roles = [i \in RoleIds |->
                  IF d.roles[i].name \in gate.holders /\ gate.key \notin Keys(d.roles[i].grants)
                  THEN [d.roles[i] EXCEPT !.grants = @ \cup {All(gate.key[1], gate.key[2])}]
                  ELSE d.roles[i]]]

revoke(d, gate) ==
    [d EXCEPT !.permissions = @ \ {gate.key},
              !.roles = [i \in RoleIds |->
                  [d.roles[i] EXCEPT !.grants = {g \in @ : <<g[1], g[2]>> # gate.key}]]]

GateOf(name) == CHOOSE gate \in Gates : gate.name = name

Upgraded(name, d) ==
    CASE name = "add_timestamps_and_user_role" -> EachUser(d, LAMBDA u : [u EXCEPT !.role = "user"])
      [] name = "lowercase_existing_emails" -> lower(d)
      [] name = "add_roles_and_permissions" -> roles_from_names(d)
      [] name = "rename_the_admin_role" -> rename(d, "admin", "superadmin")
      [] name \in {gate.name : gate \in Gates} -> grant(d, GateOf(name))
      [] OTHER -> d

Downgraded(name, d) ==
    CASE name = "initial_schema" -> Empty
      [] name = "add_timestamps_and_user_role" -> EachUser(d, LAMBDA u : [u EXCEPT !.role = None])
      [] name = "add_soft_delete" -> EachUser(d, LAMBDA u : [u EXCEPT !.closed = FALSE])
      [] name = "add_roles_and_permissions" -> names_from_roles(d)
      [] name = "rename_the_admin_role" -> rename(d, "superadmin", "admin")
      [] name = "let_an_account_hold_several_roles" -> one_role(d)
      [] name \in {gate.name : gate \in Gates} -> revoke(d, GateOf(name))
      [] OTHER -> d

-----------------------------------------------------------------------------
Applied(s, step) == (s \ step.drop) \cup step.add

\* do_run_migrations: refused as a whole if a constraint is violated.
CanUpgrade == Allowed(Upgraded(Chain[rev + 1].name, db), Applied(schema, Chain[rev + 1].up))

upgrade ==
    /\ rev < Latest
    /\ CanUpgrade
    /\ rev' = rev + 1
    /\ schema' = Applied(schema, Chain[rev + 1].up)
    /\ db' = Upgraded(Chain[rev + 1].name, db)
    /\ UNCHANGED touched

downgrade ==
    /\ rev > 0
    /\ rev' = rev - 1
    /\ schema' = Applied(schema, Chain[rev].down)
    /\ db' = Downgraded(Chain[rev].name, db)
    /\ Allowed(db', schema')
    /\ touched' = IF "roles" \in schema' THEN touched ELSE {}

\* The service of the release before addresses were lowered, and before roles
\* were rows: an account as that release could leave it.
earlier_release ==
    /\ rev = PlaceOf("lowercase_existing_emails") - 1
    /\ \E u \in Users, email \in Addresses, upper, closed \in BOOLEAN, role \in {"user", "admin"} :
        /\ db.users[u] = NoUser
        /\ db' = [db EXCEPT !.users[u] = [email |-> email, upper |-> upper, closed |-> closed,
                                          role |-> role, holds |-> {}]]
    /\ Allowed(db', schema)
    /\ UNCHANGED <<rev, schema, touched>>

\* The service of this release, in the large: accounts register, close, gain
\* and lose roles; a role is made; the role "user" is edited.
this_release ==
    /\ rev = Latest
    /\ \/ \E u \in Users, email \in Addresses :
            /\ db.users[u] = NoUser
            /\ db' = [db EXCEPT !.users[u] = [NoUser EXCEPT !.email = email, !.holds = IdOf(db, "user")]]
            /\ UNCHANGED touched
       \/ \E u \in There(db) : db' = [db EXCEPT !.users[u].closed = TRUE] /\ UNCHANGED touched
       \/ \E u \in There(db), i \in {i \in RoleIds : db.roles[i] # NoRole} :
            /\ db' = [db EXCEPT !.users[u].holds = IF i \in @ THEN @ \ {i} ELSE @ \cup {i}]
            /\ UNCHANGED touched
       \/ \E name \in RoleNames :
            /\ db.roles[3] = NoRole
            /\ db' = [db EXCEPT !.roles[3] = [name |-> name, grants |-> {All("users", "impersonate")}]]
            /\ UNCHANGED touched
       \/ /\ \E name \in {"user", "member"} : db' = [db EXCEPT !.roles[1] = [name |-> name, grants |-> {}]]
          /\ touched' = {"user"}
    /\ Allowed(db', schema)
    /\ UNCHANGED <<rev, schema>>

Init == rev = 0 /\ schema = {} /\ db = Empty /\ touched = {}
Next == upgrade \/ downgrade \/ earlier_release \/ this_release
Spec == Init /\ [][Next]_vars

Grants == BASE_ROLES.user \cup BASE_ROLES.superadmin
Permissions == Keys(Grants)
UserRoles == {None, "user", "admin", "member"} \cup RoleNames
User == [email : Addresses \cup {None}, upper : BOOLEAN, closed : BOOLEAN, role : UserRoles, holds : SUBSET RoleIds]
AllNames == UserRoles \cup {"superadmin"}
Role == [name : AllNames, grants : SUBSET Grants]
Database == [users : [Users -> User], roles : [RoleIds -> Role], permissions : SUBSET Permissions]

TypeOK ==
    /\ rev \in 0..Latest
    /\ db \in Database
    /\ touched \subseteq {"user"}

-----------------------------------------------------------------------------
\* What a fresh database has at a revision: what one up to it created, and
\* none since has dropped.
SchemaAt(n) ==
    {c \in UNION {Chain[k].up.add : k \in 1..n} :
        \E k \in 1..n : c \in Chain[k].up.add /\ \A m \in (k + 1)..n : c \notin Chain[m].up.drop}

\* Whatever way a revision was reached, up or down and up again, the schema
\* is the one a fresh database would have there: each downgrade takes back
\* what its upgrade did, and no more.
SchemaFollowsRevision == schema = SchemaAt(rev)

\* At the head the migrations have made the same base roles that seed_roles
\* makes from BASE_ROLES, also after revisions were taken back and applied
\* again.  Nobody can edit the role superadmin; "user" is as it was if nobody
\* edited it.
BaseRolesAsSeeded ==
    rev = Latest =>
        /\ db.permissions = Keys(BASE_ROLES.user \cup BASE_ROLES.superadmin)
        /\ \E i \in RoleIds : db.roles[i] = [name |-> "superadmin", grants |-> BASE_ROLES.superadmin]
        /\ touched = {} => \E i \in RoleIds : db.roles[i] = [name |-> "user", grants |-> BASE_ROLES.user]

\* The administrators, in the terms of a revision.
RankName(n) == IF n >= PlaceOf("rename_the_admin_role") THEN "superadmin" ELSE "admin"
Administrators(n, d) ==
    {u \in There(d) : d.users[u].role = RankName(n) \/ d.users[u].holds \cap IdOf(d, RankName(n)) # {}}

Alone(h) == h = {} \/ One(h)

\* No migration makes an administrator of anyone, not even when the role that
\* was made was named "admin"; and who held that role alone keeps it.
NobodyGainsRank ==
    [][rev' # rev =>
        /\ Administrators(rev', db') \subseteq Administrators(rev, db)
        /\ \A u \in Administrators(rev, db) \cap There(db') :
            Alone(db.users[u].holds) /\ rev' >= PlaceOf("add_timestamps_and_user_role")
                => u \in Administrators(rev', db')]_vars

\* There is always a way up, but for two refusals: two open accounts whose
\* addresses differ in capitals only ("someone has to decide which one
\* survives"), and an account that was brought down while it held a role the
\* chain does not know.
UpgradeRefusedForCause ==
    rev < Latest /\ ~CanUpgrade =>
        \/ /\ Chain[rev + 1] = lowercase_existing_emails
           /\ \E u, v \in There(db) : u # v /\ db.users[u].email = db.users[v].email
                                          /\ ~db.users[u].closed /\ ~db.users[v].closed
        \/ /\ Chain[rev + 1] = add_roles_and_permissions
           /\ \E u \in There(db) : db.users[u].role \in RoleNames \cup {"member"}

=============================================================================
