-------------------------- MODULE MigrationsProofs --------------------------
(***************************************************************************)
(* The migrations, for any accounts, addresses and names of roles.         *)
(*                                                                         *)
(* Of the schema it is enough to know what each revision creates and       *)
(* drops.  Of the rows the invariant MigInv says, revision by revision,    *)
(* which column or table tells the role of an account, what the base roles *)
(* are called and granted there, and that the constraints in force hold;   *)
(* one lemma per revision that touches rows takes it up or down a step.    *)
(***************************************************************************)
EXTENDS Migrations, TLAPS

LEMMA ChainAt ==
    /\ Latest = 25
    /\ Chain[1] = initial_schema
    /\ Chain[2] = add_timestamps_and_user_role
    /\ Chain[3] = add_soft_delete
    /\ Chain[4] = add_request_logs_and_a_user_name
    /\ Chain[5] = add_user_preferences
    /\ Chain[6] = add_revocable_refresh_tokens
    /\ Chain[7] = add_per_account_feature_flags
    /\ Chain[8] = lowercase_existing_emails
    /\ Chain[9] = add_roles_and_permissions
    /\ Chain[10] = rename_the_admin_role
    /\ Chain[11] = let_an_account_hold_several_roles
    /\ Chain[12] = Gating(gate_settings)
    /\ Chain[13] = Gating(let_feature_flags_be_delegated)
    /\ Chain[14] = let_a_role_carry_feature_flags
    /\ Chain[15] = add_audit_logs
    /\ Chain[16] = Gating(gate_the_audit_log)
    /\ Chain[17] = Gating(add_the_impersonate_permission)
    /\ Chain[18] = Gating(add_the_user_delete_permission)
    /\ Chain[19] = add_an_item_version_counter
    /\ Chain[20] = add_idempotency_keys
    /\ Chain[21] = store_an_account_timezone
    /\ Chain[22] = add_single_use_account_tokens
    /\ Chain[23] = add_item_attachments
    /\ Chain[24] = stamp_when_a_password_changed
    /\ Chain[25] = add_indexes_and_cascade_deletes
BY DEF Chain, Latest

\* A revision whose downgrade restores what its upgrade dropped, and drops
\* what it created.
Is(c, name, adds, drops) ==
    /\ c.name = name
    /\ c.up.add = adds /\ c.up.drop = drops
    /\ c.down.add = drops /\ c.down.drop = adds

LEMMA AddingIs == ASSUME NEW name, NEW adds PROVE Is(Adding(name, adds), name, adds, {})
BY DEF Is, Adding, Rev

LEMMA GatingIs ==
    ASSUME NEW name, NEW key, NEW holders
    PROVE  Is(Gating(Gate(name, key, holders)), name, {}, {})
<1>1. Gate(name, key, holders).name = name
  BY DEF Gate
<1> QED  BY Zenon, <1>1, AddingIs DEF Gating

\* Every revision is one.
LEMMA Steps ==
    /\ Is(Chain[1], "initial_schema",
          {"users", "ix_users_email", "items", "fk_items_owner_id_users", "ix_items_owner_id"}, {})
    /\ Is(Chain[2], "add_timestamps_and_user_role",
          {"items.updated_at", "users.role", "users.updated_at", "uq_users_email"}, {"ix_users_email"})
    /\ Is(Chain[3], "add_soft_delete",
          {"items.deleted_at", "users.deleted_at", "uq_users_email_active"}, {"uq_users_email"})
    /\ Is(Chain[4], "add_request_logs_and_a_user_name",
          {"request_logs", "request_logs.id_int", "ix_request_logs_created_at", "ix_request_logs_request_id",
           "ix_request_logs_status_code", "ix_request_logs_user_id_created_at", "users.name"}, {})
    /\ Is(Chain[5], "add_user_preferences",
          {"user_preferences", "fk_user_preferences_user_id_users", "ix_user_preferences_user_id"}, {})
    /\ Is(Chain[6], "add_revocable_refresh_tokens",
          {"refresh_tokens", "fk_refresh_tokens_user_id_users", "ix_refresh_tokens_user_id"},
          {"ix_request_logs_status_code"})
    /\ Is(Chain[7], "add_per_account_feature_flags", {"user_preferences.features"}, {})
    /\ Is(Chain[8], "lowercase_existing_emails", {}, {})
    /\ Is(Chain[9], "add_roles_and_permissions",
          {"roles", "permissions", "role_permissions", "users.role_id", "fk_users_role_id_roles"}, {"users.role"})
    /\ Is(Chain[10], "rename_the_admin_role", {}, {})
    /\ Is(Chain[11], "let_an_account_hold_several_roles",
          {"user_roles"}, {"users.role_id", "fk_users_role_id_roles"})
    /\ Is(Chain[12], "gate_settings", {}, {})
    /\ Is(Chain[13], "let_feature_flags_be_delegated", {}, {})
    /\ Is(Chain[14], "let_a_role_carry_feature_flags", {"roles.features"}, {})
    /\ Is(Chain[15], "add_audit_logs",
          {"audit_logs", "ix_audit_logs_actor_id_occurred_at", "ix_audit_logs_occurred_at", "ix_audit_logs_request_id",
           "ix_audit_logs_table_name_row_pk"}, {})
    /\ Is(Chain[16], "gate_the_audit_log", {}, {})
    /\ Is(Chain[17], "add_the_impersonate_permission", {}, {})
    /\ Is(Chain[18], "add_the_user_delete_permission", {}, {})
    /\ Is(Chain[19], "add_an_item_version_counter", {"items.version"}, {})
    /\ Is(Chain[20], "add_idempotency_keys",
          {"idempotency_keys", "ix_idempotency_keys_created_at", "ix_idempotency_keys_user_id"}, {})
    /\ Is(Chain[21], "store_an_account_timezone", {"user_preferences.timezone"}, {})
    /\ Is(Chain[22], "add_single_use_account_tokens",
          {"single_use_tokens", "fk_single_use_tokens_user_id_users", "ix_single_use_tokens_user_id",
           "users.email_verified_at"}, {})
    /\ Is(Chain[23], "add_item_attachments",
          {"attachments", "fk_attachments_item_id_items", "ix_attachments_item_id"}, {})
    /\ Is(Chain[24], "stamp_when_a_password_changed", {"users.password_changed_at"}, {})
    /\ Is(Chain[25], "add_indexes_and_cascade_deletes",
          {"attachments.item_id_cascade", "items.owner_id_cascade", "refresh_tokens.user_id_cascade",
           "single_use_tokens.user_id_cascade", "user_preferences.user_id_cascade",
           "ix_items_owner_id_deleted_at", "request_logs.id_bigint"}, {"ix_items_owner_id", "request_logs.id_int"})
<1>1. Is(initial_schema, "initial_schema",
         {"users", "ix_users_email", "items", "fk_items_owner_id_users", "ix_items_owner_id"}, {})
  BY Zenon, AddingIs DEF initial_schema
<1>2. Is(add_timestamps_and_user_role, "add_timestamps_and_user_role",
         {"items.updated_at", "users.role", "users.updated_at", "uq_users_email"}, {"ix_users_email"})
  BY DEF Is, add_timestamps_and_user_role, Rev
<1>3. Is(add_soft_delete, "add_soft_delete",
         {"items.deleted_at", "users.deleted_at", "uq_users_email_active"}, {"uq_users_email"})
  BY DEF Is, add_soft_delete, Rev
<1>4. Is(add_request_logs_and_a_user_name, "add_request_logs_and_a_user_name",
         {"request_logs", "request_logs.id_int", "ix_request_logs_created_at", "ix_request_logs_request_id",
          "ix_request_logs_status_code", "ix_request_logs_user_id_created_at", "users.name"}, {})
  BY Zenon, AddingIs DEF add_request_logs_and_a_user_name
<1>5. Is(add_user_preferences, "add_user_preferences",
         {"user_preferences", "fk_user_preferences_user_id_users", "ix_user_preferences_user_id"}, {})
  BY Zenon, AddingIs DEF add_user_preferences
<1>6. Is(add_revocable_refresh_tokens, "add_revocable_refresh_tokens",
         {"refresh_tokens", "fk_refresh_tokens_user_id_users", "ix_refresh_tokens_user_id"}, {"ix_request_logs_status_code"})
  BY DEF Is, add_revocable_refresh_tokens, Rev
<1>7. Is(add_per_account_feature_flags, "add_per_account_feature_flags", {"user_preferences.features"}, {})
  BY Zenon, AddingIs DEF add_per_account_feature_flags
<1>8. Is(lowercase_existing_emails, "lowercase_existing_emails", {}, {})
  BY Zenon, AddingIs DEF lowercase_existing_emails
<1>9. Is(add_roles_and_permissions, "add_roles_and_permissions",
         {"roles", "permissions", "role_permissions", "users.role_id", "fk_users_role_id_roles"}, {"users.role"})
  BY DEF Is, add_roles_and_permissions, Rev
<1>10. Is(rename_the_admin_role, "rename_the_admin_role", {}, {})
  BY Zenon, AddingIs DEF rename_the_admin_role
<1>11. Is(let_an_account_hold_several_roles, "let_an_account_hold_several_roles",
          {"user_roles"}, {"users.role_id", "fk_users_role_id_roles"})
  BY DEF Is, let_an_account_hold_several_roles, Rev
<1>12. Is(Gating(gate_settings), "gate_settings", {}, {})
  BY Zenon, GatingIs DEF gate_settings
<1>13. Is(Gating(let_feature_flags_be_delegated), "let_feature_flags_be_delegated", {}, {})
  BY Zenon, GatingIs DEF let_feature_flags_be_delegated
<1>14. Is(let_a_role_carry_feature_flags, "let_a_role_carry_feature_flags", {"roles.features"}, {})
  BY Zenon, AddingIs DEF let_a_role_carry_feature_flags
<1>15. Is(add_audit_logs, "add_audit_logs",
          {"audit_logs", "ix_audit_logs_actor_id_occurred_at", "ix_audit_logs_occurred_at", "ix_audit_logs_request_id",
           "ix_audit_logs_table_name_row_pk"}, {})
  BY Zenon, AddingIs DEF add_audit_logs
<1>16. Is(Gating(gate_the_audit_log), "gate_the_audit_log", {}, {})
  BY Zenon, GatingIs DEF gate_the_audit_log
<1>17. Is(Gating(add_the_impersonate_permission), "add_the_impersonate_permission", {}, {})
  BY Zenon, GatingIs DEF add_the_impersonate_permission
<1>18. Is(Gating(add_the_user_delete_permission), "add_the_user_delete_permission", {}, {})
  BY Zenon, GatingIs DEF add_the_user_delete_permission
<1>19. Is(add_an_item_version_counter, "add_an_item_version_counter", {"items.version"}, {})
  BY Zenon, AddingIs DEF add_an_item_version_counter
<1>20. Is(add_idempotency_keys, "add_idempotency_keys",
          {"idempotency_keys", "ix_idempotency_keys_created_at", "ix_idempotency_keys_user_id"}, {})
  BY Zenon, AddingIs DEF add_idempotency_keys
<1>21. Is(store_an_account_timezone, "store_an_account_timezone", {"user_preferences.timezone"}, {})
  BY Zenon, AddingIs DEF store_an_account_timezone
<1>22. Is(add_single_use_account_tokens, "add_single_use_account_tokens",
          {"single_use_tokens", "fk_single_use_tokens_user_id_users", "ix_single_use_tokens_user_id",
           "users.email_verified_at"}, {})
  BY Zenon, AddingIs DEF add_single_use_account_tokens
<1>23. Is(add_item_attachments, "add_item_attachments",
          {"attachments", "fk_attachments_item_id_items", "ix_attachments_item_id"}, {})
  BY Zenon, AddingIs DEF add_item_attachments
<1>24. Is(stamp_when_a_password_changed, "stamp_when_a_password_changed", {"users.password_changed_at"}, {})
  BY Zenon, AddingIs DEF stamp_when_a_password_changed
<1>25. Is(add_indexes_and_cascade_deletes, "add_indexes_and_cascade_deletes",
          {"attachments.item_id_cascade", "items.owner_id_cascade", "refresh_tokens.user_id_cascade",
           "single_use_tokens.user_id_cascade", "user_preferences.user_id_cascade",
           "ix_items_owner_id_deleted_at", "request_logs.id_bigint"}, {"ix_items_owner_id", "request_logs.id_int"})
  BY DEF Is, add_indexes_and_cascade_deletes, Rev
<1> QED
  BY Zenon, ChainAt, <1>1, <1>2, <1>3, <1>4, <1>5, <1>6, <1>7, <1>8, <1>9, <1>10, <1>11, <1>12, <1>13,
         <1>14, <1>15, <1>16, <1>17, <1>18, <1>19, <1>20, <1>21, <1>22, <1>23, <1>24, <1>25

LEMMA Names ==
    /\ Chain[1].name = "initial_schema"
    /\ Chain[2].name = "add_timestamps_and_user_role"
    /\ Chain[3].name = "add_soft_delete"
    /\ Chain[4].name = "add_request_logs_and_a_user_name"
    /\ Chain[5].name = "add_user_preferences"
    /\ Chain[6].name = "add_revocable_refresh_tokens"
    /\ Chain[7].name = "add_per_account_feature_flags"
    /\ Chain[8].name = "lowercase_existing_emails"
    /\ Chain[9].name = "add_roles_and_permissions"
    /\ Chain[10].name = "rename_the_admin_role"
    /\ Chain[11].name = "let_an_account_hold_several_roles"
    /\ Chain[12].name = "gate_settings"
    /\ Chain[13].name = "let_feature_flags_be_delegated"
    /\ Chain[14].name = "let_a_role_carry_feature_flags"
    /\ Chain[15].name = "add_audit_logs"
    /\ Chain[16].name = "gate_the_audit_log"
    /\ Chain[17].name = "add_the_impersonate_permission"
    /\ Chain[18].name = "add_the_user_delete_permission"
    /\ Chain[19].name = "add_an_item_version_counter"
    /\ Chain[20].name = "add_idempotency_keys"
    /\ Chain[21].name = "store_an_account_timezone"
    /\ Chain[22].name = "add_single_use_account_tokens"
    /\ Chain[23].name = "add_item_attachments"
    /\ Chain[24].name = "stamp_when_a_password_changed"
    /\ Chain[25].name = "add_indexes_and_cascade_deletes"
BY Zenon, Steps DEF Is

LEMMA Adds ==
    /\ Chain[1].up.add = {"users", "ix_users_email", "items", "fk_items_owner_id_users", "ix_items_owner_id"}
    /\ Chain[2].up.add = {"items.updated_at", "users.role", "users.updated_at", "uq_users_email"}
    /\ Chain[3].up.add = {"items.deleted_at", "users.deleted_at", "uq_users_email_active"}
    /\ Chain[4].up.add = {"request_logs", "request_logs.id_int", "ix_request_logs_created_at",
                          "ix_request_logs_request_id", "ix_request_logs_status_code",
                          "ix_request_logs_user_id_created_at", "users.name"}
    /\ Chain[5].up.add = {"user_preferences", "fk_user_preferences_user_id_users", "ix_user_preferences_user_id"}
    /\ Chain[6].up.add = {"refresh_tokens", "fk_refresh_tokens_user_id_users", "ix_refresh_tokens_user_id"}
    /\ Chain[7].up.add = {"user_preferences.features"}
    /\ Chain[8].up.add = {}
    /\ Chain[9].up.add = {"roles", "permissions", "role_permissions", "users.role_id", "fk_users_role_id_roles"}
    /\ Chain[10].up.add = {}
    /\ Chain[11].up.add = {"user_roles"}
    /\ Chain[12].up.add = {}
    /\ Chain[13].up.add = {}
    /\ Chain[14].up.add = {"roles.features"}
    /\ Chain[15].up.add = {"audit_logs", "ix_audit_logs_actor_id_occurred_at", "ix_audit_logs_occurred_at",
                           "ix_audit_logs_request_id", "ix_audit_logs_table_name_row_pk"}
    /\ Chain[16].up.add = {}
    /\ Chain[17].up.add = {}
    /\ Chain[18].up.add = {}
    /\ Chain[19].up.add = {"items.version"}
    /\ Chain[20].up.add = {"idempotency_keys", "ix_idempotency_keys_created_at", "ix_idempotency_keys_user_id"}
    /\ Chain[21].up.add = {"user_preferences.timezone"}
    /\ Chain[22].up.add = {"single_use_tokens", "fk_single_use_tokens_user_id_users",
                           "ix_single_use_tokens_user_id", "users.email_verified_at"}
    /\ Chain[23].up.add = {"attachments", "fk_attachments_item_id_items", "ix_attachments_item_id"}
    /\ Chain[24].up.add = {"users.password_changed_at"}
    /\ Chain[25].up.add = {"attachments.item_id_cascade", "items.owner_id_cascade",
                           "refresh_tokens.user_id_cascade", "single_use_tokens.user_id_cascade",
                           "user_preferences.user_id_cascade", "ix_items_owner_id_deleted_at",
                           "request_logs.id_bigint"}
BY ZenonT(60), Steps DEF Is

LEMMA Drops ==
    /\ Chain[2].up.drop = {"ix_users_email"}
    /\ Chain[3].up.drop = {"uq_users_email"}
    /\ Chain[6].up.drop = {"ix_request_logs_status_code"}
    /\ Chain[9].up.drop = {"users.role"}
    /\ Chain[11].up.drop = {"users.role_id", "fk_users_role_id_roles"}
    /\ Chain[25].up.drop = {"ix_items_owner_id", "request_logs.id_int"}
    /\ \A n \in (1..Latest) \ {2, 3, 6, 9, 11, 25} : Chain[n].up.drop = {}
BY ChainAt, Steps DEF Is

\* A downgrade restores what the upgrade dropped and drops what it added.
TakenBack(n) == Chain[n].down.add = Chain[n].up.drop /\ Chain[n].down.drop = Chain[n].up.add

LEMMA IsTakenBack ==
    ASSUME NEW n, NEW name, NEW adds, NEW drops, Is(Chain[n], name, adds, drops)
    PROVE  TakenBack(n)
BY Zenon DEF Is, TakenBack

LEMMA DownUndoesUp == \A n \in 1..Latest : TakenBack(n)
<1>1. TakenBack(1)
  BY Zenon, Steps, IsTakenBack
<1>2. TakenBack(2)
  BY Zenon, Steps, IsTakenBack
<1>3. TakenBack(3)
  BY Zenon, Steps, IsTakenBack
<1>4. TakenBack(4)
  BY Zenon, Steps, IsTakenBack
<1>5. TakenBack(5)
  BY Zenon, Steps, IsTakenBack
<1>6. TakenBack(6)
  BY Zenon, Steps, IsTakenBack
<1>7. TakenBack(7)
  BY Zenon, Steps, IsTakenBack
<1>8. TakenBack(8)
  BY Zenon, Steps, IsTakenBack
<1>9. TakenBack(9)
  BY Zenon, Steps, IsTakenBack
<1>10. TakenBack(10)
  BY Zenon, Steps, IsTakenBack
<1>11. TakenBack(11)
  BY Zenon, Steps, IsTakenBack
<1>12. TakenBack(12)
  BY Zenon, Steps, IsTakenBack
<1>13. TakenBack(13)
  BY Zenon, Steps, IsTakenBack
<1>14. TakenBack(14)
  BY Zenon, Steps, IsTakenBack
<1>15. TakenBack(15)
  BY Zenon, Steps, IsTakenBack
<1>16. TakenBack(16)
  BY Zenon, Steps, IsTakenBack
<1>17. TakenBack(17)
  BY Zenon, Steps, IsTakenBack
<1>18. TakenBack(18)
  BY Zenon, Steps, IsTakenBack
<1>19. TakenBack(19)
  BY Zenon, Steps, IsTakenBack
<1>20. TakenBack(20)
  BY Zenon, Steps, IsTakenBack
<1>21. TakenBack(21)
  BY Zenon, Steps, IsTakenBack
<1>22. TakenBack(22)
  BY Zenon, Steps, IsTakenBack
<1>23. TakenBack(23)
  BY Zenon, Steps, IsTakenBack
<1>24. TakenBack(24)
  BY Zenon, Steps, IsTakenBack
<1>25. TakenBack(25)
  BY Zenon, Steps, IsTakenBack
<1> QED
  BY ChainAt, <1>1, <1>2, <1>3, <1>4, <1>5, <1>6, <1>7, <1>8, <1>9, <1>10, <1>11, <1>12, <1>13,
     <1>14, <1>15, <1>16, <1>17, <1>18, <1>19, <1>20, <1>21, <1>22, <1>23, <1>24, <1>25

\* No revision creates what another creates.
LEMMA CreatedOnce ==
    ASSUME NEW k \in 1..Latest, NEW m \in 1..Latest, NEW c, c \in Chain[k].up.add, c \in Chain[m].up.add
    PROVE  k = m
BY SMTT(60), Adds, ChainAt

\* What a revision drops was created by one before it, and dropped by none
\* other.
LEMMA DroppedWasThere ==
    ASSUME NEW n \in 1..Latest, NEW c \in Chain[n].up.drop
    PROVE  /\ \E k \in 1..(n - 1) : c \in Chain[k].up.add
           /\ \A m \in 1..Latest : c \in Chain[m].up.drop => m = n
<1>1. n \in {2, 3, 6, 9, 11, 25}
  BY Drops
<1>2. \E k \in 1..(n - 1) : c \in Chain[k].up.add
  BY <1>1, Drops, Adds
<1>3. \A m \in 1..Latest : c \in Chain[m].up.drop => m = n
  BY <1>1, Drops
<1> QED  BY Zenon, <1>2, <1>3

LEMMA SchemaBegins == SchemaAt(0) = {}
BY DEF SchemaAt

\* The upgrade takes the schema of a fresh database to the next.
LEMMA UpStep ==
    ASSUME NEW n \in 1..Latest
    PROVE  SchemaAt(n) = Applied(SchemaAt(n - 1), Chain[n].up)
BY ChainAt DEF SchemaAt, Applied

\* And the downgrade takes it back.
LEMMA DownStep ==
    ASSUME NEW n \in 1..Latest
    PROVE  SchemaAt(n - 1) = Applied(SchemaAt(n), Chain[n].down)
<1> DEFINE was == SchemaAt(n - 1)
           step == Chain[n].up
<1>1. Latest \in Nat
  BY ChainAt
<1>2. ASSUME NEW c \in was PROVE c \notin step.add
  <2>1. PICK k \in 1..(n - 1) : c \in Chain[k].up.add
    BY DEF SchemaAt
  <2>2. k \in 1..Latest /\ k # n
    BY <1>1
  <2> QED  BY <2>1, <2>2, CreatedOnce
<1>3. ASSUME NEW c \in step.drop PROVE c \in was
  <2>1. PICK k \in 1..(n - 1) : c \in Chain[k].up.add
    BY <1>3, DroppedWasThere
  <2>2. \A m \in (k + 1)..(n - 1) : c \notin Chain[m].up.drop
    <3> SUFFICES ASSUME NEW m \in (k + 1)..(n - 1), c \in Chain[m].up.drop PROVE FALSE
      OBVIOUS
    <3>1. m \in 1..Latest /\ m # n
      BY <1>1
    <3> QED  BY <1>3, <3>1, DroppedWasThere
  <2> QED  BY <2>1, <2>2 DEF SchemaAt
<1>4. SchemaAt(n) = (was \ step.drop) \cup step.add
  BY UpStep DEF Applied
<1>5. Applied(SchemaAt(n), Chain[n].down) = (SchemaAt(n) \ step.add) \cup step.drop
  BY DownUndoesUp DEF TakenBack, Applied
<1> HIDE DEF was, step
<1> QED  BY Zenon, <1>2, <1>3, <1>4, <1>5 DEF was

\* What one revision creates, and a later one drops or none, is there in
\* between.
Lives(c, a, z) ==
    /\ a \in 1..25 /\ z \in 1..26 /\ a < z
    /\ \A k \in 1..25 : c \in Chain[k].up.add <=> k = a
    /\ \A k \in 1..25 : c \in Chain[k].up.drop <=> k = z

LEMMA Between ==
    ASSUME NEW c, NEW a, NEW z, Lives(c, a, z), NEW n \in 0..25
    PROVE  c \in SchemaAt(n) <=> a <= n /\ n < z
<1> USE DEF Lives
<1>1. CASE a <= n /\ n < z
  <2>1. a \in 1..n /\ \A m \in (a + 1)..n : m \in 1..25 /\ m # z
    BY <1>1
  <2>2. c \in Chain[a].up.add /\ \A m \in (a + 1)..n : c \notin Chain[m].up.drop
    BY Zenon, <2>1
  <2> QED  BY <1>1, <2>1, <2>2 DEF SchemaAt
<1>2. ASSUME c \in SchemaAt(n) PROVE a <= n /\ n < z
  <2>1. PICK k \in 1..n : c \in Chain[k].up.add /\ \A m \in (k + 1)..n : c \notin Chain[m].up.drop
    BY <1>2 DEF SchemaAt
  <2>2. k \in 1..25
    BY SMTT(60)
  <2>3. k = a
    BY Zenon, <2>1, <2>2
  <2>4. ASSUME z <= n PROVE FALSE
    <3>1. z \in (k + 1)..n /\ z \in 1..25
      BY <2>3, <2>4
    <3> QED  BY Zenon, <2>1, <3>1
  <2> QED  BY <2>3, <2>4
<1> QED  BY Zenon, <1>1, <1>2

\* When what the rows depend on is there.
LEMMA InForce ==
    ASSUME NEW n \in 0..Latest
    PROVE  /\ "ix_users_email" \in SchemaAt(n) <=> n = 1
           /\ "uq_users_email" \in SchemaAt(n) <=> n = 2
           /\ "uq_users_email_active" \in SchemaAt(n) <=> n >= 3
           /\ "users.role" \in SchemaAt(n) <=> n \in 2..8
           /\ "users.role_id" \in SchemaAt(n) <=> n \in 9..10
           /\ "roles" \in SchemaAt(n) <=> n >= 9
<1>1. n \in 0..25 /\ Latest = 25
  BY ChainAt
<1>2. \A k \in 1..25 :
        /\ "ix_users_email" \in Chain[k].up.add <=> k = 1
        /\ "uq_users_email" \in Chain[k].up.add <=> k = 2
        /\ "uq_users_email_active" \in Chain[k].up.add <=> k = 3
        /\ "users.role" \in Chain[k].up.add <=> k = 2
        /\ "users.role_id" \in Chain[k].up.add <=> k = 9
        /\ "roles" \in Chain[k].up.add <=> k = 9
  BY SMTT(60), Adds
<1>3. \A k \in 1..25 :
        /\ "ix_users_email" \in Chain[k].up.drop <=> k = 2
        /\ "uq_users_email" \in Chain[k].up.drop <=> k = 3
        /\ "uq_users_email_active" \in Chain[k].up.drop <=> k = 26
        /\ "users.role" \in Chain[k].up.drop <=> k = 9
        /\ "users.role_id" \in Chain[k].up.drop <=> k = 11
        /\ "roles" \in Chain[k].up.drop <=> k = 26
  BY SMTT(60), <1>1, Drops
<1>4. "ix_users_email" \in SchemaAt(n) <=> 1 <= n /\ n < 2
  <2>1. Lives("ix_users_email", 1, 2)
    BY <1>2, <1>3 DEF Lives
  <2> QED  BY Zenon, <1>1, <2>1, Between
<1>5. "uq_users_email" \in SchemaAt(n) <=> 2 <= n /\ n < 3
  <2>1. Lives("uq_users_email", 2, 3)
    BY <1>2, <1>3 DEF Lives
  <2> QED  BY ZenonT(60), <1>1, <2>1, Between
<1>6. "uq_users_email_active" \in SchemaAt(n) <=> 3 <= n /\ n < 26
  <2>1. Lives("uq_users_email_active", 3, 26)
    BY <1>2, <1>3 DEF Lives
  <2> QED  BY ZenonT(60), <1>1, <2>1, Between
<1>7. "users.role" \in SchemaAt(n) <=> 2 <= n /\ n < 9
  <2>1. Lives("users.role", 2, 9)
    BY <1>2, <1>3 DEF Lives
  <2> QED  BY ZenonT(60), <1>1, <2>1, Between
<1>8. "users.role_id" \in SchemaAt(n) <=> 9 <= n /\ n < 11
  <2>1. Lives("users.role_id", 9, 11)
    BY <1>2, <1>3 DEF Lives
  <2> QED  BY ZenonT(60), <1>1, <2>1, Between
<1>9. "roles" \in SchemaAt(n) <=> 9 <= n /\ n < 26
  <2>1. Lives("roles", 9, 26)
    BY <1>2, <1>3 DEF Lives
  <2> QED  BY ZenonT(60), <1>1, <2>1, Between
<1> QED  BY <1>1, <1>4, <1>5, <1>6, <1>7, <1>8, <1>9

-----------------------------------------------------------------------------
(* What the revisions do to the rows.                                      *)

LEMMA GateNames ==
    /\ {gate.name : gate \in Gates} =
         {"gate_settings", "let_feature_flags_be_delegated", "gate_the_audit_log",
          "add_the_impersonate_permission", "add_the_user_delete_permission"}
    /\ GateOf("gate_settings") = gate_settings
    /\ GateOf("let_feature_flags_be_delegated") = let_feature_flags_be_delegated
    /\ GateOf("gate_the_audit_log") = gate_the_audit_log
    /\ GateOf("add_the_impersonate_permission") = add_the_impersonate_permission
    /\ GateOf("add_the_user_delete_permission") = add_the_user_delete_permission
<1>1. /\ gate_settings.name = "gate_settings"
      /\ let_feature_flags_be_delegated.name = "let_feature_flags_be_delegated"
      /\ gate_the_audit_log.name = "gate_the_audit_log"
      /\ add_the_impersonate_permission.name = "add_the_impersonate_permission"
      /\ add_the_user_delete_permission.name = "add_the_user_delete_permission"
  BY DEF gate_settings, let_feature_flags_be_delegated, gate_the_audit_log, add_the_impersonate_permission,
         add_the_user_delete_permission, Gate
<1> QED  BY <1>1 DEF Gates, GateOf

\* The gate a revision is.
Gated == {12, 13, 16, 17, 18}
GateAt(n) ==
    CASE n = 12 -> gate_settings
      [] n = 13 -> let_feature_flags_be_delegated
      [] n = 16 -> gate_the_audit_log
      [] n = 17 -> add_the_impersonate_permission
      [] n = 18 -> add_the_user_delete_permission

\* Eight revisions of the way up change rows, and eleven of the way down.
Plain == 1..25 \ ({2, 8, 9, 10} \cup Gated)
PlainBack == 1..25 \ ({1, 2, 3, 9, 10, 11} \cup Gated)

LEMMA GateName ==
    ASSUME NEW n \in Gated
    PROVE  /\ Chain[n].name \in {gate.name : gate \in Gates}
           /\ GateOf(Chain[n].name) = GateAt(n)
<1>1. /\ Chain[12].name = "gate_settings"
      /\ Chain[13].name = "let_feature_flags_be_delegated"
      /\ Chain[16].name = "gate_the_audit_log"
      /\ Chain[17].name = "add_the_impersonate_permission"
      /\ Chain[18].name = "add_the_user_delete_permission"
  BY Zenon, Names
<1> QED  BY <1>1, GateNames DEF Gated, GateAt

LEMMA Ups ==
    ASSUME NEW d
    PROVE  /\ Upgraded(Chain[2].name, d) = EachUser(d, LAMBDA u : [u EXCEPT !.role = "user"])
           /\ Upgraded(Chain[8].name, d) = lower(d)
           /\ Upgraded(Chain[9].name, d) = roles_from_names(d)
           /\ Upgraded(Chain[10].name, d) = rename(d, "admin", "superadmin")
           /\ \A n \in Gated : Upgraded(Chain[n].name, d) = grant(d, GateAt(n))
           /\ \A n \in Plain : Upgraded(Chain[n].name, d) = d
<1> DEFINE Few == {"add_timestamps_and_user_role", "lowercase_existing_emails", "add_roles_and_permissions",
                   "rename_the_admin_role"}
<1>1. /\ Chain[2].name = "add_timestamps_and_user_role"
      /\ Chain[8].name = "lowercase_existing_emails"
      /\ Chain[9].name = "add_roles_and_permissions"
      /\ Chain[10].name = "rename_the_admin_role"
  BY Zenon, Names
<1>2. Upgraded(Chain[2].name, d) = EachUser(d, LAMBDA u : [u EXCEPT !.role = "user"])
  BY <1>1, GateNames DEF Upgraded
<1>3. Upgraded(Chain[8].name, d) = lower(d)
  BY <1>1, GateNames DEF Upgraded
<1>4. Upgraded(Chain[9].name, d) = roles_from_names(d)
  BY <1>1, GateNames DEF Upgraded
<1>5. Upgraded(Chain[10].name, d) = rename(d, "admin", "superadmin")
  BY <1>1, GateNames DEF Upgraded
<1>6. \A n \in Gated : Upgraded(Chain[n].name, d) = grant(d, GateAt(n))
  <2> SUFFICES ASSUME NEW n \in Gated PROVE Upgraded(Chain[n].name, d) = grant(d, GateAt(n))
    OBVIOUS
  <2>1. Chain[n].name \notin Few
    BY Zenon, GateName, GateNames
  <2> QED  BY Zenon, <2>1, GateName DEF Upgraded
<1>7. \A n \in Plain : Upgraded(Chain[n].name, d) = d
  <2> SUFFICES ASSUME NEW n \in Plain PROVE Upgraded(Chain[n].name, d) = d
    OBVIOUS
  <2>1. Chain[n].name \notin Few /\ Chain[n].name \notin {gate.name : gate \in Gates}
    <3>1. n \in {1, 3, 4, 5, 6, 7, 11, 14, 15, 19, 20, 21, 22, 23, 24, 25}
      BY DEF Plain, Gated
    <3>2. Chain[n].name \notin Few \cup {"gate_settings", "let_feature_flags_be_delegated", "gate_the_audit_log",
                                         "add_the_impersonate_permission", "add_the_user_delete_permission"}
      BY SMTT(60), <3>1, Names
    <3> QED  BY Zenon, <3>2, GateNames
  <2> QED  BY Zenon, <2>1 DEF Upgraded
<1> QED  BY Zenon, <1>2, <1>3, <1>4, <1>5, <1>6, <1>7

LEMMA Downs ==
    ASSUME NEW d
    PROVE  /\ Downgraded(Chain[1].name, d) = Empty
           /\ Downgraded(Chain[2].name, d) = EachUser(d, LAMBDA u : [u EXCEPT !.role = None])
           /\ Downgraded(Chain[3].name, d) = EachUser(d, LAMBDA u : [u EXCEPT !.closed = FALSE])
           /\ Downgraded(Chain[9].name, d) = names_from_roles(d)
           /\ Downgraded(Chain[10].name, d) = rename(d, "superadmin", "admin")
           /\ Downgraded(Chain[11].name, d) = one_role(d)
           /\ \A n \in Gated : Downgraded(Chain[n].name, d) = revoke(d, GateAt(n))
           /\ \A n \in PlainBack : Downgraded(Chain[n].name, d) = d
<1> DEFINE Few == {"initial_schema", "add_timestamps_and_user_role", "add_soft_delete", "add_roles_and_permissions",
                   "rename_the_admin_role", "let_an_account_hold_several_roles"}
<1>1. /\ Chain[1].name = "initial_schema"
      /\ Chain[2].name = "add_timestamps_and_user_role"
      /\ Chain[3].name = "add_soft_delete"
      /\ Chain[9].name = "add_roles_and_permissions"
      /\ Chain[10].name = "rename_the_admin_role"
      /\ Chain[11].name = "let_an_account_hold_several_roles"
  BY Zenon, Names
<1>2. Downgraded(Chain[1].name, d) = Empty
  BY <1>1, GateNames DEF Downgraded
<1>3. Downgraded(Chain[2].name, d) = EachUser(d, LAMBDA u : [u EXCEPT !.role = None])
  BY <1>1, GateNames DEF Downgraded
<1>4. Downgraded(Chain[3].name, d) = EachUser(d, LAMBDA u : [u EXCEPT !.closed = FALSE])
  BY <1>1, GateNames DEF Downgraded
<1>5. Downgraded(Chain[9].name, d) = names_from_roles(d)
  BY <1>1, GateNames DEF Downgraded
<1>6. Downgraded(Chain[10].name, d) = rename(d, "superadmin", "admin")
  BY <1>1, GateNames DEF Downgraded
<1>7. Downgraded(Chain[11].name, d) = one_role(d)
  BY <1>1, GateNames DEF Downgraded
<1>8. \A n \in Gated : Downgraded(Chain[n].name, d) = revoke(d, GateAt(n))
  <2> SUFFICES ASSUME NEW n \in Gated PROVE Downgraded(Chain[n].name, d) = revoke(d, GateAt(n))
    OBVIOUS
  <2>1. Chain[n].name \notin Few
    BY Zenon, GateName, GateNames
  <2> QED  BY Zenon, <2>1, GateName DEF Downgraded
<1>9. \A n \in PlainBack : Downgraded(Chain[n].name, d) = d
  <2> SUFFICES ASSUME NEW n \in PlainBack PROVE Downgraded(Chain[n].name, d) = d
    OBVIOUS
  <2>1. Chain[n].name \notin Few /\ Chain[n].name \notin {gate.name : gate \in Gates}
    <3>1. n \in {4, 5, 6, 7, 8, 14, 15, 19, 20, 21, 22, 23, 24, 25}
      BY DEF PlainBack, Gated
    <3>2. Chain[n].name \notin Few \cup {"gate_settings", "let_feature_flags_be_delegated", "gate_the_audit_log",
                                         "add_the_impersonate_permission", "add_the_user_delete_permission"}
      BY SMTT(60), <3>1, Names
    <3> QED  BY Zenon, <3>2, GateNames
  <2> QED  BY Zenon, <2>1 DEF Downgraded
<1> QED  BY Zenon, <1>2, <1>3, <1>4, <1>5, <1>6, <1>7, <1>8, <1>9

-----------------------------------------------------------------------------
(* The invariant, of the rows d and the edited roles t at the revision n.  *)

Rank(n) == IF n >= 10 THEN "superadmin" ELSE "admin"

\* What the base roles are granted, and what can be granted.
GatesBy(n) == {k \in Gated : k <= n}
AdminGrants(n) == GRANTS.admin \cup {All(GateAt(k).key[1], GateAt(k).key[2]) : k \in GatesBy(n)}
UserGrants(n) == GRANTS.user \cup (IF n >= 12 THEN {All("settings", "read")} ELSE {})
Grantable(n) == Keys(GRANTS.user \cup GRANTS.admin) \cup {GateAt(k).key : k \in GatesBy(n)}

\* The tables of the roles hold what the revision made them hold.  The role of
\* the administrators has the id 2 and is never edited.
RolesAt(n, d, t) ==
    IF n < 9
    THEN d.roles = Empty.roles /\ d.permissions = {} /\ t = {}
    ELSE /\ d.permissions = Grantable(n)
         /\ d.roles[2] = [name |-> Rank(n), grants |-> AdminGrants(n)]
         /\ d.roles[1].name \in {"user", "member"}
         /\ t = {} => d.roles[1] = [name |-> "user", grants |-> UserGrants(n)]
         /\ d.roles[3] = NoRole \/ d.roles[3].name \in RoleNames \ {"superadmin"}

\* An account has its role in the column of its time.
UsersAt(n, d) ==
    \A u \in Users :
        \/ d.users[u] = NoUser
        \/ /\ n > 0
           /\ d.users[u].email \in Addresses
           /\ n \notin 2..8 => d.users[u].role = None
           /\ n < 9 => d.users[u].holds = {}

\* What the constraints of the revision allow.
Open(d) == {u \in There(d) : ~d.users[u].closed}
Distinct(d) == \A i, j \in RoleIds : i # j /\ d.roles[i] # NoRole => d.roles[i].name # d.roles[j].name
Fits(n, d) ==
    /\ n \in 1..2 => Unique(d, There(d))
    /\ n >= 3 => Unique(d, Open(d))
    /\ Distinct(d)
    /\ n \in 2..8 => \A u \in There(d) : d.users[u].role \notin {None, Long}
    /\ n \in 9..10 => \A u \in There(d) : One(d.users[u].holds)

Sound(n, d, t) == d \in Database /\ Fits(n, d) /\ RolesAt(n, d, t) /\ UsersAt(n, d)

MigInv ==
    /\ rev \in 0..Latest
    /\ touched \subseteq {"user"}
    /\ schema = SchemaAt(rev)
    /\ Sound(rev, db, touched)

LEMMA FitsIsAllowed ==
    ASSUME NEW n \in 0..Latest, NEW d
    PROVE  Allowed(d, SchemaAt(n)) <=> Fits(n, d)
<1>1. n \in Int /\ n >= 0
  BY ChainAt
<1> QED  BY <1>1, InForce DEF Allowed, Fits, Distinct, Open

-----------------------------------------------------------------------------
(* The rows of the accounts.                                               *)

SameRoles(d, e) == e.roles = d.roles /\ e.permissions = d.permissions
UsersNow(d, e, f) == e \in Database /\ e.users = f /\ SameRoles(d, e)

LEMMA NewUsers ==
    ASSUME NEW d \in Database, NEW f \in [Users -> User], NEW e, e = [d EXCEPT !.users = f]
    PROVE  UsersNow(d, e, f)
<1>1. e \in Database
  BY Zenon DEF Database
<1>2. e.users = f /\ SameRoles(d, e)
  BY <1>1 DEF Database, SameRoles
<1> QED  BY Zenon, <1>1, <1>2 DEF UsersNow

Reroled(d, e, f, p) ==
    /\ f \in [RoleIds -> Role] /\ p \in SUBSET Permissions
    /\ \/ e = [d EXCEPT !.permissions = p, !.roles = f]
       \/ e = [d EXCEPT !.roles = f, !.permissions = p]
       \/ e = [d EXCEPT !.roles = f] /\ p = d.permissions

RolesNow(d, e, f, p) == e \in Database /\ e.users = d.users /\ e.roles = f /\ e.permissions = p

LEMMA NewRoles ==
    ASSUME NEW d \in Database, NEW e, NEW f, NEW p, Reroled(d, e, f, p)
    PROVE  RolesNow(d, e, f, p)
<1>1. e \in Database
  BY Zenon DEF Database, Reroled
<1> QED  BY <1>1 DEF Database, Reroled, RolesNow

\* The accounts of d, and nothing else, are given other values in e; nobody
\* comes or goes.
Addressed(d) == \A u \in Users : d.users[u] = NoUser \/ d.users[u].email \in Addresses
SameUsers(d, e) ==
    \A u \in Users : /\ e.users[u] = NoUser <=> d.users[u] = NoUser
                     /\ e.users[u].email = d.users[u].email

Renewing(d, f) ==
    /\ f \in [Users -> User]
    /\ \A u \in Users : IF u \in There(d) THEN f[u].email = d.users[u].email ELSE f[u] = NoUser

Only(d, e, f) == e \in Database /\ e.users = f /\ SameRoles(d, e) /\ SameUsers(d, e)

LEMMA Renewed ==
    ASSUME NEW d \in Database, Addressed(d), NEW f, Renewing(d, f), NEW e, e = [d EXCEPT !.users = f]
    PROVE  Only(d, e, f)
<1>1. e \in Database /\ e.users = f /\ SameRoles(d, e)
  BY Zenon, NewUsers DEF UsersNow, Renewing
<1>2. ASSUME NEW u \in Users
      PROVE  (e.users[u] = NoUser <=> d.users[u] = NoUser) /\ e.users[u].email = d.users[u].email
  <2>1. CASE u \in There(d)
    <3>1. e.users[u].email = d.users[u].email /\ d.users[u].email \in Addresses /\ d.users[u] # NoUser
      BY Zenon, <1>1, <2>1 DEF Renewing, Addressed, There
    <3> QED  BY <3>1, NamesAssumption DEF NoUser
  <2>2. CASE u \notin There(d)
    BY Zenon, <1>1, <2>2 DEF Renewing, There
  <2> QED  BY Zenon, <2>1, <2>2
<1> QED  BY Zenon, <1>1, <1>2 DEF SameUsers, Only

\* 80bc0acf7d07, both ways: the column comes with 'user' in it, or goes.
SetRole(d, r) == EachUser(d, LAMBDA u : [u EXCEPT !.role = r])

RoleSet(d, e, r) ==
    /\ e \in Database /\ SameRoles(d, e) /\ SameUsers(d, e)
    /\ \A u \in Users : /\ e.users[u].upper = d.users[u].upper
                        /\ e.users[u].closed = d.users[u].closed
                        /\ e.users[u].holds = d.users[u].holds
                        /\ u \in There(d) => e.users[u].role = r

LEMMA ByRole ==
    ASSUME NEW d \in Database, Addressed(d), NEW r \in UserRoles, NEW e, e = SetRole(d, r)
    PROVE  RoleSet(d, e, r)
<1> DEFINE f == [u \in Users |-> IF u \in There(d) THEN [d.users[u] EXCEPT !.role = r] ELSE NoUser]
<1>1. e = [d EXCEPT !.users = f]
  BY Zenon DEF EachUser, SetRole
<1>2. d.users \in [Users -> User] /\ NoUser \in User
  BY DEF Database, User, UserRoles, NoUser
<1>3. f \in [Users -> User]
  <2>1. ASSUME NEW x \in User PROVE [x EXCEPT !.role = r] \in User
    BY Zenon DEF User
  <2> QED  BY Zenon, <1>2, <2>1
<1>4. \A u \in Users : /\ f[u].upper = d.users[u].upper
                       /\ f[u].closed = d.users[u].closed
                       /\ f[u].holds = d.users[u].holds
                       /\ f[u].email = d.users[u].email
                       /\ u \in There(d) => f[u].role = r
                       /\ u \notin There(d) => f[u] = NoUser
  BY <1>2 DEF User, There
<1> HIDE DEF f
<1>5. e \in Database /\ e.users = f /\ SameRoles(d, e) /\ SameUsers(d, e)
  <2>1. Renewing(d, f)
    BY Zenon, <1>3, <1>4 DEF Renewing
  <2>2. Only(d, e, f)
    BY Zenon, <1>1, <2>1, Renewed
  <2> QED  BY Zenon, <2>2 DEF Only
<1> QED  BY Zenon, <1>4, <1>5 DEF RoleSet

\* 0a456e5b983c
Lowered(d, e) ==
    /\ e \in Database /\ SameRoles(d, e) /\ SameUsers(d, e)
    /\ \A u \in Users : /\ e.users[u].role = d.users[u].role
                        /\ e.users[u].closed = d.users[u].closed
                        /\ e.users[u].holds = d.users[u].holds
                        /\ u \in There(d) => e.users[u].upper = FALSE

LEMMA ByUpper ==
    ASSUME NEW d \in Database, Addressed(d), NEW e, e = lower(d)
    PROVE  Lowered(d, e)
<1> DEFINE f == [u \in Users |-> IF u \in There(d) THEN [d.users[u] EXCEPT !.upper = FALSE] ELSE NoUser]
<1>1. e = [d EXCEPT !.users = f]
  BY Zenon DEF EachUser, lower
<1>2. d.users \in [Users -> User] /\ NoUser \in User
  BY DEF Database, User, UserRoles, NoUser
<1>3. f \in [Users -> User]
  <2>1. ASSUME NEW x \in User PROVE [x EXCEPT !.upper = FALSE] \in User
    BY Zenon DEF User
  <2> QED  BY Zenon, <1>2, <2>1
<1>4. \A u \in Users : /\ f[u].role = d.users[u].role
                       /\ f[u].closed = d.users[u].closed
                       /\ f[u].holds = d.users[u].holds
                       /\ f[u].email = d.users[u].email
                       /\ u \in There(d) => f[u].upper = FALSE
                       /\ u \notin There(d) => f[u] = NoUser
  BY <1>2 DEF User, There
<1> HIDE DEF f
<1>5. e \in Database /\ e.users = f /\ SameRoles(d, e) /\ SameUsers(d, e)
  <2>1. Renewing(d, f)
    BY Zenon, <1>3, <1>4 DEF Renewing
  <2>2. Only(d, e, f)
    BY Zenon, <1>1, <2>1, Renewed
  <2> QED  BY Zenon, <2>2 DEF Only
<1> QED  BY Zenon, <1>4, <1>5 DEF Lowered

\* c93eac896d35, taken back.
Reopened(d) == EachUser(d, LAMBDA u : [u EXCEPT !.closed = FALSE])

AllOpen(d, e) ==
    /\ e \in Database /\ SameRoles(d, e) /\ SameUsers(d, e)
    /\ \A u \in Users : /\ e.users[u].upper = d.users[u].upper
                        /\ e.users[u].role = d.users[u].role
                        /\ e.users[u].holds = d.users[u].holds
                        /\ u \in There(d) => e.users[u].closed = FALSE

LEMMA ByClosed ==
    ASSUME NEW d \in Database, Addressed(d), NEW e, e = Reopened(d)
    PROVE  AllOpen(d, e)
<1> DEFINE f == [u \in Users |-> IF u \in There(d) THEN [d.users[u] EXCEPT !.closed = FALSE] ELSE NoUser]
<1>1. e = [d EXCEPT !.users = f]
  BY Zenon DEF EachUser, Reopened
<1>2. d.users \in [Users -> User] /\ NoUser \in User
  BY DEF Database, User, UserRoles, NoUser
<1>3. f \in [Users -> User]
  <2>1. ASSUME NEW x \in User PROVE [x EXCEPT !.closed = FALSE] \in User
    BY Zenon DEF User
  <2> QED  BY Zenon, <1>2, <2>1
<1>4. \A u \in Users : /\ f[u].upper = d.users[u].upper
                       /\ f[u].role = d.users[u].role
                       /\ f[u].holds = d.users[u].holds
                       /\ f[u].email = d.users[u].email
                       /\ u \in There(d) => f[u].closed = FALSE
                       /\ u \notin There(d) => f[u] = NoUser
  BY <1>2 DEF User, There
<1> HIDE DEF f
<1>5. e \in Database /\ e.users = f /\ SameRoles(d, e) /\ SameUsers(d, e)
  <2>1. Renewing(d, f)
    BY Zenon, <1>3, <1>4 DEF Renewing
  <2>2. Only(d, e, f)
    BY Zenon, <1>1, <2>1, Renewed
  <2> QED  BY Zenon, <2>2 DEF Only
<1> QED  BY Zenon, <1>4, <1>5 DEF AllOpen

LEMMA MinOf ==
    ASSUME NEW h \in SUBSET RoleIds, h # {}
    PROVE  Min(h) \in h
<1>1. \A y \in h : y = 1 \/ y = 2 \/ y = 3
  BY DEF RoleIds
<1>2. \E x \in h : \A y \in h : x <= y
  <2>1. CASE 1 \in h
    BY <1>1, <2>1
  <2>2. CASE 1 \notin h /\ 2 \in h
    BY <1>1, <2>2
  <2>3. CASE 1 \notin h /\ 2 \notin h
    BY <1>1, <2>3
  <2> QED  BY Zenon, <2>1, <2>2, <2>3
<1> QED  BY Zenon, <1>2 DEF Min

\* c4a17d59f8b2, taken back: the role an account keeps.
Left(d, h) == IF h # {} THEN {Min(h)} ELSE IdOf(d, "user")

LEMMA LeftTyped ==
    ASSUME NEW d, NEW h \in SUBSET RoleIds
    PROVE  Left(d, h) \in SUBSET RoleIds
<1>1. IdOf(d, "user") \in SUBSET RoleIds
  BY Zenon DEF IdOf
<1>2. CASE h # {}
  <2>1. Min(h) \in RoleIds
    BY Zenon, <1>2, MinOf
  <2> QED  BY Zenon, <1>2, <2>1 DEF Left
<1> QED  BY Zenon, <1>1, <1>2 DEF Left

OneLeft(d, e) ==
    /\ e \in Database /\ SameRoles(d, e) /\ SameUsers(d, e)
    /\ \A u \in Users : /\ e.users[u].upper = d.users[u].upper
                        /\ e.users[u].closed = d.users[u].closed
                        /\ e.users[u].role = d.users[u].role
                        /\ u \in There(d) => e.users[u].holds = Left(d, d.users[u].holds)

LEMMA ByOneRole ==
    ASSUME NEW d \in Database, Addressed(d), NEW e, e = one_role(d)
    PROVE  OneLeft(d, e)
<1> DEFINE f == [u \in Users |-> IF u \in There(d) THEN [d.users[u] EXCEPT !.holds = Left(d, d.users[u].holds)] ELSE NoUser]
<1>1. e = [d EXCEPT !.users = f]
  BY Zenon DEF EachUser, one_role, Left
<1>2. d.users \in [Users -> User] /\ NoUser \in User
  BY DEF Database, User, UserRoles, NoUser
<1>3. f \in [Users -> User]
  <2>1. ASSUME NEW x \in User PROVE [x EXCEPT !.holds = Left(d, x.holds)] \in User
    <3>1. Left(d, x.holds) \in SUBSET RoleIds
      BY Zenon, LeftTyped DEF User
    <3> QED  BY Zenon, <3>1 DEF User
  <2> QED  BY Zenon, <1>2, <2>1
<1>4. \A u \in Users : /\ f[u].upper = d.users[u].upper
                       /\ f[u].closed = d.users[u].closed
                       /\ f[u].role = d.users[u].role
                       /\ f[u].email = d.users[u].email
                       /\ u \in There(d) => f[u].holds = Left(d, d.users[u].holds)
                       /\ u \notin There(d) => f[u] = NoUser
  BY <1>2 DEF User, There
<1> HIDE DEF f
<1>5. e \in Database /\ e.users = f /\ SameRoles(d, e) /\ SameUsers(d, e)
  <2>1. Renewing(d, f)
    BY Zenon, <1>3, <1>4 DEF Renewing
  <2>2. Only(d, e, f)
    BY Zenon, <1>1, <2>1, Renewed
  <2> QED  BY Zenon, <2>2 DEF Only
<1> QED  BY Zenon, <1>4, <1>5 DEF OneLeft

\* d1c7a4f2b8e3
LEMMA GrantsTyped ==
    /\ GRANTS.user \in SUBSET Grants
    /\ GRANTS.admin \in SUBSET Grants
    /\ Keys(GRANTS.user \cup GRANTS.admin) \in SUBSET Permissions
<1>1. GRANTS.user \in SUBSET BASE_ROLES.user
  BY DEF GRANTS, BASE_ROLES, OwnItems
<1>2. GRANTS.admin \in SUBSET BASE_ROLES.superadmin
  BY DEF GRANTS, BASE_ROLES, OwnItems
<1> QED  BY Zenon, <1>1, <1>2 DEF Keys, Grants, Permissions

LEMMA RoleMade ==
    ASSUME NEW n \in AllNames, NEW g \in SUBSET Grants
    PROVE  [name |-> n, grants |-> g] \in Role
BY Zenon DEF Role

LEMMA NamesThere ==
    "user" \in AllNames /\ "admin" \in AllNames /\ "superadmin" \in AllNames /\ "member" \in AllNames /\ None \in AllNames
BY DEF AllNames, UserRoles

LEMMA NoRoleIs == NoRole \in Role
<1>1. {} \in SUBSET Grants
  OBVIOUS
<1> QED  BY Zenon, <1>1, NamesThere, RoleMade DEF NoRole

\* The role an account is given for the name it had.
For(name) == IF name = "user" THEN {1} ELSE IF name = "admin" THEN {2} ELSE IF name = None THEN {3} ELSE {}

Referring(d, e) ==
    /\ e \in Database /\ SameUsers(d, e)
    /\ e.permissions = Keys(GRANTS.user \cup GRANTS.admin)
    /\ e.roles[1] = [name |-> "user", grants |-> GRANTS.user]
    /\ e.roles[2] = [name |-> "admin", grants |-> GRANTS.admin]
    /\ e.roles[3] = NoRole
    /\ \A u \in Users : /\ e.users[u].upper = d.users[u].upper
                        /\ e.users[u].closed = d.users[u].closed
                        /\ u \in There(d) => e.users[u].role = None
                        /\ u \in There(d) => e.users[u].holds = For(d.users[u].role)

LEMMA ByReference ==
    ASSUME NEW d \in Database, Addressed(d), NEW e, e = roles_from_names(d)
    PROVE  Referring(d, e)
<1> DEFINE g == [i \in RoleIds |-> CASE i = 1 -> [name |-> "user", grants |-> GRANTS.user]
                                     [] i = 2 -> [name |-> "admin", grants |-> GRANTS.admin]
                                     [] OTHER -> NoRole]
           p == Keys(GRANTS.user \cup GRANTS.admin)
           made == [d EXCEPT !.roles = g, !.permissions = p]
           f == [u \in Users |-> IF u \in There(made)
                                 THEN [made.users[u] EXCEPT !.role = None, !.holds = IdOf(made, made.users[u].role)]
                                 ELSE NoUser]
<1>1. e = [made EXCEPT !.users = f]
  BY Zenon DEF EachUser, roles_from_names
<1>2. /\ g[1] = [name |-> "user", grants |-> GRANTS.user]
      /\ g[2] = [name |-> "admin", grants |-> GRANTS.admin]
      /\ g[3] = NoRole
  BY DEF RoleIds
<1>3. g \in [RoleIds -> Role]
  <2>1. g[1] \in Role /\ g[2] \in Role /\ g[3] \in Role
    BY Zenon, <1>2, GrantsTyped, NamesThere, RoleMade, NoRoleIs
  <2>2. \A i \in RoleIds : g[i] \in Role
    BY <2>1 DEF RoleIds
  <2> QED  BY Zenon, <2>2
<1> HIDE DEF g
<1>4. p \in SUBSET Permissions
  BY Zenon, GrantsTyped
<1> HIDE DEF p
<1>5. made \in Database /\ made.users = d.users /\ made.roles = g /\ made.permissions = p
  <2>1. Reroled(d, made, g, p)
    BY Zenon, <1>3, <1>4 DEF Reroled
  <2>2. RolesNow(d, made, g, p)
    BY Zenon, <2>1, NewRoles
  <2> QED  BY Zenon, <2>2 DEF RolesNow
<1> HIDE DEF made
<1>6. There(made) = There(d) /\ Addressed(made)
  BY Zenon, <1>5 DEF There, Addressed
<1>7. made.users \in [Users -> User] /\ NoUser \in User
  BY <1>5 DEF Database, User, UserRoles, NoUser
<1>8. f \in [Users -> User]
  <2>1. None \in UserRoles
    BY DEF UserRoles
  <2>2. ASSUME NEW x \in User PROVE [x EXCEPT !.role = None, !.holds = IdOf(made, x.role)] \in User
    <3>1. IdOf(made, x.role) \in SUBSET RoleIds
      BY Zenon DEF IdOf
    <3> QED  BY Zenon, <2>1, <3>1 DEF User
  <2> QED  BY Zenon, <1>7, <2>2
<1>9. \A u \in Users : /\ f[u].upper = made.users[u].upper
                       /\ f[u].closed = made.users[u].closed
                       /\ f[u].email = made.users[u].email
                       /\ u \in There(made) => f[u].role = None /\ f[u].holds = IdOf(made, made.users[u].role)
                       /\ u \notin There(made) => f[u] = NoUser
  BY <1>7 DEF User, There
<1> HIDE DEF f
<1>10. e \in Database /\ e.users = f /\ SameRoles(made, e) /\ SameUsers(made, e)
  <2>1. Renewing(made, f)
    BY Zenon, <1>8, <1>9 DEF Renewing
  <2>2. Only(made, e, f)
    BY Zenon, <1>1, <1>5, <1>6, <2>1, Renewed
  <2> QED  BY Zenon, <2>2 DEF Only
<1>11. ASSUME NEW r PROVE IdOf(made, r) = For(r)
  <2>1. made.roles[1].name = "user" /\ made.roles[2].name = "admin" /\ made.roles[3].name = None
    BY <1>2, <1>5 DEF NoRole
  <2> QED  BY <2>1 DEF IdOf, For, RoleIds, None
<1>12. \A u \in Users : /\ e.users[u].upper = d.users[u].upper
                        /\ e.users[u].closed = d.users[u].closed
                        /\ u \in There(d) => e.users[u].role = None
                        /\ u \in There(d) => e.users[u].holds = For(d.users[u].role)
  BY Zenon, <1>5, <1>6, <1>9, <1>10, <1>11
<1>13. SameUsers(d, e)
  BY Zenon, <1>5, <1>10 DEF SameUsers
<1>14. e.permissions = p /\ e.roles = g
  BY Zenon, <1>5, <1>10 DEF SameRoles
<1> QED  BY Zenon, <1>2, <1>10, <1>12, <1>13, <1>14 DEF p, Referring

\* And taken back: the account is named after the role it holds.
NameOf(d, h) == d.roles[CHOOSE i \in h : TRUE].name

Named(d, e) ==
    /\ e \in Database /\ SameUsers(d, e) /\ e.roles = Empty.roles /\ e.permissions = {}
    /\ \A u \in Users : /\ e.users[u].upper = d.users[u].upper
                        /\ e.users[u].closed = d.users[u].closed
                        /\ u \in There(d) => e.users[u].holds = {}
                        /\ u \in There(d) => e.users[u].role = NameOf(d, d.users[u].holds)

LEMMA ByName ==
    ASSUME NEW d \in Database, Addressed(d), NEW e, e = names_from_roles(d),
           \A u \in There(d) : NameOf(d, d.users[u].holds) \in UserRoles
    PROVE  Named(d, e)
<1> DEFINE f == [u \in Users |-> IF u \in There(d)
                                 THEN [d.users[u] EXCEPT !.role = NameOf(d, d.users[u].holds), !.holds = {}]
                                 ELSE NoUser]
           named == [d EXCEPT !.users = f]
<1>1. e = [named EXCEPT !.roles = Empty.roles, !.permissions = {}]
  BY Zenon DEF EachUser, names_from_roles, NameOf
<1>2. d.users \in [Users -> User] /\ NoUser \in User
  BY DEF Database, User, UserRoles, NoUser
<1>3. f \in [Users -> User]
  <2>1. ASSUME NEW x \in User, NEW r \in UserRoles PROVE [x EXCEPT !.role = r, !.holds = {}] \in User
    <3>1. {} \in SUBSET RoleIds
      OBVIOUS
    <3> QED  BY Zenon, <3>1 DEF User
  <2> QED  BY Zenon, <1>2, <2>1
<1>4. \A u \in Users : /\ f[u].upper = d.users[u].upper
                       /\ f[u].closed = d.users[u].closed
                       /\ f[u].email = d.users[u].email
                       /\ u \in There(d) => f[u].role = NameOf(d, d.users[u].holds) /\ f[u].holds = {}
                       /\ u \notin There(d) => f[u] = NoUser
  BY <1>2 DEF User, There
<1> HIDE DEF f
<1>5. named \in Database /\ named.users = f /\ SameUsers(d, named)
  <2>1. Renewing(d, f)
    BY Zenon, <1>3, <1>4 DEF Renewing
  <2>2. Only(d, named, f)
    BY Zenon, <2>1, Renewed
  <2> QED  BY Zenon, <2>2 DEF Only
<1> HIDE DEF named
<1>6. Empty.roles \in [RoleIds -> Role] /\ {} \in SUBSET Permissions
  <2>1. Empty.roles = [i \in RoleIds |-> NoRole]
    BY DEF Empty
  <2> QED  BY <2>1, NoRoleIs
<1>7. e \in Database /\ e.users = named.users /\ e.roles = Empty.roles /\ e.permissions = {}
  <2>1. Reroled(named, e, Empty.roles, {})
    BY Zenon, <1>1, <1>6 DEF Reroled
  <2>2. RolesNow(named, e, Empty.roles, {})
    BY Zenon, <1>5, <2>1, NewRoles
  <2> QED  BY Zenon, <2>2 DEF RolesNow
<1>8. SameUsers(d, e)
  BY Zenon, <1>5, <1>7 DEF SameUsers
<1> QED  BY Zenon, <1>4, <1>5, <1>7, <1>8 DEF Named

-----------------------------------------------------------------------------
(* The rows of the roles.                                                  *)

LEMMA Renaming ==
    ASSUME NEW d \in Database, NEW from, NEW to \in AllNames, NEW e, e = rename(d, from, to)
    PROVE  /\ e \in Database /\ e.users = d.users /\ e.permissions = d.permissions
           /\ \A i \in RoleIds : e.roles[i] = IF d.roles[i].name = from
                                              THEN [name |-> to, grants |-> d.roles[i].grants]
                                              ELSE d.roles[i]
<1> DEFINE f == [i \in RoleIds |-> IF d.roles[i].name = from THEN [d.roles[i] EXCEPT !.name = to] ELSE d.roles[i]]
<1>1. d.roles \in [RoleIds -> Role] /\ d.permissions \in SUBSET Permissions
  BY Zenon DEF Database
<1>2. ASSUME NEW x \in Role
      PROVE  [x EXCEPT !.name = to] \in Role /\ [x EXCEPT !.name = to] = [name |-> to, grants |-> x.grants]
  <2>1. [x EXCEPT !.name = to] \in Role
    BY Zenon DEF Role
  <2>2. [x EXCEPT !.name = to] = [name |-> to, grants |-> x.grants]
    BY DEF Role
  <2> QED  BY Zenon, <2>1, <2>2
<1>3. f \in [RoleIds -> Role]
  BY Zenon, <1>1, <1>2
<1>4. Reroled(d, e, f, d.permissions)
  BY Zenon, <1>1, <1>3 DEF rename, Reroled
<1>5. \A i \in RoleIds : f[i] = IF d.roles[i].name = from
                                THEN [name |-> to, grants |-> d.roles[i].grants]
                                ELSE d.roles[i]
  BY Zenon, <1>1, <1>2
<1> HIDE DEF f
<1>6. e \in Database /\ e.users = d.users /\ e.roles = f /\ e.permissions = d.permissions
  <2> DEFINE p == d.permissions
  <2>1. Reroled(d, e, f, p)
    BY Zenon, <1>4
  <2> HIDE DEF p
  <2>2. RolesNow(d, e, f, p)
    BY Zenon, <2>1, NewRoles
  <2> QED  BY Zenon, <2>2 DEF p, RolesNow
<1> QED  BY Zenon, <1>5, <1>6

Key(k) == GateAt(k).key
Granted(k) == All(Key(k)[1], Key(k)[2])

LEMMA GateKeys ==
    /\ Key(12) = <<"settings", "read">>
    /\ Key(13) = <<"feature_flags", "update">>
    /\ Key(16) = <<"audit_log", "read">>
    /\ Key(17) = <<"users", "impersonate">>
    /\ Key(18) = <<"users", "delete">>
BY DEF Key, GateAt, gate_settings, let_feature_flags_be_delegated, gate_the_audit_log,
       add_the_impersonate_permission, add_the_user_delete_permission, Gate

LEMMA GateHolders ==
    ASSUME NEW k \in Gated
    PROVE  GateAt(k).holders = IF k = 12 THEN {"user", "superadmin"} ELSE {"superadmin"}
BY DEF Gated, GateAt, gate_settings, let_feature_flags_be_delegated, gate_the_audit_log,
       add_the_impersonate_permission, add_the_user_delete_permission, Gate

LEMMA GateTyped ==
    ASSUME NEW k \in Gated
    PROVE  Granted(k) \in Grants /\ Key(k) \in Permissions /\ Key(k) = <<Granted(k)[1], Granted(k)[2]>>
<1>1. Granted(k) \in BASE_ROLES.superadmin
  BY GateKeys DEF Gated, Granted, BASE_ROLES
<1>2. Key(k) = <<Granted(k)[1], Granted(k)[2]>>
  BY GateKeys DEF Gated, Granted, All
<1> QED  BY Zenon, <1>1, <1>2 DEF Grants, Permissions, Keys

LEMMA Granting ==
    ASSUME NEW d \in Database, NEW k \in Gated, NEW e, e = grant(d, GateAt(k))
    PROVE  /\ e \in Database /\ e.users = d.users /\ e.permissions = d.permissions \cup {Key(k)}
           /\ \A i \in RoleIds :
                e.roles[i] = IF d.roles[i].name \in GateAt(k).holders /\ Key(k) \notin Keys(d.roles[i].grants)
                             THEN [name |-> d.roles[i].name, grants |-> d.roles[i].grants \cup {Granted(k)}]
                             ELSE d.roles[i]
<1> DEFINE Gets(x) == x.name \in GateAt(k).holders /\ Key(k) \notin Keys(x.grants)
           f == [i \in RoleIds |-> IF Gets(d.roles[i]) THEN [d.roles[i] EXCEPT !.grants = @ \cup {Granted(k)}]
                                                       ELSE d.roles[i]]
           p == d.permissions \cup {Key(k)}
<1>1. d.roles \in [RoleIds -> Role] /\ d.permissions \in SUBSET Permissions
  BY Zenon DEF Database
<1>2. ASSUME NEW x \in Role
      PROVE  /\ [x EXCEPT !.grants = @ \cup {Granted(k)}] \in Role
             /\ [x EXCEPT !.grants = @ \cup {Granted(k)}] = [name |-> x.name, grants |-> x.grants \cup {Granted(k)}]
  <2>1. x.grants \cup {Granted(k)} \in SUBSET Grants
    BY Zenon, GateTyped DEF Role
  <2>2. [x EXCEPT !.grants = @ \cup {Granted(k)}] \in Role
    BY Zenon, <2>1 DEF Role
  <2>3. [x EXCEPT !.grants = @ \cup {Granted(k)}] = [name |-> x.name, grants |-> x.grants \cup {Granted(k)}]
    BY DEF Role
  <2> QED  BY Zenon, <2>2, <2>3
<1>3. f \in [RoleIds -> Role]
  BY Zenon, <1>1, <1>2
<1>4. p \in SUBSET Permissions
  BY Zenon, <1>1, GateTyped
<1>5. Reroled(d, e, f, p)
  <2>1. e = [d EXCEPT !.permissions = p, !.roles = f]
    BY Zenon DEF grant, Granted, Key
  <2> QED  BY Zenon, <1>3, <1>4, <2>1 DEF Reroled
<1>6. \A i \in RoleIds : f[i] = IF Gets(d.roles[i])
                                THEN [name |-> d.roles[i].name, grants |-> d.roles[i].grants \cup {Granted(k)}]
                                ELSE d.roles[i]
  BY Zenon, <1>1, <1>2
<1> HIDE DEF f
<1>7. e \in Database /\ e.users = d.users /\ e.roles = f /\ e.permissions = p
  <2>1. RolesNow(d, e, f, p)
    BY Zenon, <1>5, NewRoles
  <2> QED  BY Zenon, <2>1 DEF RolesNow
<1> QED  BY Zenon, <1>6, <1>7

Without(grants, k) == {g \in grants : <<g[1], g[2]>> # Key(k)}

Revoked(d, e, k) ==
    /\ e \in Database /\ e.users = d.users /\ e.permissions = d.permissions \ {Key(k)}
    /\ \A i \in RoleIds :
         e.roles[i] = [name |-> d.roles[i].name, grants |-> Without(d.roles[i].grants, k)]

LEMMA Revoking ==
    ASSUME NEW d \in Database, NEW k \in Gated, NEW e, e = revoke(d, GateAt(k))
    PROVE  Revoked(d, e, k)
<1> DEFINE f == [i \in RoleIds |-> [d.roles[i] EXCEPT !.grants = Without(@, k)]]
           p == d.permissions \ {Key(k)}
<1>1. d.roles \in [RoleIds -> Role] /\ d.permissions \in SUBSET Permissions
  BY Zenon DEF Database
<1>2. ASSUME NEW x \in Role
      PROVE  /\ [x EXCEPT !.grants = Without(@, k)] \in Role
             /\ [x EXCEPT !.grants = Without(@, k)] = [name |-> x.name, grants |-> Without(x.grants, k)]
  <2>1. Without(x.grants, k) \in SUBSET Grants
    BY Zenon DEF Role, Without
  <2>2. [x EXCEPT !.grants = Without(@, k)] \in Role
    BY Zenon, <2>1 DEF Role
  <2>3. [x EXCEPT !.grants = Without(@, k)] = [name |-> x.name, grants |-> Without(x.grants, k)]
    BY DEF Role
  <2> QED  BY Zenon, <2>2, <2>3
<1>3. f \in [RoleIds -> Role]
  BY Zenon, <1>1, <1>2
<1>4. p \in SUBSET Permissions
  BY Zenon, <1>1
<1>5. Reroled(d, e, f, p)
  <2>1. e = [d EXCEPT !.permissions = p, !.roles = f]
    BY Zenon DEF revoke, Without, Key
  <2> QED  BY Zenon, <1>3, <1>4, <2>1 DEF Reroled
<1>6. \A i \in RoleIds : f[i] = [name |-> d.roles[i].name, grants |-> Without(d.roles[i].grants, k)]
  BY Zenon, <1>1, <1>2
<1> HIDE DEF f
<1>7. e \in Database /\ e.users = d.users /\ e.roles = f /\ e.permissions = p
  <2>1. RolesNow(d, e, f, p)
    BY Zenon, <1>5, NewRoles
  <2> QED  BY Zenon, <2>1 DEF RolesNow
<1> QED  BY Zenon, <1>6, <1>7 DEF Revoked

\* No permission of a gate is granted before it.
LEMMA KeyIsNew ==
    ASSUME NEW k \in Gated
    PROVE  /\ \A g \in GRANTS.user \cup GRANTS.admin : <<g[1], g[2]>> # Key(k)
           /\ \A m \in Gated : Key(m) = Key(k) => m = k
<1> DEFINE Other(g) == <<g[1], g[2]>> # Key(k)
<1>1. \A a, b : <<a, b>> = Key(k) => /\ a \notin {"items", "request_log", "roles"}
                                     /\ a = "feature_flags" => b = "update"
                                     /\ a = "users" => b \in {"impersonate", "delete"}
  BY GateKeys DEF Gated
<1>2. \A a, b : Own(a, b)[1] = a /\ Own(a, b)[2] = b /\ All(a, b)[1] = a /\ All(a, b)[2] = b
  BY DEF Own, All
<1>3. \A g \in OwnItems : Other(g)
  BY <1>1, <1>2 DEF OwnItems
<1>4. /\ Other(Own("request_log", "read")) /\ Other(All("request_log", "read"))
      /\ Other(All("feature_flags", "read")) /\ Other(All("users", "read")) /\ Other(All("users", "update"))
      /\ \A a : Other(All("roles", a))
  BY <1>1, <1>2
<1> HIDE DEF Other
<1>5. \A g \in GRANTS.user : Other(g)
  BY <1>3, <1>4 DEF GRANTS
<1>6. \A g \in GRANTS.admin : Other(g)
  BY <1>3, <1>4 DEF GRANTS
<1>7. \A m \in Gated : Key(m) = Key(k) => m = k
  BY GateKeys DEF Gated
<1> QED  BY Zenon, <1>5, <1>6, <1>7 DEF Other

LEMMA GatesGrow ==
    ASSUME NEW n \in 1..25
    PROVE  /\ n \in Gated => GatesBy(n) = GatesBy(n - 1) \cup {n} /\ n \notin GatesBy(n - 1)
           /\ n \notin Gated => GatesBy(n) = GatesBy(n - 1)
<1>1. \A k \in Gated : (k <= n <=> k <= n - 1 \/ k = n) /\ (k <= n - 1 => k # n)
  BY DEF Gated
<1> QED  BY Zenon, <1>1 DEF GatesBy

LEMMA GrantsStay ==
    ASSUME NEW n \in 1..25, n \notin Gated
    PROVE  AdminGrants(n) = AdminGrants(n - 1) /\ UserGrants(n) = UserGrants(n - 1) /\ Grantable(n) = Grantable(n - 1)
<1>1. GatesBy(n) = GatesBy(n - 1)
  BY Zenon, GatesGrow
<1>2. n >= 12 <=> n - 1 >= 12
  BY DEF Gated
<1> QED  BY Zenon, <1>1, <1>2 DEF AdminGrants, UserGrants, Grantable

LEMMA GrantsGrow ==
    ASSUME NEW k \in Gated
    PROVE  /\ AdminGrants(k) = AdminGrants(k - 1) \cup {Granted(k)}
           /\ Grantable(k) = Grantable(k - 1) \cup {Key(k)}
           /\ UserGrants(k) = UserGrants(k - 1) \cup (IF k = 12 THEN {Granted(k)} ELSE {})
<1>1. GatesBy(k) = GatesBy(k - 1) \cup {k}
  <2>1. k \in 1..25
    BY DEF Gated
  <2> QED  BY Zenon, <2>1, GatesGrow
<1>2. UserGrants(k) = UserGrants(k - 1) \cup (IF k = 12 THEN {Granted(k)} ELSE {})
  <2>1. Granted(12) = All("settings", "read")
    BY GateKeys DEF Granted
  <2>2. CASE k = 12
    BY <2>1, <2>2 DEF UserGrants
  <2>3. CASE k # 12
    <3>1. k >= 12 /\ k - 1 >= 12
      BY <2>3 DEF Gated
    <3> QED  BY Zenon, <2>3, <3>1 DEF UserGrants
  <2> QED  BY Zenon, <2>2, <2>3
<1>3. AdminGrants(k) = AdminGrants(k - 1) \cup {Granted(k)}
  BY Zenon, <1>1 DEF AdminGrants, Granted, Key
<1>4. Grantable(k) = Grantable(k - 1) \cup {Key(k)}
  BY Zenon, <1>1 DEF Grantable, Key
<1> QED  BY Zenon, <1>2, <1>3, <1>4

LEMMA NotYet ==
    ASSUME NEW k \in Gated
    PROVE  /\ \A g \in AdminGrants(k - 1) \cup UserGrants(k - 1) : <<g[1], g[2]>> # Key(k)
           /\ Key(k) \notin Grantable(k - 1)
<1>1. k \notin GatesBy(k - 1) /\ GatesBy(k - 1) \subseteq Gated
  <2>1. k \in 1..25
    BY DEF Gated
  <2>2. k \notin GatesBy(k - 1)
    BY Zenon, <2>1, GatesGrow
  <2> QED  BY Zenon, <2>2 DEF GatesBy
<1>2. \A m \in GatesBy(k - 1) : Key(m) # Key(k) /\ <<Granted(m)[1], Granted(m)[2]>> # Key(k)
  BY Zenon, <1>1, GateTyped, KeyIsNew
<1>3. \A g \in AdminGrants(k - 1) : <<g[1], g[2]>> # Key(k)
  BY Zenon, <1>2, KeyIsNew DEF AdminGrants, Granted, Key
<1>4. \A g \in UserGrants(k - 1) : <<g[1], g[2]>> # Key(k)
  <2>1. k - 1 >= 12 => k # 12 /\ 12 \in Gated
    BY DEF Gated
  <2>2. Granted(12) = All("settings", "read")
    BY GateKeys DEF Granted
  <2>3. k - 1 >= 12 => <<Granted(12)[1], Granted(12)[2]>> # Key(k)
    BY Zenon, <2>1, GateTyped, KeyIsNew
  <2> QED  BY Zenon, <2>2, <2>3, KeyIsNew DEF UserGrants
<1>5. Key(k) \notin Grantable(k - 1)
  BY Zenon, <1>2, KeyIsNew DEF Grantable, Keys, Key
<1> QED  BY Zenon, <1>3, <1>4, <1>5

\* A gate taken back leaves what was there before it.
LEMMA GrantsShrink ==
    ASSUME NEW k \in Gated
    PROVE  /\ Without(AdminGrants(k), k) = AdminGrants(k - 1)
           /\ Without(UserGrants(k), k) = UserGrants(k - 1)
           /\ Grantable(k) \ {Key(k)} = Grantable(k - 1)
<1>1. <<Granted(k)[1], Granted(k)[2]>> = Key(k)
  BY Zenon, GateTyped
<1>2. Without(AdminGrants(k), k) = AdminGrants(k - 1)
  BY Zenon, <1>1, NotYet, GrantsGrow DEF Without
<1>3. Without(UserGrants(k), k) = UserGrants(k - 1)
  BY Zenon, <1>1, NotYet, GrantsGrow DEF Without
<1>4. Grantable(k) \ {Key(k)} = Grantable(k - 1)
  <2>1. Grantable(k) = Grantable(k - 1) \cup {Key(k)}
    BY Zenon, GrantsGrow
  <2>2. Key(k) \notin Grantable(k - 1)
    BY Zenon, NotYet
  <2> QED  BY Zenon, <2>1, <2>2
<1> QED  BY Zenon, <1>2, <1>3, <1>4

LEMMA GrantsBegin ==
    AdminGrants(9) = GRANTS.admin /\ UserGrants(9) = GRANTS.user /\ Grantable(9) = Keys(GRANTS.user \cup GRANTS.admin)
<1>1. GatesBy(9) = {}
  BY DEF GatesBy, Gated
<1> QED  BY <1>1 DEF AdminGrants, UserGrants, Grantable

\* All the gates together make the base roles of BASE_ROLES.
LEMMA GrantsEnd ==
    /\ AdminGrants(25) = BASE_ROLES.superadmin
    /\ UserGrants(25) = BASE_ROLES.user
    /\ Grantable(25) = Keys(BASE_ROLES.user \cup BASE_ROLES.superadmin)
<1>1. GatesBy(25) = Gated
  BY DEF GatesBy, Gated
<1>2. UserGrants(25) = BASE_ROLES.user
  BY DEF UserGrants, GRANTS, BASE_ROLES
<1>3. /\ Granted(12) = All("settings", "read")
      /\ Granted(13) = All("feature_flags", "update")
      /\ Granted(16) = All("audit_log", "read")
      /\ Granted(17) = All("users", "impersonate")
      /\ Granted(18) = All("users", "delete")
  BY GateKeys DEF Granted
<1>4. AdminGrants(25) = GRANTS.admin \cup {Granted(k) : k \in Gated}
  BY Zenon, <1>1 DEF AdminGrants, Granted, Key
<1>5. {Granted(k) : k \in Gated} = {All("settings", "read"), All("feature_flags", "update"), All("audit_log", "read"),
                                    All("users", "impersonate"), All("users", "delete")}
  BY <1>3 DEF Gated
<1>6. AdminGrants(25) = BASE_ROLES.superadmin
  BY <1>4, <1>5 DEF GRANTS, BASE_ROLES
<1>7. Grantable(25) = Keys(GRANTS.user \cup AdminGrants(25))
  <2>1. Grantable(25) = Keys(GRANTS.user \cup GRANTS.admin) \cup {Key(k) : k \in Gated}
    BY Zenon, <1>1 DEF Grantable, Key
  <2>2. \A k \in Gated : Key(k) = <<Granted(k)[1], Granted(k)[2]>>
    BY Zenon, GateTyped
  <2> QED  BY ZenonT(60), <1>4, <2>1, <2>2 DEF Keys
<1>8. Keys(GRANTS.user \cup AdminGrants(25)) = Keys(UserGrants(25) \cup AdminGrants(25))
  <2>1. UserGrants(25) = GRANTS.user \cup {All("settings", "read")}
    BY DEF UserGrants
  <2>2. All("settings", "read") \in AdminGrants(25)
    BY Zenon, <1>4, <1>5
  <2> QED  BY Zenon, <2>1, <2>2 DEF Keys
<1> QED  BY Zenon, <1>2, <1>6, <1>7, <1>8

-----------------------------------------------------------------------------
(* Each revision keeps the rows sound.                                     *)

\* Administrators of sound rows.
AdminIn(n, d) == {u \in There(d) : IF n < 9 THEN d.users[u].role = "admin" ELSE 2 \in d.users[u].holds}

Looks(d, e) == \A u \in Users : e.users[u].upper = d.users[u].upper /\ e.users[u].closed = d.users[u].closed

LEMMA Look ==
    ASSUME NEW d, NEW e, SameUsers(d, e), Looks(d, e)
    PROVE  /\ There(e) = There(d) /\ Open(e) = Open(d)
           /\ \A us \in SUBSET Users : Unique(d, us) <=> Unique(e, us)
<1>1. There(e) = There(d)
  BY Zenon DEF SameUsers, There
<1>2. Open(e) = Open(d)
  BY Zenon, <1>1 DEF Looks, Open, There
<1>3. \A us \in SUBSET Users : Unique(d, us) <=> Unique(e, us)
  BY DEF SameUsers, Looks, Unique
<1> QED  BY Zenon, <1>1, <1>2, <1>3

LEMMA RolesKept ==
    ASSUME NEW d, NEW e, SameRoles(d, e), NEW n, NEW t
    PROVE  (RolesAt(n, d, t) => RolesAt(n, e, t)) /\ (Distinct(d) <=> Distinct(e))
BY Zenon DEF SameRoles, RolesAt, Distinct

LEMMA SoundAddressed ==
    ASSUME NEW n, NEW d, UsersAt(n, d)
    PROVE  Addressed(d)
BY Zenon DEF UsersAt, Addressed

\* Neighbours: a revision that leaves the rows alone, or a role's rows.
LEMMA RolesAlike ==
    ASSUME NEW n \in 1..25, n \notin Gated \cup {9, 10}, NEW d, NEW t
    PROVE  RolesAt(n, d, t) <=> RolesAt(n - 1, d, t)
<1>1. (n < 9 <=> n - 1 < 9) /\ (n >= 10 <=> n - 1 >= 10)
  OBVIOUS
<1>2. Rank(n) = Rank(n - 1)
  BY Zenon, <1>1 DEF Rank
<1> QED  BY Zenon, <1>1, <1>2, GrantsStay DEF RolesAt

LEMMA UsersAlike ==
    ASSUME NEW n \in 1..25, n \notin {2, 9}, NEW d
    PROVE  /\ UsersAt(n - 1, d) => UsersAt(n, d)
           /\ n # 1 => (UsersAt(n, d) => UsersAt(n - 1, d))
<1>1. /\ n > 0 /\ (n # 1 => n - 1 > 0)
      /\ n \in 2..8 <=> n - 1 \in 2..8
      /\ n < 9 <=> n - 1 < 9
  OBVIOUS
<1> QED  BY Zenon, <1>1 DEF UsersAt

LEMMA FitsAlike ==
    ASSUME NEW n \in 1..25, n \notin {1, 2, 3, 9, 11}, NEW d
    PROVE  Fits(n, d) <=> Fits(n - 1, d)
<1>1. /\ n \in 1..2 <=> n - 1 \in 1..2
      /\ n >= 3 <=> n - 1 >= 3
      /\ n \in 2..8 <=> n - 1 \in 2..8
      /\ n \in 9..10 <=> n - 1 \in 9..10
  OBVIOUS
<1> QED  BY Zenon, <1>1 DEF Fits

LEMMA AdminAlike ==
    ASSUME NEW n \in 1..25, n # 9, NEW d
    PROVE  AdminIn(n, d) = AdminIn(n - 1, d)
<1>1. n < 9 <=> n - 1 < 9
  OBVIOUS
<1> QED  BY Zenon, <1>1 DEF AdminIn

LEMMA UpPlain ==
    ASSUME NEW n \in Plain, NEW d, NEW t, Sound(n - 1, d, t)
    PROVE  Sound(n, d, t) /\ AdminIn(n, d) = AdminIn(n - 1, d)
<1>1. n \in 1..25 /\ n \notin Gated \cup {9, 10} /\ n \notin {2, 9} /\ n # 9
  BY DEF Plain
<1>2. RolesAt(n, d, t) /\ UsersAt(n, d)
  BY Zenon, <1>1, RolesAlike, UsersAlike DEF Sound
<1>3. Fits(n, d)
  <2>1. CASE n = 1
    <3>1. There(d) = {}
      BY <2>1 DEF Sound, UsersAt, There
    <3>2. Fits(0, d)
      BY <2>1 DEF Sound
    <3> QED  BY <2>1, <3>1, <3>2 DEF Fits, Unique
  <2>2. CASE n = 3
    <3>1. Fits(2, d)
      BY <2>2 DEF Sound
    <3> QED  BY <2>2, <3>1 DEF Fits, Unique, Open
  <2>3. CASE n = 11
    <3>1. Fits(10, d)
      BY <2>3 DEF Sound
    <3> QED  BY <2>3, <3>1 DEF Fits
  <2>4. CASE n \notin {1, 2, 3, 9, 11}
    BY Zenon, <1>1, <2>4, FitsAlike DEF Sound
  <2> QED  BY Zenon, <1>1, <2>1, <2>2, <2>3, <2>4
<1>4. AdminIn(n, d) = AdminIn(n - 1, d)
  BY Zenon, <1>1, AdminAlike
<1> QED  BY Zenon, <1>2, <1>3, <1>4 DEF Sound

LEMMA DownPlain ==
    ASSUME NEW n \in PlainBack, NEW d, NEW t, Sound(n, d, t)
    PROVE  Sound(n - 1, d, t) /\ AdminIn(n, d) = AdminIn(n - 1, d)
<1>1. n \in 1..25 /\ n \notin Gated \cup {9, 10} /\ n \notin {2, 9} /\ n # 9 /\ n # 1 /\ n \notin {1, 2, 3, 9, 11}
  BY DEF PlainBack
<1>2. RolesAt(n - 1, d, t) /\ UsersAt(n - 1, d)
  BY Zenon, <1>1, RolesAlike, UsersAlike DEF Sound
<1>3. Fits(n - 1, d)
  BY Zenon, <1>1, FitsAlike DEF Sound
<1>4. AdminIn(n, d) = AdminIn(n - 1, d)
  BY Zenon, <1>1, AdminAlike
<1> QED  BY Zenon, <1>2, <1>3, <1>4 DEF Sound

-----------------------------------------------------------------------------
(* The revisions that change accounts.                                     *)

LEMMA Up2 ==
    ASSUME NEW d, NEW t, Sound(1, d, t), NEW e, e = Upgraded(Chain[2].name, d)
    PROVE  Sound(2, e, t) /\ AdminIn(2, e) = AdminIn(1, d)
<1>1. d \in Database /\ Addressed(d) /\ Unique(d, There(d)) /\ Distinct(d) /\ RolesAt(1, d, t) /\ UsersAt(1, d)
  BY SoundAddressed DEF Sound, Fits
<1>2. e = SetRole(d, "user")
  BY Ups DEF SetRole
<1>3. /\ e \in Database /\ SameRoles(d, e) /\ SameUsers(d, e)
      /\ \A u \in Users : /\ e.users[u].upper = d.users[u].upper
                          /\ e.users[u].closed = d.users[u].closed
                          /\ e.users[u].holds = d.users[u].holds
                          /\ u \in There(d) => e.users[u].role = "user"
  <2>1. "user" \in UserRoles
    BY DEF UserRoles
  <2>2. RoleSet(d, e, "user")
    BY Zenon, <1>1, <1>2, <2>1, ByRole
  <2> QED  BY Zenon, <2>2 DEF RoleSet
<1>4. There(e) = There(d) /\ Unique(e, There(e))
  <2>1. Looks(d, e)
    BY Zenon, <1>3 DEF Looks
  <2>2. There(d) \in SUBSET Users
    BY Zenon DEF There
  <2> QED  BY Zenon, <1>1, <1>3, <2>1, <2>2, Look
<1>5. \A u \in There(e) : e.users[u].role = "user" /\ e.users[u].holds = {} /\ e.users[u].email \in Addresses
  <2>1. \A u \in There(d) : d.users[u].holds = {} /\ d.users[u].email \in Addresses /\ u \in Users
    BY <1>1 DEF UsersAt, There
  <2> QED  BY Zenon, <1>3, <1>4, <2>1 DEF SameUsers
<1>6. Fits(2, e)
  <2>1. Distinct(e)
    BY Zenon, <1>1, <1>3, RolesKept
  <2> QED  BY <1>4, <1>5, <2>1 DEF Fits, None, Long
<1>7. RolesAt(2, e, t)
  <2>1. RolesAt(1, e, t)
    BY Zenon, <1>1, <1>3, RolesKept
  <2> QED  BY <2>1 DEF RolesAt
<1>8. UsersAt(2, e)
  BY <1>5 DEF UsersAt, There
<1>9. AdminIn(2, e) = AdminIn(1, d)
  <2>1. \A u \in There(d) : d.users[u].role = None
    BY <1>1 DEF UsersAt, There
  <2> QED  BY <1>4, <1>5, <2>1 DEF AdminIn, None
<1> QED  BY Zenon, <1>3, <1>6, <1>7, <1>8, <1>9 DEF Sound

LEMMA Down2 ==
    ASSUME NEW d, NEW t, Sound(2, d, t), NEW e, e = Downgraded(Chain[2].name, d), Fits(1, e)
    PROVE  Sound(1, e, t) /\ AdminIn(1, e) = {}
<1>1. d \in Database /\ Addressed(d) /\ RolesAt(2, d, t) /\ UsersAt(2, d)
  BY SoundAddressed DEF Sound
<1>2. e = SetRole(d, None)
  BY Downs DEF SetRole
<1>3. /\ e \in Database /\ SameRoles(d, e) /\ SameUsers(d, e)
      /\ \A u \in Users : /\ e.users[u].holds = d.users[u].holds
                          /\ u \in There(d) => e.users[u].role = None
  <2>1. None \in UserRoles
    BY DEF UserRoles
  <2>2. RoleSet(d, e, None)
    BY Zenon, <1>1, <1>2, <2>1, ByRole
  <2> QED  BY Zenon, <2>2 DEF RoleSet
<1>4. There(e) = There(d)
  BY Zenon, <1>3 DEF SameUsers, There
<1>5. \A u \in There(e) : e.users[u].role = None /\ e.users[u].holds = {} /\ e.users[u].email \in Addresses
  <2>1. \A u \in There(d) : d.users[u].holds = {} /\ d.users[u].email \in Addresses /\ u \in Users
    BY <1>1 DEF UsersAt, There
  <2> QED  BY Zenon, <1>3, <1>4, <2>1 DEF SameUsers
<1>6. RolesAt(1, e, t)
  <2>1. RolesAt(2, e, t)
    BY ZenonT(60), <1>1, <1>3, RolesKept
  <2> QED  BY <2>1 DEF RolesAt
<1>7. UsersAt(1, e)
  BY <1>5 DEF UsersAt, There
<1>8. AdminIn(1, e) = {}
  BY <1>5 DEF AdminIn, None
<1> QED  BY Zenon, <1>3, <1>6, <1>7, <1>8 DEF Sound

\* Why the lowering of addresses is refused.
Twins(d) ==
    \E u, v \in There(d) : u # v /\ d.users[u].email = d.users[v].email /\ ~d.users[u].closed /\ ~d.users[v].closed

LEMMA EightIs == 8 \notin 1..2 /\ 8 \notin 9..10
OBVIOUS

LEMMA Up8 ==
    ASSUME NEW d, NEW t, Sound(7, d, t), NEW e, e = Upgraded(Chain[8].name, d)
    PROVE  /\ ~Fits(8, e) => Twins(d)
           /\ Fits(8, e) => Sound(8, e, t)
           /\ AdminIn(8, e) = AdminIn(7, d)
<1>1. d \in Database /\ Addressed(d) /\ Fits(7, d) /\ RolesAt(7, d, t) /\ UsersAt(7, d)
  BY SoundAddressed DEF Sound
<1>2. e = lower(d)
  BY Zenon, Ups
<1>3. /\ e \in Database /\ SameRoles(d, e) /\ SameUsers(d, e)
      /\ \A u \in Users : /\ e.users[u].role = d.users[u].role
                          /\ e.users[u].closed = d.users[u].closed
                          /\ e.users[u].holds = d.users[u].holds
                          /\ e.users[u].email = d.users[u].email
  <2>1. Lowered(d, e)
    BY Zenon, <1>1, <1>2, ByUpper
  <2> QED  BY Zenon, <2>1 DEF Lowered, SameUsers
<1>4. There(e) = There(d)
  BY Zenon, <1>3 DEF SameUsers, There
<1>5. \A u \in There(d) : d.users[u].role \notin {None, Long} /\ u \in Users
  BY <1>1 DEF Fits, There
<1>6. ASSUME ~Fits(8, e) PROVE Twins(d)
  <2>1. Distinct(e)
    BY Zenon, <1>1, <1>3, RolesKept DEF Fits
  <2>2. \A u \in There(e) : e.users[u].role \notin {None, Long}
    BY Zenon, <1>3, <1>4, <1>5
  <2>3. ~Unique(e, Open(e))
    BY ZenonT(60), <1>6, <2>1, <2>2, EightIs DEF Fits
  <2>4. PICK u \in Open(e), v \in Open(e) : u # v /\ e.users[u].email = e.users[v].email
    BY <2>3 DEF Unique
  <2>5. u \in There(d) /\ v \in There(d) /\ ~d.users[u].closed /\ ~d.users[v].closed
    BY Zenon, <1>3, <1>4, <1>5 DEF Open
  <2>6. d.users[u].email = d.users[v].email
    BY Zenon, <1>3, <1>5, <2>4, <2>5
  <2> QED  BY Zenon, <2>4, <2>5, <2>6 DEF Twins
<1>7. RolesAt(8, e, t)
  <2>1. RolesAt(7, e, t)
    BY Zenon, <1>1, <1>3, RolesKept
  <2> QED  BY <2>1 DEF RolesAt
<1>8. UsersAt(8, e)
  <2>1. UsersAt(7, e)
    BY ZenonT(60), <1>1, <1>3 DEF UsersAt, SameUsers
  <2> QED  BY <2>1 DEF UsersAt
<1>9. AdminIn(8, e) = AdminIn(7, d)
  BY <1>3, <1>4, <1>5 DEF AdminIn
<1> QED  BY Zenon, <1>3, <1>6, <1>7, <1>8, <1>9 DEF Sound

LEMMA EmptySound == Sound(0, Empty, {}) /\ AdminIn(0, Empty) = {}
<1>1. Empty.users = [u \in Users |-> NoUser] /\ Empty.roles = [i \in RoleIds |-> NoRole] /\ Empty.permissions = {}
  BY DEF Empty
<1>2. Empty \in Database
  <2>1. NoUser \in User /\ NoRole \in Role /\ {} \in SUBSET Permissions
    BY NoRoleIs DEF User, UserRoles, NoUser
  <2>2. Empty.users \in [Users -> User] /\ Empty.roles \in [RoleIds -> Role] /\ Empty.permissions \in SUBSET Permissions
    BY <1>1, <2>1
  <2> QED  BY <2>2 DEF Empty, Database
<1>3. There(Empty) = {}
  BY <1>1 DEF There
<1>4. Fits(0, Empty)
  BY <1>1 DEF Fits, Distinct
<1>5. RolesAt(0, Empty, {}) /\ UsersAt(0, Empty)
  BY <1>1 DEF RolesAt, UsersAt
<1>6. AdminIn(0, Empty) = {}
  BY Zenon, <1>3 DEF AdminIn
<1> QED  BY Zenon, <1>2, <1>4, <1>5, <1>6 DEF Sound

LEMMA Down1 ==
    ASSUME NEW d, NEW t, Sound(1, d, t), NEW e, e = Downgraded(Chain[1].name, d)
    PROVE  Sound(0, e, t) /\ AdminIn(0, e) = {}
<1>1. e = Empty
  BY Zenon, Downs
<1>2. t = {}
  BY DEF Sound, RolesAt
<1> QED  BY Zenon, <1>1, <1>2, EmptySound

LEMMA Down3 ==
    ASSUME NEW d, NEW t, Sound(3, d, t), NEW e, e = Downgraded(Chain[3].name, d), Fits(2, e)
    PROVE  Sound(2, e, t) /\ AdminIn(2, e) = AdminIn(3, d)
<1>1. d \in Database /\ Addressed(d) /\ RolesAt(3, d, t) /\ UsersAt(3, d)
  BY SoundAddressed DEF Sound
<1>2. e = Reopened(d)
  BY Downs DEF Reopened
<1>3. /\ e \in Database /\ SameRoles(d, e) /\ SameUsers(d, e)
      /\ \A u \in Users : /\ e.users[u].role = d.users[u].role
                          /\ e.users[u].holds = d.users[u].holds
  <2>1. AllOpen(d, e)
    BY Zenon, <1>1, <1>2, ByClosed
  <2> QED  BY Zenon, <2>1 DEF AllOpen
<1>4. There(e) = There(d) /\ There(d) \subseteq Users
  BY Zenon, <1>3 DEF SameUsers, There
<1>5. RolesAt(2, e, t)
  <2>1. RolesAt(3, e, t)
    BY Zenon, <1>1, <1>3, RolesKept
  <2> QED  BY <2>1 DEF RolesAt
<1>6. UsersAt(2, e)
  <2>1. UsersAt(3, e)
    BY Zenon, <1>1, <1>3 DEF UsersAt, SameUsers
  <2> QED  BY <2>1 DEF UsersAt
<1>7. AdminIn(2, e) = AdminIn(3, d)
  BY <1>3, <1>4 DEF AdminIn
<1> QED  BY Zenon, <1>3, <1>5, <1>6, <1>7 DEF Sound

\* Why the roles cannot be made references.
Unknown(d) == \E u \in There(d) : d.users[u].role \in RoleNames \cup {"member"}

LEMMA Up9 ==
    ASSUME NEW d, NEW t, Sound(8, d, t), NEW e, e = Upgraded(Chain[9].name, d)
    PROVE  /\ ~Fits(9, e) => Unknown(d)
           /\ Fits(9, e) => Sound(9, e, t)
           /\ AdminIn(9, e) = AdminIn(8, d)
<1>1. d \in Database /\ Addressed(d) /\ Fits(8, d) /\ t = {} /\ UsersAt(8, d)
  BY SoundAddressed DEF Sound, RolesAt
<1>2. e = roles_from_names(d)
  BY Zenon, Ups
<1>3. Referring(d, e)
  BY Zenon, <1>1, <1>2, ByReference
<1>4. There(e) = There(d) /\ There(d) \subseteq Users /\ Unique(e, Open(e))
  <2>1. SameUsers(d, e) /\ Looks(d, e)
    BY Zenon, <1>3 DEF Referring, Looks
  <2>2. There(d) \in SUBSET Users /\ Open(d) \in SUBSET Users
    BY Zenon DEF There, Open
  <2>3. Unique(d, Open(d))
    BY SMTT(60), <1>1 DEF Fits
  <2> QED  BY Zenon, <2>1, <2>2, <2>3, Look
<1>5. /\ e.roles[1].name = "user" /\ e.roles[2].name = "admin" /\ e.roles[3].name = None
      /\ e.roles[3] = NoRole
  BY <1>3 DEF Referring, NoRole
<1>6. Distinct(e)
  BY <1>5 DEF Distinct, RoleIds, None
<1>7. \A u \in There(d) : d.users[u].role \in UserRoles \ {None}
  <2>1. d.users \in [Users -> User]
    BY Zenon, <1>1 DEF Database
  <2>2. \A u \in Users : d.users[u].role \in UserRoles
    BY Zenon, <2>1 DEF User
  <2>3. \A u \in There(d) : d.users[u].role # None
    BY <1>1 DEF Fits
  <2> QED  BY Zenon, <1>4, <2>2, <2>3
<1>8. \A u \in There(d) : e.users[u].holds = For(d.users[u].role) /\ e.users[u].role = None
  BY Zenon, <1>3, <1>4 DEF Referring
<1>9. ASSUME ~Fits(9, e) PROVE Unknown(d)
  <2>1. PICK u \in There(d) : ~One(e.users[u].holds)
    BY <1>4, <1>6, <1>9 DEF Fits
  <2>2. One({1}) /\ One({2})
    BY DEF One, RoleIds
  <2>3. d.users[u].role # "user" /\ d.users[u].role # "admin"
    BY <1>8, <2>1, <2>2 DEF For
  <2> QED  BY <1>7, <2>3 DEF Unknown, UserRoles
<1>10. RolesAt(9, e, t)
  <2>1. /\ e.permissions = Grantable(9)
        /\ e.roles[2] = [name |-> Rank(9), grants |-> AdminGrants(9)]
        /\ e.roles[1] = [name |-> "user", grants |-> UserGrants(9)]
    BY <1>3, GrantsBegin DEF Referring, Rank
  <2> QED  BY SMTT(60), <1>5, <2>1 DEF RolesAt
<1>11. UsersAt(9, e)
  <2>1. \A u \in There(e) : e.users[u].email \in Addresses /\ e.users[u].role = None
    BY Zenon, <1>1, <1>3, <1>4, <1>8 DEF Referring, SameUsers, Addressed, There
  <2> QED  BY <2>1 DEF UsersAt, There
<1>12. AdminIn(9, e) = AdminIn(8, d)
  <2>1. \A u \in There(d) : 2 \in e.users[u].holds <=> d.users[u].role = "admin"
    BY <1>8 DEF For
  <2> QED  BY <1>4, <2>1 DEF AdminIn
<1>13. e \in Database
  BY Zenon, <1>3 DEF Referring
<1> QED  BY Zenon, <1>9, <1>10, <1>11, <1>12, <1>13 DEF Sound

LEMMA Down9 ==
    ASSUME NEW d, NEW t, Sound(9, d, t), NEW e, e = Downgraded(Chain[9].name, d), Fits(8, e)
    PROVE  Sound(8, e, {}) /\ AdminIn(8, e) = AdminIn(9, d)
<1>1. d \in Database /\ Addressed(d) /\ Fits(9, d) /\ RolesAt(9, d, t)
  BY SoundAddressed DEF Sound
<1>2. e = names_from_roles(d)
  BY Zenon, Downs
<1>3. /\ d.roles[1].name \in {"user", "member"}
      /\ d.roles[2].name = "admin"
      /\ d.roles[3].name \in RoleNames \cup {None}
      /\ d.roles[3].name # "admin"
  <2>1. /\ d.roles[1].name \in {"user", "member"}
        /\ d.roles[2].name = "admin"
        /\ d.roles[3].name \in RoleNames \cup {None}
    BY <1>1 DEF RolesAt, NoRole, Rank
  <2>2. d.roles[2] # NoRole
    BY SMTT(60), <2>1 DEF NoRole, None
  <2>3. d.roles[2].name # d.roles[3].name
    BY <1>1, <2>2 DEF Fits, Distinct, RoleIds
  <2> QED  BY Zenon, <2>1, <2>3
<1>4. d.users \in [Users -> User] /\ There(d) \subseteq Users
  BY Zenon, <1>1 DEF Database, There
<1>5. ASSUME NEW u \in There(d)
      PROVE  \E i \in RoleIds : d.users[u].holds = {i} /\ NameOf(d, d.users[u].holds) = d.roles[i].name
  <2>1. d.users[u].holds \in SUBSET RoleIds
    BY ZenonT(60), <1>4 DEF User
  <2>2. One(d.users[u].holds)
    BY <1>1 DEF Fits
  <2>3. PICK i \in RoleIds : d.users[u].holds = {i}
    BY Zenon, <2>2 DEF One
  <2>4. (CHOOSE j \in d.users[u].holds : TRUE) = i
    BY <2>3
  <2> QED  BY Zenon, <2>1, <2>3, <2>4 DEF NameOf
<1>6. \A i \in RoleIds : d.roles[i].name \in UserRoles /\ (d.roles[i].name = "admin" <=> i = 2)
  BY <1>3 DEF RoleIds, UserRoles
<1>7. \A u \in There(d) : /\ NameOf(d, d.users[u].holds) \in UserRoles
                          /\ NameOf(d, d.users[u].holds) = "admin" <=> 2 \in d.users[u].holds
  BY <1>5, <1>6
<1>8. Named(d, e)
  BY Zenon, <1>1, <1>2, <1>7, ByName
<1>9. There(e) = There(d)
  BY ZenonT(60), <1>8 DEF Named, SameUsers, There
<1>10. RolesAt(8, e, {})
  BY SMTT(60), <1>8 DEF Named, RolesAt
<1>11. UsersAt(8, e)
  <2>1. \A u \in There(e) : e.users[u].email \in Addresses /\ e.users[u].holds = {}
    BY Zenon, <1>1, <1>4, <1>8, <1>9 DEF Named, SameUsers, Addressed, There
  <2> QED  BY <2>1 DEF UsersAt, There
<1>12. AdminIn(8, e) = AdminIn(9, d)
  <2>1. \A u \in There(d) : e.users[u].role = "admin" <=> 2 \in d.users[u].holds
    BY Zenon, <1>4, <1>7, <1>8 DEF Named
  <2> QED  BY <1>9, <2>1 DEF AdminIn
<1>13. e \in Database
  BY Zenon, <1>8 DEF Named
<1> QED  BY Zenon, <1>10, <1>11, <1>12, <1>13 DEF Sound

LEMMA Down11 ==
    ASSUME NEW d, NEW t, Sound(11, d, t), NEW e, e = Downgraded(Chain[11].name, d), Fits(10, e)
    PROVE  /\ Sound(10, e, t)
           /\ AdminIn(10, e) \subseteq AdminIn(11, d)
           /\ \A u \in AdminIn(11, d) : Alone(d.users[u].holds) => u \in AdminIn(10, e)
<1>1. d \in Database /\ Addressed(d) /\ RolesAt(11, d, t) /\ UsersAt(11, d)
  BY SoundAddressed DEF Sound
<1>2. e = one_role(d)
  BY Zenon, Downs
<1>3. OneLeft(d, e)
  BY Zenon, <1>1, <1>2, ByOneRole
<1>4. There(e) = There(d) /\ There(d) \subseteq Users /\ e \in Database
  BY Zenon, <1>3 DEF OneLeft, SameUsers, There
<1>5. RolesAt(10, e, t)
  <2>1. RolesAt(11, e, t)
    BY Zenon, <1>1, <1>3, RolesKept DEF OneLeft
  <2>2. 11 \in 1..25 /\ 11 \notin Gated \cup {9, 10} /\ 11 - 1 = 10
    BY DEF Gated
  <2> QED  BY <2>1, <2>2, RolesAlike
<1>6. UsersAt(10, e)
  <2>1. \A u \in There(d) : d.users[u].email \in Addresses /\ d.users[u].role = None
    BY <1>1 DEF UsersAt, There
  <2>2. \A u \in There(e) : e.users[u].email \in Addresses /\ e.users[u].role = None
    BY Zenon, <1>3, <1>4, <2>1 DEF OneLeft, SameUsers
  <2> QED  BY <2>2 DEF UsersAt, There
<1>7. ASSUME NEW u \in There(d)
      PROVE  /\ e.users[u].holds = Left(d, d.users[u].holds)
             /\ d.users[u].holds \in SUBSET RoleIds
  <2>1. d.users \in [Users -> User]
    BY Zenon, <1>1 DEF Database
  <2> QED  BY Zenon, <1>3, <1>4, <2>1 DEF OneLeft, User
<1>8. ASSUME NEW u \in There(d), 2 \in e.users[u].holds PROVE 2 \in d.users[u].holds
  <2>1. 2 \notin IdOf(d, "user")
    <3>1. d.roles[2].name = "superadmin"
      BY <1>1 DEF RolesAt, Rank
    <3> QED  BY <3>1 DEF IdOf
  <2>2. d.users[u].holds # {} /\ 2 = Min(d.users[u].holds)
    BY Zenon, <1>7, <1>8, <2>1 DEF Left
  <2> QED  BY Zenon, <1>7, <2>2, MinOf
<1>9. ASSUME NEW u \in There(d), 2 \in d.users[u].holds, Alone(d.users[u].holds)
      PROVE  2 \in e.users[u].holds
  <2>1. d.users[u].holds = {2}
    <3>1. PICK i \in RoleIds : d.users[u].holds = {i}
      BY Zenon, <1>9 DEF Alone, One
    <3> QED  BY <1>9, <3>1
  <2>2. Min(d.users[u].holds) = 2
    BY Zenon, <1>7, <2>1, MinOf
  <2> QED  BY Zenon, <1>7, <1>9, <2>2 DEF Left
<1>10. /\ AdminIn(10, e) = {u \in There(d) : 2 \in e.users[u].holds}
       /\ AdminIn(11, d) = {u \in There(d) : 2 \in d.users[u].holds}
  BY <1>4 DEF AdminIn
<1>11. AdminIn(10, e) \subseteq AdminIn(11, d)
  BY Zenon, <1>8, <1>10
<1>12. \A u \in AdminIn(11, d) : Alone(d.users[u].holds) => u \in AdminIn(10, e)
  BY Zenon, <1>9, <1>10
<1> QED  BY Zenon, <1>4, <1>5, <1>6, <1>11, <1>12 DEF Sound

-----------------------------------------------------------------------------
(* The revisions that change roles.                                        *)

LEMMA FitsUsers ==
    ASSUME NEW n, NEW d, NEW e, e.users = d.users, Distinct(e), Fits(n, d)
    PROVE  Fits(n, e)
<1>1. There(e) = There(d)
  BY Zenon DEF There
<1>2. Open(e) = Open(d)
  BY Zenon, <1>1 DEF Open
<1> QED  BY Zenon, <1>1, <1>2 DEF Fits, Unique

LEMMA SameUsersRows ==
    ASSUME NEW n, NEW d, NEW e, e.users = d.users
    PROVE  (UsersAt(n, d) => UsersAt(n, e)) /\ AdminIn(n, e) = AdminIn(n, d)
<1>1. There(e) = There(d)
  BY Zenon DEF There
<1> QED  BY Zenon, <1>1 DEF UsersAt, AdminIn

LEMMA Up10 ==
    ASSUME NEW d, NEW t, Sound(9, d, t), NEW e, e = Upgraded(Chain[10].name, d)
    PROVE  Sound(10, e, t) /\ AdminIn(10, e) = AdminIn(9, d)
<1>1. d \in Database /\ Fits(9, d) /\ RolesAt(9, d, t) /\ UsersAt(9, d)
  BY DEF Sound
<1>2. e = rename(d, "admin", "superadmin")
  BY ZenonT(60), Ups
<1>3. /\ e \in Database /\ e.users = d.users /\ e.permissions = d.permissions
      /\ \A i \in RoleIds : e.roles[i] = IF d.roles[i].name = "admin"
                                         THEN [name |-> "superadmin", grants |-> d.roles[i].grants]
                                         ELSE d.roles[i]
  BY SMTT(60), <1>1, <1>2, NamesThere, Renaming
<1>4. /\ d.permissions = Grantable(9)
      /\ d.roles[2] = [name |-> "admin", grants |-> AdminGrants(9)]
      /\ d.roles[1].name \in {"user", "member"}
      /\ t = {} => d.roles[1] = [name |-> "user", grants |-> UserGrants(9)]
      /\ d.roles[3] = NoRole \/ d.roles[3].name \in RoleNames \ {"superadmin"}
  BY <1>1 DEF RolesAt, Rank
<1>5. d.roles[3].name # "admin" /\ (d.roles[1] # NoRole => d.roles[1].name # d.roles[3].name)
                                /\ (d.roles[3] # NoRole => d.roles[1].name # d.roles[3].name)
  <2>1. d.roles[2].name = "admin" /\ d.roles[2] # NoRole
    BY SMTT(60), <1>4 DEF NoRole, None
  <2>2. Distinct(d) /\ 1 \in RoleIds /\ 2 \in RoleIds /\ 3 \in RoleIds
    BY SMTT(60), <1>1 DEF Fits, RoleIds
  <2> QED  BY <2>1, <2>2 DEF Distinct
<1>6. /\ e.roles[1] = d.roles[1]
      /\ e.roles[2] = [name |-> "superadmin", grants |-> AdminGrants(9)]
      /\ e.roles[3] = d.roles[3]
  BY SMTT(60), <1>3, <1>4, <1>5 DEF RoleIds
<1>7. Distinct(e)
  <2>1. e.roles[2].name = "superadmin" /\ e.roles[1].name # "superadmin" /\ e.roles[3].name # "superadmin"
    BY SMTT(60), <1>4, <1>6 DEF NoRole, None
  <2> QED  BY SMTT(60), <1>5, <1>6, <2>1 DEF Distinct, RoleIds
<1>8. RolesAt(10, e, t)
  <2>1. 10 \in 1..25 /\ 10 \notin Gated /\ 10 - 1 = 9
    BY DEF Gated
  <2>2. AdminGrants(10) = AdminGrants(9) /\ UserGrants(10) = UserGrants(9) /\ Grantable(10) = Grantable(9)
    BY SMTT(60), <2>1, GrantsStay
  <2> QED  BY <1>3, <1>4, <1>6, <2>2 DEF RolesAt, Rank
<1>9. Fits(10, e)
  <2>1. Fits(9, e)
    BY Zenon, <1>1, <1>3, <1>7, FitsUsers
  <2> QED  BY <2>1 DEF Fits
<1>10. UsersAt(10, e) /\ AdminIn(10, e) = AdminIn(9, d)
  <2>1. UsersAt(9, e) /\ AdminIn(9, e) = AdminIn(9, d)
    BY Zenon, <1>1, <1>3, SameUsersRows
  <2>2. 10 \in 1..25 /\ 10 \notin {2, 9} /\ 10 # 9 /\ 10 - 1 = 9
    OBVIOUS
  <2> QED  BY <2>1, <2>2, UsersAlike, AdminAlike
<1> QED  BY Zenon, <1>3, <1>8, <1>9, <1>10 DEF Sound

LEMMA Down10 ==
    ASSUME NEW d, NEW t, Sound(10, d, t), NEW e, e = Downgraded(Chain[10].name, d), Fits(9, e)
    PROVE  Sound(9, e, t) /\ AdminIn(9, e) = AdminIn(10, d)
<1>1. d \in Database /\ RolesAt(10, d, t) /\ UsersAt(10, d)
  BY DEF Sound
<1>2. e = rename(d, "superadmin", "admin")
  BY ZenonT(60), Downs
<1>3. /\ e \in Database /\ e.users = d.users /\ e.permissions = d.permissions
      /\ \A i \in RoleIds : e.roles[i] = IF d.roles[i].name = "superadmin"
                                         THEN [name |-> "admin", grants |-> d.roles[i].grants]
                                         ELSE d.roles[i]
  BY SMTT(60), <1>1, <1>2, NamesThere, Renaming
<1>4. /\ d.permissions = Grantable(10)
      /\ d.roles[2] = [name |-> "superadmin", grants |-> AdminGrants(10)]
      /\ d.roles[1].name \in {"user", "member"}
      /\ t = {} => d.roles[1] = [name |-> "user", grants |-> UserGrants(10)]
      /\ d.roles[3] = NoRole \/ d.roles[3].name \in RoleNames \ {"superadmin"}
  BY SMTT(60), <1>1 DEF RolesAt, Rank
<1>5. d.roles[3].name # "superadmin"
  BY SMTT(60), <1>4 DEF NoRole, None
<1>6. /\ e.roles[1] = d.roles[1]
      /\ e.roles[2] = [name |-> "admin", grants |-> AdminGrants(10)]
      /\ e.roles[3] = d.roles[3]
  BY SMTT(60), <1>3, <1>4, <1>5 DEF RoleIds
<1>7. RolesAt(9, e, t)
  <2>1. 10 \in 1..25 /\ 10 \notin Gated /\ 10 - 1 = 9
    BY DEF Gated
  <2>2. AdminGrants(10) = AdminGrants(9) /\ UserGrants(10) = UserGrants(9) /\ Grantable(10) = Grantable(9)
    BY <2>1, GrantsStay
  <2> QED  BY <1>3, <1>4, <1>6, <2>2 DEF RolesAt, Rank
<1>8. UsersAt(9, e) /\ AdminIn(9, e) = AdminIn(10, d)
  <2>1. UsersAt(10, e) /\ AdminIn(10, e) = AdminIn(10, d)
    BY Zenon, <1>1, <1>3, SameUsersRows
  <2>2. 10 \in 1..25 /\ 10 \notin {2, 9} /\ 10 # 9 /\ 10 # 1 /\ 10 - 1 = 9
    OBVIOUS
  <2> QED  BY <2>1, <2>2, UsersAlike, AdminAlike
<1> QED  BY Zenon, <1>3, <1>7, <1>8 DEF Sound

LEMMA GatePlaces ==
    ASSUME NEW k \in Gated
    PROVE  /\ k \in 1..25 /\ k \notin {1, 2, 3, 9, 11} /\ k \notin {2, 9} /\ k # 9 /\ k # 1
           /\ ~(k < 9) /\ ~(k - 1 < 9) /\ Rank(k) = "superadmin" /\ Rank(k - 1) = "superadmin"
BY DEF Gated, Rank

LEMMA UpGate ==
    ASSUME NEW k \in Gated, NEW d, NEW t, Sound(k - 1, d, t), NEW e, e = Upgraded(Chain[k].name, d)
    PROVE  Sound(k, e, t) /\ AdminIn(k, e) = AdminIn(k - 1, d)
<1>1. d \in Database /\ Fits(k - 1, d) /\ RolesAt(k - 1, d, t) /\ UsersAt(k - 1, d)
  BY DEF Sound
<1>2. e = grant(d, GateAt(k))
  BY Zenon, Ups
<1> DEFINE Gets(i) == d.roles[i].name \in GateAt(k).holders /\ Key(k) \notin Keys(d.roles[i].grants)
<1>3. /\ e \in Database /\ e.users = d.users /\ e.permissions = d.permissions \cup {Key(k)}
      /\ \A i \in RoleIds : e.roles[i] = IF Gets(i) THEN [name |-> d.roles[i].name,
                                                          grants |-> d.roles[i].grants \cup {Granted(k)}]
                                                    ELSE d.roles[i]
  BY Zenon, <1>1, <1>2, Granting
<1>4. /\ d.permissions = Grantable(k - 1)
      /\ d.roles[2] = [name |-> "superadmin", grants |-> AdminGrants(k - 1)]
      /\ d.roles[1].name \in {"user", "member"}
      /\ t = {} => d.roles[1] = [name |-> "user", grants |-> UserGrants(k - 1)]
      /\ d.roles[3] = NoRole \/ d.roles[3].name \in RoleNames \ {"superadmin"}
  BY Zenon, <1>1, GatePlaces DEF RolesAt
<1>5. Key(k) \notin Keys(AdminGrants(k - 1)) /\ Key(k) \notin Keys(UserGrants(k - 1))
  BY Zenon, NotYet DEF Keys
<1>6. GateAt(k).holders = IF k = 12 THEN {"user", "superadmin"} ELSE {"superadmin"}
  BY Zenon, GateHolders
<1>7. 1 \in RoleIds /\ 2 \in RoleIds /\ 3 \in RoleIds
  BY DEF RoleIds
<1>8. e.roles[2] = [name |-> "superadmin", grants |-> AdminGrants(k)]
  <2>1. d.roles[2].name = "superadmin" /\ d.roles[2].grants = AdminGrants(k - 1)
    BY <1>4
  <2>2. Gets(2)
    BY <1>5, <1>6, <2>1
  <2>3. e.roles[2] = [name |-> d.roles[2].name, grants |-> d.roles[2].grants \cup {Granted(k)}]
    BY Zenon, <1>3, <1>7, <2>2
  <2>4. AdminGrants(k) = AdminGrants(k - 1) \cup {Granted(k)}
    BY Zenon, GrantsGrow
  <2> QED  BY Zenon, <2>1, <2>3, <2>4
<1>9. ASSUME t = {} PROVE e.roles[1] = [name |-> "user", grants |-> UserGrants(k)]
  <2>1. d.roles[1].name = "user" /\ d.roles[1].grants = UserGrants(k - 1)
    BY <1>4, <1>9
  <2>2. UserGrants(k) = UserGrants(k - 1) \cup (IF k = 12 THEN {Granted(k)} ELSE {})
    BY Zenon, GrantsGrow
  <2>3. CASE k = 12
    <3>1. Gets(1)
      BY <1>5, <1>6, <2>1, <2>3
    <3>2. UserGrants(k) = UserGrants(k - 1) \cup {Granted(k)}
      BY Zenon, <2>2, <2>3
    <3>3. e.roles[1] = [name |-> d.roles[1].name, grants |-> d.roles[1].grants \cup {Granted(k)}]
      BY Zenon, <1>3, <1>7, <3>1
    <3> QED  BY Zenon, <2>1, <3>2, <3>3
  <2>4. CASE k # 12
    <3>1. ~Gets(1)
      BY <1>6, <2>1, <2>4
    <3>2. UserGrants(k) = UserGrants(k - 1)
      BY <2>2, <2>4
    <3>3. e.roles[1] = d.roles[1]
      BY Zenon, <1>3, <1>7, <3>1
    <3> QED  BY Zenon, <1>4, <1>9, <3>2, <3>3
  <2> QED  BY Zenon, <2>3, <2>4
<1>10. \A i \in RoleIds : e.roles[i].name = d.roles[i].name /\ (d.roles[i] = NoRole => e.roles[i] = NoRole)
  <2> SUFFICES ASSUME NEW i \in RoleIds
               PROVE  e.roles[i].name = d.roles[i].name /\ (d.roles[i] = NoRole => e.roles[i] = NoRole)
    OBVIOUS
  <2>1. d.roles[i] = NoRole => ~Gets(i)
    BY SMTT(60), <1>6 DEF NoRole, None
  <2>2. CASE Gets(i)
    <3>1. e.roles[i] = [name |-> d.roles[i].name, grants |-> d.roles[i].grants \cup {Granted(k)}]
      BY Zenon, <1>3, <2>2
    <3> QED  BY <2>1, <2>2, <3>1
  <2>3. CASE ~Gets(i)
    BY Zenon, <1>3, <2>3
  <2> QED  BY Zenon, <2>2, <2>3
<1> HIDE DEF Gets
<1>11. RolesAt(k, e, t)
  <2>1. e.permissions = Grantable(k)
    BY Zenon, <1>3, <1>4, GrantsGrow
  <2>2. e.roles[1].name \in {"user", "member"} /\ (e.roles[3] = NoRole \/ e.roles[3].name \in RoleNames \ {"superadmin"})
    BY Zenon, <1>4, <1>7, <1>10
  <2> QED  BY Zenon, <1>8, <1>9, <2>1, <2>2, GatePlaces DEF RolesAt
<1>12. Fits(k, e)
  <2>1. Distinct(e)
    <3>1. Distinct(d)
      BY Zenon, <1>1 DEF Fits
    <3> SUFFICES ASSUME NEW i \in RoleIds, NEW j \in RoleIds, i # j, e.roles[i] # NoRole
                 PROVE  e.roles[i].name # e.roles[j].name
      BY Zenon DEF Distinct
    <3>2. d.roles[i] # NoRole
      BY Zenon, <1>10
    <3>3. d.roles[i].name # d.roles[j].name
      BY Zenon, <3>1, <3>2 DEF Distinct
    <3> QED  BY Zenon, <1>10, <3>3
  <2>2. Fits(k - 1, e)
    BY Zenon, <1>1, <1>3, <2>1, FitsUsers
  <2> QED  BY Zenon, <2>2, GatePlaces, FitsAlike
<1>13. UsersAt(k, e) /\ AdminIn(k, e) = AdminIn(k - 1, d)
  <2>1. UsersAt(k - 1, e) /\ AdminIn(k - 1, e) = AdminIn(k - 1, d)
    BY Zenon, <1>1, <1>3, SameUsersRows
  <2> QED  BY Zenon, <2>1, GatePlaces, UsersAlike, AdminAlike
<1> QED  BY Zenon, <1>3, <1>11, <1>12, <1>13 DEF Sound

LEMMA DownGate ==
    ASSUME NEW k \in Gated, NEW d, NEW t, Sound(k, d, t), NEW e, e = Downgraded(Chain[k].name, d), Fits(k - 1, e)
    PROVE  Sound(k - 1, e, t) /\ AdminIn(k - 1, e) = AdminIn(k, d)
<1>1. d \in Database /\ RolesAt(k, d, t) /\ UsersAt(k, d)
  BY DEF Sound
<1>2. e = revoke(d, GateAt(k))
  BY Zenon, Downs
<1>3. /\ e \in Database /\ e.users = d.users /\ e.permissions = d.permissions \ {Key(k)}
      /\ \A i \in RoleIds : e.roles[i] = [name |-> d.roles[i].name, grants |-> Without(d.roles[i].grants, k)]
  <2>1. Revoked(d, e, k)
    BY Zenon, <1>1, <1>2, Revoking
  <2> QED  BY Zenon, <2>1 DEF Revoked
<1>4. /\ d.permissions = Grantable(k)
      /\ d.roles[2] = [name |-> "superadmin", grants |-> AdminGrants(k)]
      /\ d.roles[1].name \in {"user", "member"}
      /\ t = {} => d.roles[1] = [name |-> "user", grants |-> UserGrants(k)]
      /\ d.roles[3] = NoRole \/ d.roles[3].name \in RoleNames \ {"superadmin"}
  BY Zenon, <1>1, GatePlaces DEF RolesAt
<1>5. 1 \in RoleIds /\ 2 \in RoleIds /\ 3 \in RoleIds
  BY DEF RoleIds
<1>6. e.roles[2] = [name |-> "superadmin", grants |-> AdminGrants(k - 1)]
  <2>1. d.roles[2].name = "superadmin" /\ d.roles[2].grants = AdminGrants(k)
    BY <1>4
  <2> QED  BY ZenonT(60), <1>3, <1>5, <2>1, GrantsShrink
<1>7. ASSUME t = {} PROVE e.roles[1] = [name |-> "user", grants |-> UserGrants(k - 1)]
  <2>1. d.roles[1].name = "user" /\ d.roles[1].grants = UserGrants(k)
    BY SMTT(60), <1>4, <1>7
  <2> QED  BY ZenonT(60), <1>3, <1>5, <2>1, GrantsShrink
<1>8. e.roles[1].name = d.roles[1].name
  <2>1. e.roles[1] = [name |-> d.roles[1].name, grants |-> Without(d.roles[1].grants, k)]
    BY Zenon, <1>3, <1>5
  <2> QED  BY <2>1
<1>9. e.roles[3] = NoRole \/ e.roles[3].name \in RoleNames \ {"superadmin"}
  <2>1. e.roles[3] = [name |-> d.roles[3].name, grants |-> Without(d.roles[3].grants, k)]
    BY Zenon, <1>3, <1>5
  <2>2. CASE d.roles[3] = NoRole
    <3>1. Without({}, k) = {}
      BY DEF Without
    <3> QED  BY SMTT(60), <2>1, <2>2, <3>1 DEF NoRole
  <2>3. CASE d.roles[3] # NoRole
    BY <1>4, <2>1, <2>3
  <2> QED  BY Zenon, <2>2, <2>3
<1>10. RolesAt(k - 1, e, t)
  <2>1. e.permissions = Grantable(k - 1)
    BY Zenon, <1>3, <1>4, GrantsShrink
  <2> QED  BY Zenon, <1>4, <1>6, <1>7, <1>8, <1>9, <2>1, GatePlaces DEF RolesAt
<1>11. UsersAt(k - 1, e) /\ AdminIn(k - 1, e) = AdminIn(k, d)
  <2>1. UsersAt(k, e) /\ AdminIn(k, e) = AdminIn(k, d)
    BY Zenon, <1>1, <1>3, SameUsersRows
  <2> QED  BY Zenon, <2>1, GatePlaces, UsersAlike, AdminAlike
<1> QED  BY Zenon, <1>3, <1>10, <1>11 DEF Sound

-----------------------------------------------------------------------------
(* Any revision, up and down.                                              *)

LEMMA Upgrades ==
    ASSUME NEW n \in 1..25, NEW d, NEW t, Sound(n - 1, d, t), NEW e, e = Upgraded(Chain[n].name, d)
    PROVE  /\ ~Fits(n, e) => (n = 8 /\ Twins(d)) \/ (n = 9 /\ Unknown(d))
           /\ Fits(n, e) => Sound(n, e, t)
           /\ AdminIn(n, e) = AdminIn(n - 1, d)
<1>1. 2 - 1 = 1 /\ 8 - 1 = 7 /\ 9 - 1 = 8 /\ 10 - 1 = 9
  OBVIOUS
<1>2. n \in {2, 8, 9, 10} \/ n \in Gated \/ n \in Plain
  BY DEF Plain
<1>3. CASE n = 2
  <2>1. Sound(2, e, t) /\ AdminIn(2, e) = AdminIn(1, d)
    BY Zenon, <1>1, <1>3, Up2
  <2> QED  BY Zenon, <1>1, <1>3, <2>1 DEF Sound
<1>4. CASE n = 8
  <2>1. /\ ~Fits(8, e) => Twins(d)
        /\ Fits(8, e) => Sound(8, e, t)
        /\ AdminIn(8, e) = AdminIn(7, d)
    BY Zenon, <1>1, <1>4, Up8
  <2> QED  BY Zenon, <1>1, <1>4, <2>1
<1>5. CASE n = 9
  <2>1. /\ ~Fits(9, e) => Unknown(d)
        /\ Fits(9, e) => Sound(9, e, t)
        /\ AdminIn(9, e) = AdminIn(8, d)
    BY Zenon, <1>1, <1>5, Up9
  <2> QED  BY Zenon, <1>1, <1>5, <2>1
<1>6. CASE n = 10
  <2>1. Sound(10, e, t) /\ AdminIn(10, e) = AdminIn(9, d)
    BY Zenon, <1>1, <1>6, Up10
  <2> QED  BY Zenon, <1>1, <1>6, <2>1 DEF Sound
<1>7. CASE n \in Gated
  BY Zenon, <1>7, UpGate DEF Sound
<1>8. CASE n \in Plain
  <2>1. e = d
    BY Zenon, <1>8, Ups
  <2> QED  BY Zenon, <1>8, <2>1, UpPlain DEF Sound
<1> QED  BY ZenonT(60), <1>2, <1>3, <1>4, <1>5, <1>6, <1>7, <1>8

\* Nobody gains the rank, and who has it alone keeps it.
NoneGains(n, d, e) ==
    /\ AdminIn(n - 1, e) \subseteq AdminIn(n, d)
    /\ n - 1 >= 2 => \A u \in AdminIn(n, d) : Alone(d.users[u].holds) => u \in AdminIn(n - 1, e)

LEMMA Downgrades ==
    ASSUME NEW n \in 1..25, NEW d, NEW t, Sound(n, d, t), NEW e, e = Downgraded(Chain[n].name, d), Fits(n - 1, e),
           NEW s, s = IF n - 1 >= 9 THEN t ELSE {}
    PROVE  Sound(n - 1, e, s) /\ NoneGains(n, d, e)
<1>1. 1 - 1 = 0 /\ 2 - 1 = 1 /\ 3 - 1 = 2 /\ 9 - 1 = 8 /\ 10 - 1 = 9 /\ 11 - 1 = 10
  OBVIOUS
<1>2. n \in {1, 2, 3, 9, 10, 11} \/ n \in Gated \/ n \in PlainBack
  BY DEF PlainBack
<1>3. n # 9 => s = t
  <2>1. n < 9 => t = {}
    BY Zenon DEF Sound, RolesAt
  <2>2. n # 9 => n < 9 \/ n - 1 >= 9
    OBVIOUS
  <2> QED  BY Zenon, <2>1, <2>2
<1>4. CASE n = 1
  <2>1. Sound(0, e, t) /\ AdminIn(0, e) = {}
    BY Zenon, <1>4, Down1
  <2>2. ~(n - 1 >= 2) /\ n - 1 = 0 /\ n # 9
    BY <1>4
  <2> QED  BY Zenon, <1>3, <2>1, <2>2 DEF NoneGains
<1>5. CASE n = 2
  <2>1. Sound(1, e, t) /\ AdminIn(1, e) = {}
    BY Zenon, <1>1, <1>5, Down2
  <2>2. ~(n - 1 >= 2) /\ n - 1 = 1 /\ n # 9
    BY <1>5
  <2> QED  BY Zenon, <1>3, <2>1, <2>2 DEF NoneGains
<1>6. CASE n = 3
  <2>1. Sound(2, e, t) /\ AdminIn(2, e) = AdminIn(3, d)
    BY Zenon, <1>1, <1>6, Down3
  <2>2. n - 1 = 2 /\ n # 9
    BY <1>6
  <2> QED  BY Zenon, <1>3, <1>6, <2>1, <2>2 DEF NoneGains
<1>7. CASE n = 9
  <2>1. Sound(8, e, {}) /\ AdminIn(8, e) = AdminIn(9, d)
    BY Zenon, <1>1, <1>7, Down9
  <2>2. n - 1 = 8 /\ s = {}
    BY <1>7
  <2> QED  BY Zenon, <1>7, <2>1, <2>2 DEF NoneGains
<1>8. CASE n = 10
  <2>1. Sound(9, e, t) /\ AdminIn(9, e) = AdminIn(10, d)
    BY Zenon, <1>1, <1>8, Down10
  <2>2. n - 1 = 9 /\ n # 9
    BY <1>8
  <2> QED  BY Zenon, <1>3, <1>8, <2>1, <2>2 DEF NoneGains
<1>9. CASE n = 11
  <2>1. /\ Sound(10, e, t)
        /\ AdminIn(10, e) \subseteq AdminIn(11, d)
        /\ \A u \in AdminIn(11, d) : Alone(d.users[u].holds) => u \in AdminIn(10, e)
    BY Zenon, <1>1, <1>9, Down11
  <2>2. n - 1 = 10 /\ n # 9
    BY <1>9
  <2> QED  BY Zenon, <1>3, <1>9, <2>1, <2>2 DEF NoneGains
<1>10. CASE n \in Gated
  <2>1. Sound(n - 1, e, t) /\ AdminIn(n - 1, e) = AdminIn(n, d)
    BY Zenon, <1>10, DownGate
  <2>2. n # 9
    BY <1>10 DEF Gated
  <2> QED  BY Zenon, <1>3, <2>1, <2>2 DEF NoneGains
<1>11. CASE n \in PlainBack
  <2>1. e = d /\ n # 9
    <3>1. e = d
      BY Zenon, <1>11, Downs
    <3>2. n # 9
      BY <1>11 DEF PlainBack
    <3> QED  BY Zenon, <3>1, <3>2
  <2>2. Sound(n - 1, d, t) /\ AdminIn(n, d) = AdminIn(n - 1, d)
    BY Zenon, <1>11, DownPlain
  <2> QED  BY Zenon, <1>3, <2>1, <2>2 DEF NoneGains
<1> QED  BY ZenonT(60), <1>2, <1>4, <1>5, <1>6, <1>7, <1>8, <1>9, <1>10, <1>11

LEMMA Places ==
    /\ PlaceOf("add_timestamps_and_user_role") = 2
    /\ PlaceOf("lowercase_existing_emails") = 8
    /\ PlaceOf("rename_the_admin_role") = 10
<1>1. Latest = 25
  BY Zenon, ChainAt
<1>2. \A n \in 1..25 : /\ Chain[n].name = "add_timestamps_and_user_role" <=> n = 2
                       /\ Chain[n].name = "lowercase_existing_emails" <=> n = 8
                       /\ Chain[n].name = "rename_the_admin_role" <=> n = 10
  BY SMTT(60), Names
<1>3. 2 \in 1..25 /\ 8 \in 1..25 /\ 10 \in 1..25
  OBVIOUS
<1> QED  BY Zenon, <1>1, <1>2, <1>3 DEF PlaceOf

-----------------------------------------------------------------------------
(* The service.                                                            *)

LEMMA OneUser ==
    ASSUME NEW n, NEW d \in Database, UsersAt(n, d), NEW u \in Users, NEW x \in User,
           n > 0, x.email \in Addresses, n \notin 2..8 => x.role = None, n < 9 => x.holds = {},
           NEW e, e = [d EXCEPT !.users[u] = x]
    PROVE  e \in Database /\ SameRoles(d, e) /\ UsersAt(n, e)
<1> DEFINE f == [d.users EXCEPT ![u] = x]
<1>1. d.users \in [Users -> User]
  BY Zenon DEF Database
<1>2. f \in [Users -> User] /\ f[u] = x /\ \A v \in Users : v # u => f[v] = d.users[v]
  BY <1>1
<1>3. e = [d EXCEPT !.users = f]
  BY Zenon
<1> HIDE DEF f
<1>4. e \in Database /\ e.users = f /\ SameRoles(d, e)
  BY Zenon, <1>2, <1>3, NewUsers DEF UsersNow
<1>5. UsersAt(n, e)
  BY Zenon, <1>2, <1>4 DEF UsersAt
<1> QED  BY Zenon, <1>4, <1>5

Placed(d, e, i, x) ==
    /\ e \in Database /\ e.users = d.users /\ e.permissions = d.permissions /\ e.roles[i] = x
    /\ \A j \in RoleIds : j # i => e.roles[j] = d.roles[j]

LEMMA OneRole ==
    ASSUME NEW d \in Database, NEW i \in RoleIds, NEW x \in Role, NEW e, e = [d EXCEPT !.roles[i] = x]
    PROVE  Placed(d, e, i, x)
<1> DEFINE f == [d.roles EXCEPT ![i] = x]
           p == d.permissions
<1>1. d.roles \in [RoleIds -> Role] /\ p \in SUBSET Permissions
  BY Zenon DEF Database
<1>2. f \in [RoleIds -> Role] /\ f[i] = x /\ \A j \in RoleIds : j # i => f[j] = d.roles[j]
  BY <1>1
<1>3. e = [d EXCEPT !.roles = f] /\ p = d.permissions
  BY Zenon
<1> HIDE DEF f, p
<1>4. Reroled(d, e, f, p)
  BY Zenon, <1>1, <1>2, <1>3 DEF Reroled
<1>5. RolesNow(d, e, f, p)
  BY Zenon, <1>4, NewRoles
<1> QED  BY Zenon, <1>2, <1>3, <1>5 DEF Placed, RolesNow

LEMMA EarlierRelease ==
    ASSUME MigInv, earlier_release
    PROVE  MigInv'
<1>1. rev = 7 /\ UNCHANGED <<rev, schema, touched>>
  BY Places DEF earlier_release
<1>2. PICK u \in Users, email \in Addresses, upper, closed \in BOOLEAN, role \in {"user", "admin"} :
        /\ db.users[u] = NoUser
        /\ db' = [db EXCEPT !.users[u] = [email |-> email, upper |-> upper, closed |-> closed,
                                          role |-> role, holds |-> {}]]
  BY DEF earlier_release
<1> DEFINE x == [email |-> email, upper |-> upper, closed |-> closed, role |-> role, holds |-> {}]
<1>3. x \in User /\ x.email \in Addresses /\ x.holds = {}
  <2>1. email \in Addresses \cup {None} /\ role \in UserRoles /\ {} \in SUBSET RoleIds
    BY DEF UserRoles
  <2> QED  BY <2>1 DEF User
<1>4. db' = [db EXCEPT !.users[u] = x]
  BY Zenon, <1>2
<1> HIDE DEF x
<1>5. db \in Database /\ UsersAt(7, db) /\ RolesAt(7, db, touched)
  BY <1>1 DEF MigInv, Sound
<1>6. db' \in Database /\ SameRoles(db, db') /\ UsersAt(7, db')
  <2>1. 7 > 0 /\ 7 \in 2..8
    OBVIOUS
  <2> QED  BY Zenon, <1>3, <1>4, <1>5, <2>1, OneUser
<1>7. RolesAt(7, db', touched)
  BY Zenon, <1>5, <1>6, RolesKept
<1>8. Fits(7, db')
  <2>1. Allowed(db', SchemaAt(rev)) /\ rev \in 0..Latest
    BY Zenon DEF earlier_release, MigInv
  <2>2. Fits(rev, db')
    BY Zenon, <2>1, FitsIsAllowed
  <2> QED  BY Zenon, <1>1, <2>2
<1> QED  BY <1>1, <1>6, <1>7, <1>8 DEF MigInv, Sound

LEMMA ThisRelease ==
    ASSUME MigInv, this_release
    PROVE  MigInv'
<1>1. rev = 25 /\ rev' = rev /\ schema' = schema /\ Latest = 25
  BY ChainAt DEF this_release
<1>2. db \in Database /\ UsersAt(25, db) /\ RolesAt(25, db, touched) /\ touched \subseteq {"user"}
  BY <1>1 DEF MigInv, Sound
<1>3. Fits(25, db')
  <2>1. Allowed(db', SchemaAt(rev)) /\ rev \in 0..Latest
    BY Zenon DEF this_release, MigInv
  <2>2. Fits(rev, db')
    BY Zenon, <2>1, FitsIsAllowed
  <2> QED  BY Zenon, <1>1, <2>2
<1>4. 25 > 0 /\ 25 \notin 2..8 /\ ~(25 < 9)
  OBVIOUS
<1>5. db.users \in [Users -> User] /\ db.roles \in [RoleIds -> Role] /\ There(db) \subseteq Users
  BY Zenon, <1>2 DEF Database, There
<1> DEFINE Good(d, t) == d \in Database /\ UsersAt(25, d) /\ RolesAt(25, d, t) /\ t \subseteq {"user"}
<1>6. SUFFICES Good(db', touched')
  BY <1>1, <1>3 DEF MigInv, Sound
<1>7. ASSUME NEW u \in Users, NEW x \in User, x.email \in Addresses, x.role = None,
             db' = [db EXCEPT !.users[u] = x], UNCHANGED touched
      PROVE  Good(db', touched')
  <2>1. db' \in Database /\ SameRoles(db, db') /\ UsersAt(25, db')
    BY Zenon, <1>2, <1>4, <1>7, OneUser
  <2>2. RolesAt(25, db', touched)
    BY Zenon, <1>2, <2>1, RolesKept
  <2> QED  BY Zenon, <1>2, <1>7, <2>1, <2>2
<1>8. \A u \in There(db) : db.users[u] \in User /\ db.users[u].email \in Addresses /\ db.users[u].role = None
  BY Zenon, <1>2, <1>4, <1>5 DEF UsersAt, There
<1>9. ASSUME NEW u \in Users, NEW email \in Addresses, UNCHANGED touched,
             db' = [db EXCEPT !.users[u] = [NoUser EXCEPT !.email = email, !.holds = IdOf(db, "user")]]
      PROVE  Good(db', touched')
  <2> DEFINE x == [NoUser EXCEPT !.email = email, !.holds = IdOf(db, "user")]
  <2>1. NoUser \in User /\ email \in Addresses \cup {None} /\ IdOf(db, "user") \in SUBSET RoleIds
    BY DEF User, UserRoles, NoUser, IdOf
  <2>2. x \in User
    BY Zenon, <2>1 DEF User
  <2>3. x.email = email /\ x.role = None
    BY DEF NoUser
  <2>4. db' = [db EXCEPT !.users[u] = x]
    BY Zenon, <1>9
  <2> HIDE DEF x
  <2> QED  BY Zenon, <1>7, <1>9, <2>2, <2>3, <2>4
<1>10. ASSUME NEW u \in There(db), db' = [db EXCEPT !.users[u].closed = TRUE], UNCHANGED touched
       PROVE  Good(db', touched')
  <2> DEFINE x == [db.users[u] EXCEPT !.closed = TRUE]
  <2>1. x \in User
    BY Zenon, <1>8 DEF User
  <2>2. x.email \in Addresses /\ x.role = None
    BY <1>8 DEF User
  <2>3. db' = [db EXCEPT !.users[u] = x]
    BY Zenon, <1>10
  <2> HIDE DEF x
  <2> QED  BY ZenonT(60), <1>5, <1>7, <1>10, <2>1, <2>2, <2>3
<1>11. ASSUME NEW u \in There(db), NEW i \in RoleIds, UNCHANGED touched,
              db' = [db EXCEPT !.users[u].holds = IF i \in @ THEN @ \ {i} ELSE @ \cup {i}]
       PROVE  Good(db', touched')
  <2> DEFINE h == IF i \in db.users[u].holds THEN db.users[u].holds \ {i} ELSE db.users[u].holds \cup {i}
             x == [db.users[u] EXCEPT !.holds = h]
  <2>1. db' = [db EXCEPT !.users[u] = x]
    BY Zenon, <1>11
  <2>2. h \in SUBSET RoleIds
    <3>1. db.users[u].holds \in SUBSET RoleIds
      BY Zenon, <1>8 DEF User
    <3> QED  BY Zenon, <3>1
  <2> HIDE DEF h
  <2>3. x \in User
    BY Zenon, <1>8, <2>2 DEF User
  <2>4. x.email \in Addresses /\ x.role = None
    BY SMTT(60), <1>8 DEF User
  <2> HIDE DEF x
  <2> QED  BY Zenon, <1>5, <1>7, <1>11, <2>1, <2>3, <2>4
<1>12. /\ db.permissions = Grantable(25)
       /\ db.roles[2] = [name |-> "superadmin", grants |-> AdminGrants(25)]
       /\ db.roles[1].name \in {"user", "member"}
       /\ touched = {} => db.roles[1] = [name |-> "user", grants |-> UserGrants(25)]
       /\ db.roles[3] = NoRole \/ db.roles[3].name \in RoleNames \ {"superadmin"}
  BY <1>2 DEF RolesAt, Rank
<1>13. 1 \in RoleIds /\ 2 \in RoleIds /\ 3 \in RoleIds
  BY DEF RoleIds
<1>14. ASSUME NEW name \in RoleNames, UNCHANGED touched,
              db' = [db EXCEPT !.roles[3] = [name |-> name, grants |-> {All("users", "impersonate")}]]
       PROVE  Good(db', touched')
  <2> DEFINE x == [name |-> name, grants |-> {All("users", "impersonate")}]
  <2>1. x \in Role
    <3>1. All("users", "impersonate") = Granted(17) /\ 17 \in Gated
      BY GateKeys DEF Granted, Gated
    <3>2. {All("users", "impersonate")} \in SUBSET Grants
      BY <3>1, GateTyped
    <3>3. name \in AllNames
      BY DEF AllNames, UserRoles
    <3> QED  BY Zenon, <3>2, <3>3, RoleMade
  <2>2. x.name = name
    OBVIOUS
  <2>3. db' = [db EXCEPT !.roles[3] = x]
    BY Zenon, <1>14
  <2> HIDE DEF x
  <2>4. /\ db' \in Database /\ db'.users = db.users /\ db'.permissions = db.permissions /\ db'.roles[3] = x
        /\ \A j \in RoleIds : j # 3 => db'.roles[j] = db.roles[j]
    <3>1. Placed(db, db', 3, x)
      BY Zenon, <1>2, <1>13, <2>1, <2>3, OneRole
    <3> QED  BY Zenon, <3>1 DEF Placed
  <2>5. db'.roles[1] = db.roles[1] /\ db'.roles[2] = db.roles[2]
    BY <1>13, <2>4
  <2>6. name # "superadmin"
    <3>1. db'.roles[2].name = "superadmin" /\ db'.roles[2] # NoRole
      BY <1>12, <2>5 DEF NoRole, None
    <3> QED  BY SMTT(60), <1>3, <1>13, <2>2, <2>4, <3>1 DEF Fits, Distinct
  <2>7. RolesAt(25, db', touched)
    BY SMTT(60), <1>12, <1>14, <2>2, <2>4, <2>5, <2>6 DEF RolesAt, Rank
  <2>8. UsersAt(25, db')
    BY Zenon, <1>2, <2>4, SameUsersRows
  <2> QED  BY ZenonT(60), <1>2, <1>14, <2>4, <2>7, <2>8
<1>15. ASSUME NEW name \in {"user", "member"}, touched' = {"user"},
              db' = [db EXCEPT !.roles[1] = [name |-> name, grants |-> {}]]
       PROVE  Good(db', touched')
  <2> DEFINE x == [name |-> name, grants |-> {}]
  <2>1. x \in Role
    <3>1. name \in AllNames /\ {} \in SUBSET Grants
      BY NamesThere
    <3> QED  BY Zenon, <3>1, RoleMade
  <2>2. x.name = name
    OBVIOUS
  <2>3. db' = [db EXCEPT !.roles[1] = x]
    BY Zenon, <1>15
  <2> HIDE DEF x
  <2>4. /\ db' \in Database /\ db'.users = db.users /\ db'.permissions = db.permissions /\ db'.roles[1] = x
        /\ \A j \in RoleIds : j # 1 => db'.roles[j] = db.roles[j]
    <3>1. Placed(db, db', 1, x)
      BY ZenonT(60), <1>2, <1>13, <2>1, <2>3, OneRole
    <3> QED  BY Zenon, <3>1 DEF Placed
  <2>5. db'.roles[2] = db.roles[2] /\ db'.roles[3] = db.roles[3]
    BY <1>13, <2>4
  <2>6. RolesAt(25, db', touched')
    BY SMTT(60), <1>12, <1>15, <2>2, <2>4, <2>5 DEF RolesAt, Rank
  <2>7. UsersAt(25, db')
    BY Zenon, <1>2, <2>4, SameUsersRows
  <2> QED  BY Zenon, <1>15, <2>4, <2>6, <2>7
<1> HIDE DEF Good
<1>16. CASE \E u \in There(db), i \in {i \in RoleIds : db.roles[i] # NoRole} :
              /\ db' = [db EXCEPT !.users[u].holds = IF i \in @ THEN @ \ {i} ELSE @ \cup {i}]
              /\ UNCHANGED touched
  BY Zenon, <1>11, <1>16
<1> QED  BY ZenonT(60), <1>9, <1>10, <1>14, <1>15, <1>16 DEF this_release

-----------------------------------------------------------------------------
(* The theorems.                                                           *)

\* A step of the chain, in the terms of the revision it goes to or comes from.
LEMMA UpFacts ==
    ASSUME MigInv, rev < Latest
    PROVE  /\ rev + 1 \in 1..25 /\ (rev + 1) - 1 = rev /\ rev + 1 \in 0..Latest
           /\ Applied(schema, Chain[rev + 1].up) = SchemaAt(rev + 1)
           /\ CanUpgrade <=> Fits(rev + 1, Upgraded(Chain[rev + 1].name, db))
<1>1. rev + 1 \in 1..25 /\ rev + 1 \in 1..Latest /\ (rev + 1) - 1 = rev /\ rev + 1 \in 0..Latest
  BY ChainAt DEF MigInv
<1>2. Applied(schema, Chain[rev + 1].up) = SchemaAt(rev + 1)
  BY Zenon, <1>1, UpStep DEF MigInv
<1>3. CanUpgrade <=> Fits(rev + 1, Upgraded(Chain[rev + 1].name, db))
  BY Zenon, <1>1, <1>2, FitsIsAllowed DEF CanUpgrade
<1> QED  BY ZenonT(60), <1>1, <1>2, <1>3

LEMMA DownFacts ==
    ASSUME MigInv, downgrade
    PROVE  /\ rev \in 1..25 /\ rev - 1 \in 0..Latest /\ rev' = rev - 1
           /\ schema' = SchemaAt(rev - 1)
           /\ db' = Downgraded(Chain[rev].name, db) /\ Fits(rev - 1, db')
           /\ touched' = IF rev - 1 >= 9 THEN touched ELSE {}
<1>1. rev \in 1..25 /\ rev \in 1..Latest /\ rev - 1 \in 0..Latest /\ rev' = rev - 1
  BY ChainAt DEF MigInv, downgrade
<1>2. schema' = SchemaAt(rev - 1)
  BY Zenon, <1>1, DownStep DEF MigInv, downgrade
<1>3. db' = Downgraded(Chain[rev].name, db) /\ Allowed(db', SchemaAt(rev - 1))
  BY Zenon, <1>2 DEF downgrade
<1>4. Fits(rev - 1, db')
  BY Zenon, <1>1, <1>3, FitsIsAllowed
<1>5. "roles" \in schema' <=> rev - 1 >= 9
  BY Zenon, <1>1, <1>2, InForce
<1> QED  BY ZenonT(60), <1>1, <1>2, <1>3, <1>4, <1>5 DEF downgrade

LEMMA MigNext ==
    ASSUME MigInv, [Next]_vars
    PROVE  MigInv'
<1>1. CASE upgrade
  <2>1. rev < Latest /\ CanUpgrade /\ rev' = rev + 1 /\ schema' = Applied(schema, Chain[rev + 1].up)
        /\ db' = Upgraded(Chain[rev + 1].name, db) /\ touched' = touched
    BY Zenon, <1>1 DEF upgrade
  <2>2. rev' \in 1..25 /\ rev' - 1 = rev /\ rev' \in 0..Latest /\ schema' = SchemaAt(rev') /\ Fits(rev', db')
    BY Zenon, <2>1, UpFacts
  <2>3. Sound(rev' - 1, db, touched) /\ db' = Upgraded(Chain[rev'].name, db)
    BY Zenon, <2>1, <2>2 DEF MigInv
  <2>4. Sound(rev', db', touched)
    BY Zenon, <2>2, <2>3, Upgrades
  <2> QED  BY Zenon, <2>1, <2>2, <2>4 DEF MigInv
<1>2. CASE downgrade
  <2>1. Sound(rev - 1, db', touched')
    BY Zenon, <1>2, DownFacts, Downgrades DEF MigInv
  <2>2. touched' \subseteq {"user"}
    BY Zenon, <1>2, DownFacts DEF MigInv
  <2> QED  BY Zenon, <1>2, <2>1, <2>2, DownFacts DEF MigInv
<1>3. CASE UNCHANGED vars
  BY Zenon, <1>3 DEF vars, MigInv
<1> QED  BY Zenon, <1>1, <1>2, <1>3, EarlierRelease, ThisRelease DEF Next

\* At every revision the rows are what the revision, and what was done at the
\* releases, made them, and the constraints in force hold of them.
THEOREM MigrationsAreSound == Spec => []MigInv
<1>1. Init => MigInv
  <2> SUFFICES ASSUME Init PROVE MigInv
    OBVIOUS
  <2>1. rev = 0 /\ schema = {} /\ db = Empty /\ touched = {}
    BY Zenon DEF Init
  <2>2. 0 \in 0..Latest
    BY ChainAt
  <2> QED  BY Zenon, <2>1, <2>2, SchemaBegins, EmptySound DEF MigInv
<1>2. MigInv /\ [Next]_vars => MigInv'
  BY MigNext
<1> QED  BY <1>1, <1>2, PTL DEF Spec

\* The rows a migration leaves have the types of the tables: no dangling
\* grant, no role that is not one of the names.
THEOREM MigrationsAreTyped == Spec => []TypeOK
<1>1. MigInv => TypeOK
  BY Zenon DEF MigInv, Sound, TypeOK
<1> QED  BY <1>1, MigrationsAreSound, PTL

\* The schema is the one a fresh database has at the revision, whatever way
\* the revision was reached.
THEOREM SchemaIsExact == Spec => []SchemaFollowsRevision
<1>1. MigInv => SchemaFollowsRevision
  BY Zenon DEF MigInv, SchemaFollowsRevision
<1> QED  BY <1>1, MigrationsAreSound, PTL

\* At the head the base roles are those that seed_roles makes.
THEOREM BaseRolesMatchSeed == Spec => []BaseRolesAsSeeded
<1>1. ASSUME MigInv, rev = Latest
      PROVE  /\ db.permissions = Keys(BASE_ROLES.user \cup BASE_ROLES.superadmin)
             /\ \E i \in RoleIds : db.roles[i] = [name |-> "superadmin", grants |-> BASE_ROLES.superadmin]
             /\ touched = {} => \E i \in RoleIds : db.roles[i] = [name |-> "user", grants |-> BASE_ROLES.user]
  <2>1. rev = 25 /\ RolesAt(rev, db, touched)
    BY Zenon, <1>1, ChainAt DEF MigInv, Sound
  <2>2. /\ db.permissions = Grantable(25)
        /\ db.roles[2] = [name |-> "superadmin", grants |-> AdminGrants(25)]
        /\ touched = {} => db.roles[1] = [name |-> "user", grants |-> UserGrants(25)]
    BY <2>1 DEF RolesAt, Rank
  <2>3. 1 \in RoleIds /\ 2 \in RoleIds
    BY DEF RoleIds
  <2> QED  BY Zenon, <2>2, <2>3, GrantsEnd
<1>2. MigInv => BaseRolesAsSeeded
  BY Zenon, <1>1 DEF BaseRolesAsSeeded
<1> QED  BY <1>2, MigrationsAreSound, PTL

\* An upgrade is refused for one of two causes and no other.
THEOREM RefusedForCause == Spec => []UpgradeRefusedForCause
<1>1. ASSUME MigInv, rev < Latest, ~CanUpgrade
      PROVE  \/ Chain[rev + 1] = lowercase_existing_emails /\ Twins(db)
             \/ Chain[rev + 1] = add_roles_and_permissions /\ Unknown(db)
  <2> DEFINE n == rev + 1
             e == Upgraded(Chain[n].name, db)
  <2>1. n \in 1..25 /\ n - 1 = rev /\ ~Fits(n, e)
    BY Zenon, <1>1, UpFacts
  <2>2. Sound(n - 1, db, touched)
    BY Zenon, <1>1, <2>1 DEF MigInv
  <2>3. e = Upgraded(Chain[n].name, db)
    OBVIOUS
  <2> HIDE DEF n, e
  <2>4. (n = 8 /\ Twins(db)) \/ (n = 9 /\ Unknown(db))
    BY Zenon, <2>1, <2>2, <2>3, Upgrades
  <2> QED  BY Zenon, <2>4, ChainAt DEF n
<1>2. MigInv => UpgradeRefusedForCause
  BY Zenon, <1>1 DEF UpgradeRefusedForCause, Twins, Unknown
<1> QED  BY <1>2, MigrationsAreSound, PTL

\* Who is an administrator is seen in one column, or in one row.
LEMMA AdministratorsAre ==
    ASSUME NEW n \in 0..25, NEW d, NEW t, Sound(n, d, t)
    PROVE  Administrators(n, d) = AdminIn(n, d)
<1>1. RankName(n) = Rank(n)
  BY Zenon, Places DEF RankName, Rank
<1>2. CASE n < 9
  <2>1. Rank(n) = "admin"
    BY SMTT(60), <1>2 DEF Rank
  <2>2. d.roles = [i \in RoleIds |-> NoRole]
    BY <1>2 DEF Sound, RolesAt, Empty
  <2>3. IdOf(d, "admin") = {}
    BY <2>2 DEF IdOf, NoRole, None
  <2> QED  BY <1>1, <1>2, <2>1, <2>3 DEF Administrators, AdminIn
<1>3. CASE ~(n < 9)
  <2>1. /\ d.roles[2].name = Rank(n)
        /\ d.roles[1].name \in {"user", "member"}
        /\ Rank(n) \in {"admin", "superadmin"}
    BY SMTT(60), <1>3 DEF Sound, RolesAt, Rank
  <2>2. d.roles[3].name # Rank(n)
    <3>1. d.roles[2] # NoRole
      BY <2>1 DEF NoRole, None
    <3>2. Distinct(d) /\ 2 \in RoleIds /\ 3 \in RoleIds
      BY DEF Sound, Fits, RoleIds
    <3> QED  BY <2>1, <3>1, <3>2 DEF Distinct
  <2>3. IdOf(d, Rank(n)) = {2}
    BY <2>1, <2>2 DEF IdOf, RoleIds
  <2>4. \A u \in There(d) : d.users[u].role = None
    <3>1. n \notin 2..8
      BY <1>3
    <3> QED  BY Zenon, <3>1 DEF Sound, UsersAt, There
  <2>5. None # Rank(n)
    BY <2>1 DEF None
  <2> QED  BY SMTT(60), <1>1, <1>3, <2>3, <2>4, <2>5 DEF Administrators, AdminIn
<1> QED  BY Zenon, <1>2, <1>3

\* No migration makes an administrator, and who held that role alone keeps it.
THEOREM NoMigrationPromotes == Spec => NobodyGainsRank
<1> DEFINE Keeps ==
        rev' # rev =>
            /\ Administrators(rev', db') \subseteq Administrators(rev, db)
            /\ \A u \in Administrators(rev, db) \cap There(db') :
                Alone(db.users[u].holds) /\ rev' >= PlaceOf("add_timestamps_and_user_role")
                    => u \in Administrators(rev', db')
<1>1. ASSUME MigInv, MigInv', [Next]_vars PROVE [Keeps]_vars
  <2>1. Administrators(rev, db) = AdminIn(rev, db) /\ Administrators(rev', db') = AdminIn(rev', db')
    <3>1. rev \in 0..25 /\ Sound(rev, db, touched) /\ rev' \in 0..25 /\ Sound(rev', db', touched')
      BY Zenon, <1>1, ChainAt DEF MigInv
    <3> QED  BY Zenon, <3>1, AdministratorsAre
  <2>2. CASE upgrade
    <3>1. rev < Latest /\ rev' = rev + 1 /\ db' = Upgraded(Chain[rev + 1].name, db)
      BY Zenon, <2>2 DEF upgrade
    <3>2. rev' \in 1..25 /\ rev' - 1 = rev
      BY Zenon, <1>1, <3>1, UpFacts
    <3>3. Sound(rev' - 1, db, touched) /\ db' = Upgraded(Chain[rev'].name, db)
      BY Zenon, <1>1, <3>1, <3>2 DEF MigInv
    <3>4. AdminIn(rev', db') = AdminIn(rev, db)
      BY Zenon, <3>2, <3>3, Upgrades
    <3> QED  BY Zenon, <2>1, <3>4
  <2>3. CASE downgrade
    <3>1. /\ AdminIn(rev', db') \subseteq AdminIn(rev, db)
          /\ rev' >= 2 => \A u \in AdminIn(rev, db) :
                              Alone(db.users[u].holds) => u \in AdminIn(rev', db')
      <4>1. /\ rev \in 1..25 /\ rev' = rev - 1
            /\ db' = Downgraded(Chain[rev].name, db) /\ Fits(rev - 1, db')
            /\ touched' = IF rev - 1 >= 9 THEN touched ELSE {}
        BY Zenon, <1>1, <2>3, DownFacts
      <4>2. Sound(rev, db, touched)
        BY Zenon, <1>1 DEF MigInv
      <4>3. NoneGains(rev, db, db')
        BY Zenon, <4>1, <4>2, Downgrades
      <4> QED  BY Zenon, <4>1, <4>3 DEF NoneGains
    <3> QED  BY Zenon, <2>1, <3>1, Places
  <2>4. CASE earlier_release \/ this_release
    <3>1. rev' = rev
      BY Zenon, <2>4 DEF earlier_release, this_release
    <3> QED  BY Zenon, <3>1
  <2> QED  BY Zenon, <1>1, <2>2, <2>3, <2>4 DEF Next
<1>2. MigInv /\ MigInv' /\ [Next]_vars => [Keeps]_vars
  BY Zenon, <1>1
<1> QED  BY <1>2, MigrationsAreSound, PTL DEF Spec, NobodyGainsRank

=============================================================================
