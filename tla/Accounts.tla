------------------------------- MODULE Accounts -------------------------------
(***************************************************************************)
(* Accounts and roles: UserService, RoleService, their routes with the     *)
(* permission each asks for, impersonation, and the commands that write    *)
(* the same rows from the command line.                                    *)
(*                                                                         *)
(* A request runs in one READ COMMITTED transaction: it is admitted on the *)
(* roles its account holds at that moment, reads what it needs, writes,    *)
(* and commits.  Others run in between.  A row that a request creates is   *)
(* named by the request.                                                   *)
(***************************************************************************)
EXTENDS Authorization

CONSTANTS
    Requests,    \* requests served and commands run
    Kinds,       \* the operations that are called
    Emails       \* addresses

\* A row that a request creates has an id of its own.
ASSUME RequestsAssumption ==
    Requests \cap {"root", "member", "nobody", "earlier", "none", "user", "superadmin", "staff"} = {}

\* No address is the mark of an account that does not exist.
ASSUME EmailsAssumption == "none" \notin Emails

VARIABLES
    roles,     \* the roles table, with its grants
    users,     \* the users table
    member,    \* user_roles: who gave each account each role
    tokens,    \* impersonation tokens handed out, <<impersonator, account>>
    req        \* what each request is doing

vars == <<roles, users, member, tokens, req>>

Root == "root"
Member == "member"
Earlier == "earlier"
Nobody == "nobody"
BUILT_IN == {"user", "superadmin"}
Names == BUILT_IN \cup {"staff"}
UserIds == Requests \cup {Root, Member}
RoleIds == Requests \cup Names
Makers == Requests \cup {Earlier}

\* A role of the deployment's own may be given anything, or nothing.
Powers == {{}, BASE_ROLES.superadmin}

NoRole == [name |-> "none", grants |-> {}]
NoUser == [email |-> "none", open |-> FALSE]

Idle == [pc |-> "idle", kind |-> "none", actor |-> Nobody, by |-> Nobody, user |-> Nobody, role |-> "none", name |-> "none",
         grants |-> {}, email |-> "none", super |-> FALSE, ok |-> FALSE, before |-> {}]

TypeOK ==
    /\ roles \in [RoleIds -> [name : Names \cup {"none"}, grants : Powers \cup {BASE_ROLES.user}]]
    /\ users \in [UserIds -> [email : Emails \cup {"none"}, open : BOOLEAN]]
    /\ member \in [UserIds -> [RoleIds -> Makers \cup {Nobody}]]
    /\ tokens \in SUBSET (UserIds \X UserIds)
    /\ req \in [Requests ->
        [pc : {"idle", "admitted", "named", "free", "known", "written", "done"}, kind : Kinds \cup {"none"},
         actor : UserIds \cup {Nobody}, by : UserIds \cup {Nobody}, user : UserIds \cup {Nobody}, role : RoleIds \cup {"none"},
         name : Names \cup {"none"}, grants : Powers, email : Emails \cup {"none"},
         super : BOOLEAN, ok : BOOLEAN, before : SUBSET Requests]]

Exists(ro) == roles[ro].name # "none"
Holds(u, ro) == member[u][ro] # Nobody
RolesOf(u) == {roles[ro] : ro \in {x \in RoleIds : Holds(u, x) /\ Exists(x)}}
Named(name) == {ro \in RoleIds : roles[ro].name = name}

SeededRoles ==
    [ro \in RoleIds |-> CASE ro \in BUILT_IN -> [name |-> ro, grants |-> BASE_ROLES[ro]]
                          [] OTHER -> NoRole]
WithStaff == [SeededRoles EXCEPT !["staff"] = [name |-> "staff", grants |-> BASE_ROLES.superadmin]]
NoMembers == [u \in UserIds |-> [ro \in RoleIds |-> Nobody]]

\* Nothing at all, the base roles and nobody, or a deployment in use: Root
\* is its superadmin, Member a user or one of a staff that may do anything,
\* either may have closed their account, and if neither has, Root holds a
\* token for Member's session.
Init ==
    /\ req = [r \in Requests |-> Idle]
    /\ \/ /\ tokens = {}
          /\ roles \in {[ro \in RoleIds |-> NoRole], SeededRoles}
          /\ users = [u \in UserIds |-> NoUser]
          /\ member = NoMembers
       \/ /\ roles \in {SeededRoles, WithStaff}
          /\ \E e, f \in Emails, open \in [{Root, Member} -> BOOLEAN] :
                e # f /\ users = [u \in UserIds |-> CASE u = Root -> [email |-> e, open |-> open[u]]
                                                      [] u = Member -> [email |-> f, open |-> open[u]]
                                                      [] OTHER -> NoUser]
          /\ \E ro \in IF roles = WithStaff THEN {"staff"} ELSE {"user"} :
                member = [NoMembers EXCEPT ![Root]["superadmin"] = Earlier, ![Member][ro] = Earlier]
          /\ tokens = {<<Root, Member>>} \cap {t \in UserIds \X UserIds : \A n \in 1..2 : users[t[n]].open}

-----------------------------------------------------------------------------
Put(r, fields) == req' = [req EXCEPT ![r] = fields]
Refuse(r) == Put(r, [Idle EXCEPT !.pc = "done"])
Finish(r) == Put(r, [Idle EXCEPT !.pc = "done", !.ok = TRUE, !.kind = req[r].kind, !.before = req[r].before])
At(r, kinds, label) == req[r].kind \in kinds /\ req[r].pc = label
Opened(kind) == [Idle EXCEPT !.kind = kind, !.before = {s \in Requests : req[s].ok}]
Precedes(r, s) == r = Earlier \/ r \in req[s].before
Reads == UNCHANGED <<roles, users, member, tokens>>
Writing(kinds) == {s \in Requests : At(s, kinds, "written")}

Found(u) == u # Nobody /\ users[u].open

\* UserRepository.get_by_email: open accounts only.
get_by_email(email) == {u \in UserIds : users[u].open /\ users[u].email = email}

\* UserRepository.exists_any: closed accounts count.
exists_any == \E u \in UserIds : users[u].email # "none"

\* The accounts UserRepository.count_for_role counts: open ones only.
count_for_role(ro) == {u \in UserIds : users[u].open /\ Holds(u, ro)}

-----------------------------------------------------------------------------
\* The permission each route asks for; none for an account's own profile.
Permission ==
    [add_role |-> <<"users", "update">>, remove_role |-> <<"users", "update">>,
     add_member |-> <<"roles", "update">>, remove_member |-> <<"roles", "update">>,
     create_role |-> <<"roles", "create">>, update_role |-> <<"roles", "update">>,
     delete_role |-> <<"roles", "delete">>, remove |-> <<"users", "delete">>,
     impersonate |-> <<"users", "impersonate">>, update_features |-> <<"feature_flags", "update">>]

Profile == {"update", "deactivate"}
Settings == {"update_preferences"}
Routes == DOMAIN Permission \cup Profile \cup Settings

BlockedByPermission(kind) == kind \in DOMAIN Permission /\ Permission[kind] \in BLOCKED_WHILE_IMPERSONATING

\* forbid_impersonation for the profile, BLOCKED_WHILE_IMPERSONATING for what
\* a permission guards.
Blocked(kind) ==
    kind \in Profile \/ (kind \in DOMAIN Permission /\ Permission[kind] \in BLOCKED_WHILE_IMPERSONATING)

\* require_permission
require_permission(kind, held) ==
    kind \in DOMAIN Permission => scope_for(held, Permission[kind][1], Permission[kind][2]) # "none"

\* What a call names: an account, a role by id or by name, a new role's
\* permissions, a new address.
Asking(kind, user, role, name, grants, email) ==
    [Opened(kind) EXCEPT !.user = user, !.role = role, !.name = name, !.grants = grants, !.email = email]

Inputs(kind) ==
    CASE kind \in {"add_role", "remove_role", "grant_role"} ->
            {Asking(kind, u, "none", n, {}, "none") : u \in UserIds, n \in Names}
      [] kind \in {"add_member", "remove_member"} ->
            {Asking(kind, u, ro, "none", {}, "none") : u \in UserIds, ro \in RoleIds}
      [] kind = "create_role" -> {Asking(kind, Nobody, "none", n, g, "none") : n \in Names, g \in Powers}
      [] kind = "update_role" ->
            {Asking(kind, Nobody, ro, n, g, "none") : ro \in RoleIds, n \in Names, g \in Powers}
      [] kind = "delete_role" -> {Asking(kind, Nobody, ro, "none", {}, "none") : ro \in RoleIds}
      [] kind = "update" -> {Asking(kind, Nobody, "none", "none", {}, e) : e \in Emails}
      [] kind \in {"deactivate", "update_preferences"} -> {Opened(kind)}
      [] OTHER -> {Asking(kind, u, "none", "none", {}, "none") : u \in UserIds}

\* The guards of a route, for an actor who acts for themselves or is lent.
Enter(r, kind, actor, by) ==
    /\ req[r].pc = "idle"
    /\ kind \in Kinds \cap Routes
    /\ IF require_permission(kind, RolesOf(actor)) /\ (by # Nobody => ~Blocked(kind))
       THEN \E call \in Inputs(kind) :
                Put(r, [call EXCEPT !.pc = IF kind \in {"add_member", "remove_member"} THEN "admitted" ELSE "named",
                                    !.actor = actor, !.by = by, !.super = is_superuser(RolesOf(actor))])
       ELSE Refuse(r)
    /\ Reads

\* get_actor
Admit(r, kind) == \E actor \in {u \in UserIds : users[u].open} : Enter(r, kind, actor, Nobody)

\* get_actor for a borrowed session: the impersonator is loaded again and its
\* right looked at again.
Borrow(r, kind) ==
    \E t \in tokens :
        /\ users[t[1]].open /\ users[t[2]].open
        /\ may_impersonate(RolesOf(t[1]), RolesOf(t[2]))
        /\ Enter(r, kind, t[2], t[1])

PassesId(r) ==
    /\ At(r, {"add_member", "remove_member"}, "admitted")
    /\ Exists(req[r].role)
    /\ Put(r, [req[r] EXCEPT !.pc = "named", !.name = req[r].role])
    /\ Reads

\* add_role_by_id and remove_role_by_id: the id is turned into a name, which
\* is looked up again.
_role_by_id(r) ==
    /\ At(r, {"add_member", "remove_member"}, "admitted")
    /\ IF Exists(req[r].role)
       THEN Put(r, [req[r] EXCEPT !.pc = "named", !.name = roles[req[r].role].name])
       ELSE Refuse(r)
    /\ Reads

\* cli grant_role: no caller, so no permission.
grant_role(r) ==
    /\ req[r].pc = "idle" /\ "grant_role" \in Kinds
    /\ \E call \in Inputs("grant_role") : Put(r, [call EXCEPT !.pc = "named"])
    /\ Reads

\* A role row that a rival is renaming or deleting, and one that a rival has
\* just given (the foreign key locks it).
RoleLocked(r, ro) == \E s \in Writing({"update_role", "delete_role"}) \ {r} : req[s].role = ro
RoleShared(r, ro) ==
    \E s \in Writing({"add_role", "add_member", "grant_role", "register", "create_superuser"}) \ {r} :
        req[s].role = ro

\* UserService.add_role: the account and the role, unless it holds it.
add_role(r) ==
    /\ At(r, {"add_role", "add_member", "grant_role"}, "named")
    /\ IF Found(req[r].user) /\ Named(req[r].name) # {}
       THEN \E ro \in Named(req[r].name) :
                IF Holds(req[r].user, ro) THEN Refuse(r) ELSE Put(r, [req[r] EXCEPT !.pc = "known", !.role = ro])
       ELSE Refuse(r)
    /\ Reads

\* The INSERT into user_roles: a role deleted meanwhile breaks the foreign
\* key, a rival's same row breaks the primary key.
add_role_insert(r) ==
    /\ At(r, {"add_role", "add_member", "grant_role"}, "known")
    /\ ~RoleLocked(r, req[r].role)
    /\ ~\E s \in Writing({"add_role", "add_member", "grant_role"}) \ {r} :
            req[s].user = req[r].user /\ req[s].role = req[r].role
    /\ IF Exists(req[r].role) /\ ~Holds(req[r].user, req[r].role)
       THEN Put(r, [req[r] EXCEPT !.pc = "written"]) ELSE Refuse(r)
    /\ Reads

RemoveAny(r) ==
    /\ At(r, {"remove_role", "remove_member"}, "named")
    /\ IF Found(req[r].user) /\ Named(req[r].name) # {}
       THEN \E ro \in Named(req[r].name) :
                IF Holds(req[r].user, ro) THEN Put(r, [req[r] EXCEPT !.pc = "written", !.role = ro]) ELSE Refuse(r)
       ELSE Refuse(r)
    /\ Reads

\* UserService.remove_role: not one's own superadmin; then the DELETE of the
\* user_roles row.
remove_role(r) ==
    /\ At(r, {"remove_role", "remove_member"}, "named")
    /\ IF /\ ~(req[r].actor = req[r].user /\ req[r].name = "superadmin")
          /\ Found(req[r].user) /\ Named(req[r].name) # {}
       THEN \E ro \in Named(req[r].name) :
                IF Holds(req[r].user, ro) THEN Put(r, [req[r] EXCEPT !.pc = "written", !.role = ro]) ELSE Refuse(r)
       ELSE Refuse(r)
    /\ Reads

-----------------------------------------------------------------------------
\* register and create_superuser start with the address.
EmailFree(r, kind) ==
    /\ req[r].pc = "idle" /\ kind \in Kinds
    /\ \E e \in Emails :
        IF get_by_email(e) = {} THEN Put(r, [Opened(kind) EXCEPT !.pc = "free", !.email = e, !.user = r])
                               ELSE Refuse(r)
    /\ Reads

CountsOpenOnly(r) ==
    /\ At(r, {"register"}, "free")
    /\ Put(r, [req[r] EXCEPT !.pc = "named",
                             !.name = IF \E u \in UserIds : users[u].open THEN "user" ELSE "superadmin"])
    /\ Reads

\* UserService.register: nobody there yet, so this one runs the place.
register(r) ==
    /\ At(r, {"register"}, "free")
    /\ Put(r, [req[r] EXCEPT !.pc = "named", !.name = IF exists_any THEN "user" ELSE "superadmin"])
    /\ Reads

\* cli create_superuser
create_superuser(r) ==
    /\ At(r, {"create_superuser"}, "free")
    /\ Put(r, [req[r] EXCEPT !.pc = "named", !.name = "superadmin"])
    /\ Reads

\* UserService._role, after the password was hashed.
_role(r) ==
    /\ At(r, {"register", "create_superuser"}, "named")
    /\ IF Named(req[r].name) = {} THEN Refuse(r)
       ELSE \E ro \in Named(req[r].name) : Put(r, [req[r] EXCEPT !.pc = "known", !.role = ro])
    /\ Reads

\* uq_users_email_active: a rival's uncommitted row with the same address is
\* waited for, a committed one of an open account is a clash.
EmailHeld(r, email) ==
    \E s \in Writing({"register", "create_superuser", "update", "demo_seed"}) \ {r} : req[s].email = email

IndexIgnored(u, email) == FALSE

EmailClash(u, email) == get_by_email(email) \ {u} # {}

\* UserRepository.create: the account with its role.  A unique violation is
\* answered as a conflict.  The mail of register_user goes out here too, and
\* a mail that fails is a refusal.
create(r) ==
    /\ At(r, {"register", "create_superuser"}, "known")
    /\ ~EmailHeld(r, req[r].email)
    /\ ~RoleLocked(r, req[r].role)
    /\ \/ ~EmailClash(r, req[r].email) /\ Exists(req[r].role) /\ Put(r, [req[r] EXCEPT !.pc = "written"])
       \/ Refuse(r)
    /\ Reads

\* UserService.update: a new address must be free, here and in the index.
update(r) ==
    /\ At(r, {"update"}, "named")
    /\ IF get_by_email(req[r].email) \subseteq {req[r].actor}
       THEN Put(r, [req[r] EXCEPT !.pc = "known", !.user = req[r].actor]) ELSE Refuse(r)
    /\ Reads

UserHeld(r, u) == \E s \in Writing({"update", "deactivate", "remove"}) \ {r} : req[s].user = u

update_save(r) ==
    /\ At(r, {"update"}, "known")
    /\ ~EmailHeld(r, req[r].email) /\ ~UserHeld(r, req[r].user)
    /\ IF EmailClash(req[r].user, req[r].email) /\ users[req[r].user].open
       THEN Refuse(r) ELSE Put(r, [req[r] EXCEPT !.pc = "written"])
    /\ Reads

\* UserService.deactivate: the password was right.
deactivate(r) ==
    /\ At(r, {"deactivate"}, "named")
    /\ ~UserHeld(r, req[r].actor)
    /\ Put(r, [req[r] EXCEPT !.pc = "written", !.user = req[r].actor])
    /\ Reads

RemoveAnyone(r) ==
    /\ At(r, {"remove"}, "named")
    /\ IF Found(req[r].user) /\ req[r].user # req[r].actor
       THEN Put(r, [req[r] EXCEPT !.pc = "known"]) ELSE Refuse(r)
    /\ Reads

\* UserService.remove: somebody else, whom the caller outranks.
remove(r) ==
    /\ At(r, {"remove"}, "named")
    /\ IF /\ Found(req[r].user) /\ req[r].user # req[r].actor
          /\ req[r].super \/ ~is_superuser(RolesOf(req[r].user))
       THEN Put(r, [req[r] EXCEPT !.pc = "known"]) ELSE Refuse(r)
    /\ Reads

\* UserService._close
_close(r) ==
    /\ At(r, {"remove"}, "known")
    /\ ~UserHeld(r, req[r].user)
    /\ Put(r, [req[r] EXCEPT !.pc = "written"])
    /\ Reads

\* AuthService.impersonate: not oneself, and somebody one outranks.
impersonate(r) ==
    /\ At(r, {"impersonate"}, "named")
    /\ IF /\ Found(req[r].user) /\ req[r].user # req[r].actor
          /\ may_impersonate(RolesOf(req[r].actor), RolesOf(req[r].user))
       THEN tokens' = tokens \cup {<<req[r].actor, req[r].user>>} /\ Finish(r)
       ELSE Refuse(r) /\ UNCHANGED tokens
    /\ UNCHANGED <<roles, users, member>>

-----------------------------------------------------------------------------
NameHeld(r, name) == \E s \in Writing({"create_role", "update_role", "seed", "demo_seed"}) \ {r} : req[s].name = name

\* RoleService.create: the name is free, then the INSERT; the unique name
\* decides between rivals.
create_role(r) ==
    /\ At(r, {"create_role"}, "named")
    /\ IF Named(req[r].name) = {} THEN Put(r, [req[r] EXCEPT !.pc = "known", !.role = r]) ELSE Refuse(r)
    /\ Reads

RenameAny(r) ==
    /\ At(r, {"update_role"}, "named")
    /\ IF Exists(req[r].role) /\ Named(req[r].name) \ {req[r].role} = {}
       THEN Put(r, [req[r] EXCEPT !.pc = "known"]) ELSE Refuse(r)
    /\ Reads

\* RoleService.update: any role but the administrator's, to a free name.
update_role(r) ==
    /\ At(r, {"update_role"}, "named")
    /\ IF /\ Exists(req[r].role) /\ roles[req[r].role].name # "superadmin"
          /\ Named(req[r].name) \ {req[r].role} = {}
       THEN Put(r, [req[r] EXCEPT !.pc = "known"]) ELSE Refuse(r)
    /\ Reads

\* The INSERT or UPDATE: a name taken meanwhile, or a row deleted meanwhile,
\* is an error.
write_role(r) ==
    /\ At(r, {"create_role", "update_role"}, "known")
    /\ ~NameHeld(r, req[r].name) /\ ~RoleLocked(r, req[r].role) /\ ~RoleShared(r, req[r].role)
    /\ IF Named(req[r].name) \ {req[r].role} = {} /\ (req[r].kind = "update_role" => Exists(req[r].role))
       THEN Put(r, [req[r] EXCEPT !.pc = "written"]) ELSE Refuse(r)
    /\ Reads

DeleteUncounted(r) ==
    /\ At(r, {"delete_role"}, "named")
    /\ IF Exists(req[r].role) /\ roles[req[r].role].name \notin BUILT_IN
       THEN Put(r, [req[r] EXCEPT !.pc = "known"]) ELSE Refuse(r)
    /\ Reads

\* RoleService.delete: not a built-in role, and no open account holds it.
delete_role(r) ==
    /\ At(r, {"delete_role"}, "named")
    /\ IF Exists(req[r].role) /\ roles[req[r].role].name \notin BUILT_IN /\ count_for_role(req[r].role) = {}
       THEN Put(r, [req[r] EXCEPT !.pc = "known"]) ELSE Refuse(r)
    /\ Reads

\* The DELETE waits for whoever has just given or renamed the role; it does
\* not count again.
delete_role_row(r) ==
    /\ At(r, {"delete_role"}, "known")
    /\ ~RoleLocked(r, req[r].role) /\ ~RoleShared(r, req[r].role)
    /\ IF Exists(req[r].role) THEN Put(r, [req[r] EXCEPT !.pc = "written"]) ELSE Refuse(r)
    /\ Reads

\* cli seed: only when there is no role.  cli demo_seed: only when there is no
\* account; it seeds the roles first if there are none.
seed(r, kind) ==
    /\ req[r].pc = "idle" /\ kind \in Kinds \cap {"seed", "demo_seed"}
    /\ IF (kind = "seed" => \A ro \in RoleIds : ~Exists(ro)) /\ (kind = "demo_seed" => ~exists_any)
       THEN \E e \in Emails :
                Put(r, [Opened(kind) EXCEPT !.pc = "known", !.user = r, !.email = IF kind = "seed" THEN "none" ELSE e,
                                            !.name = "superadmin"])
       ELSE Refuse(r)
    /\ Reads

\* seed_roles, seed_demo: a role or an address that a rival wrote is an error.
\* Of the demo accounts only the administrator is kept.
seed_write(r) ==
    LET missing == \A ro \in RoleIds : ~Exists(ro) IN
    /\ At(r, {"seed", "demo_seed"}, "known")
    /\ ~NameHeld(r, "superadmin") /\ ~EmailHeld(r, req[r].email)
    /\ IF /\ req[r].kind = "seed" => missing
          /\ req[r].kind = "demo_seed" => ~EmailClash(r, req[r].email) /\ (missing \/ Named("superadmin") # {})
       THEN Put(r, [req[r] EXCEPT !.pc = "written"]) ELSE Refuse(r)
    /\ Reads

-----------------------------------------------------------------------------
Gives == {"add_role", "add_member", "grant_role", "register", "create_superuser", "demo_seed"}
Takes == {"remove_role", "remove_member"}

RolesAfter(r) ==
    LET call == req[r]
        missing == \A ro \in RoleIds : ~Exists(ro)
    IN  CASE call.kind \in {"create_role", "update_role"} ->
                [roles EXCEPT ![call.role] = [name |-> call.name, grants |-> call.grants]]
          [] call.kind = "delete_role" -> [roles EXCEPT ![call.role] = NoRole]
          [] call.kind \in {"seed", "demo_seed"} /\ missing -> SeededRoles
          [] OTHER -> roles

UsersAfter(r) ==
    LET call == req[r] IN
    CASE call.kind \in {"register", "create_superuser", "demo_seed"} ->
            [users EXCEPT ![r] = [email |-> call.email, open |-> TRUE]]
      [] call.kind = "update" -> [users EXCEPT ![call.user].email = call.email]
      [] call.kind \in {"deactivate", "remove"} -> [users EXCEPT ![call.user].open = FALSE]
      [] OTHER -> users

\* The rows of a deleted role go with it (ON DELETE CASCADE).
MembersAfter(r) ==
    LET call == req[r]
        role == IF call.kind = "demo_seed" THEN CHOOSE ro \in RoleIds : RolesAfter(r)[ro].name = "superadmin"
                                           ELSE call.role
    IN  CASE call.kind \in Gives -> [member EXCEPT ![call.user][role] = r]
          [] call.kind \in Takes -> [member EXCEPT ![call.user][role] = Nobody]
          [] call.kind = "delete_role" -> [u \in UserIds |-> [member[u] EXCEPT ![role] = Nobody]]
          [] OTHER -> member

\* get_session's commit, or the command's own.
Commit(r) ==
    /\ req[r].pc = "written"
    /\ roles' = RolesAfter(r)
    /\ users' = UsersAfter(r)
    /\ member' = MembersAfter(r)
    /\ Finish(r)
    /\ UNCHANGED tokens

Step(r) ==
    \/ \E kind \in Kinds : Admit(r, kind) \/ Borrow(r, kind) \/ seed(r, kind)
    \/ \E kind \in {"register", "create_superuser"} : EmailFree(r, kind)
    \/ _role_by_id(r) \/ grant_role(r) \/ add_role(r) \/ add_role_insert(r) \/ remove_role(r)
    \/ register(r) \/ create_superuser(r) \/ _role(r) \/ create(r) \/ update(r) \/ update_save(r)
    \/ deactivate(r) \/ remove(r) \/ _close(r) \/ impersonate(r)
    \/ create_role(r) \/ update_role(r) \/ write_role(r) \/ delete_role(r) \/ delete_role_row(r)
    \/ seed_write(r)

Next == \E r \in Requests : Step(r) \/ Commit(r)
Spec == Init /\ [][Next]_vars

-----------------------------------------------------------------------------
\* "The first account to register on an empty database becomes the
\* superadmin; every later one registers as user": an account that registers
\* as superadmin comes after no other, open or closed; only those created at
\* the same time can share the place.  One that registers as user has company.
FirstIsSuperadmin ==
    \A r \in Requests :
        req[r].ok /\ req[r].kind = "register" =>
            IF \E ro \in Named("superadmin") : member[r][ro] = r
            THEN \A u \in UserIds \ {r} : users[u] # NoUser => u \in Requests /\ ~Precedes(u, r)
            ELSE \E u \in UserIds \ {r} : users[u] # NoUser

\* Two open accounts never share an address, whether it was registered, taken
\* over in a profile, or freed by closing an account and used again.
OneOpenAccountPerEmail ==
    \A u, v \in UserIds :
        u # v /\ users[u].open /\ users[v].open => users[u].email # users[v].email

\* The administrator's role stands: once the roles are seeded there is one
\* role of that name, and no rename or delete, however they interleave, takes
\* it away.
AdministratorRoleStands == [][Named("superadmin") # {} => Named("superadmin")' = Named("superadmin")]_vars

\* Nobody drops their own superadmin role, by name or by id.
NobodyDropsOwnRank ==
    [][\A u \in UserIds, ro \in Named("superadmin"), r \in Requests :
        Holds(u, ro) /\ ~Holds(u, ro)' /\ req[r].pc = "written" /\ req'[r].pc = "done" => req[r].actor # u]_vars

\* A session that is lent to an impersonator changes no account, no role, no
\* membership, and lends nothing on, whatever the account it was lent by may
\* do and whatever rivals do to its roles.
BorrowedTouchesNothing ==
    [][\A r \in Requests : req[r].by # Nobody /\ req'[r] # req[r] => UNCHANGED <<roles, users, member, tokens>>]_vars

\* A role is deleted from under an open account only if it was given to it
\* while the delete was running.
RoleLeavesNobody ==
    [][\A u \in UserIds, ro \in RoleIds, r \in Requests :
        /\ users[u].open /\ Holds(u, ro) /\ Exists(ro) /\ ~Exists(ro)'
        /\ req[r].pc = "written" /\ req'[r].pc = "done"
        => ~Precedes(member[u][ro], r)]_vars

\* A superadmin is closed by themselves or by a superadmin; by anybody else
\* only if they were promoted while the request was running.
ClosedByTheirEquals ==
    [][\A u \in UserIds, ro \in Named("superadmin"), r \in Requests :
        /\ users[u].open /\ Holds(u, ro) /\ ~users'[u].open
        /\ req[r].pc = "written" /\ req'[r].pc = "done"
        => req[r].actor = u \/ req[r].super \/ ~Precedes(member[u][ro], r)]_vars

=============================================================================
