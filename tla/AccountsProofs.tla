---------------------------- MODULE AccountsProofs ----------------------------
(***************************************************************************)
(* What the roles of an account let it do, the addresses of the accounts,  *)
(* who may be given, or lose, which role, what a session that is lent may  *)
(* do, and what a save of the preferences writes, for any number of        *)
(* requests, addresses and roles.                                          *)
(***************************************************************************)
EXTENDS Preferences, TLAPS

-----------------------------------------------------------------------------
(* The types of the requests and of the tables the addresses depend on.    *)

Pcs == {"idle", "admitted", "named", "free", "known", "written", "done"}
Call == [pc : Pcs, kind : Kinds \cup {"none"}, actor : UserIds \cup {Nobody}, by : UserIds \cup {Nobody},
         user : UserIds \cup {Nobody}, role : RoleIds \cup {"none"}, name : Names \cup {"none"}, grants : Powers,
         email : Emails \cup {"none"}, super : BOOLEAN, ok : BOOLEAN, before : SUBSET Requests]

Types ==
    /\ roles \in [RoleIds -> [name : Names \cup {"none"}, grants : Powers \cup {BASE_ROLES.user}]]
    /\ users \in [UserIds -> [email : Emails \cup {"none"}, open : BOOLEAN]]
    /\ tokens \in SUBSET ((UserIds \cup {Nobody}) \X UserIds)
    /\ req \in [Requests -> Call]

\* A call with other fields is a call; what matters later is what becomes of
\* its label, its kind, its two accounts and its address.
LEMMA IdleTyped == Idle \in Call
BY DEF Idle, Call, Pcs, Powers

LEMMA SetPc ==
    ASSUME NEW x \in Call, NEW pc \in Pcs
    PROVE  LET t == [x EXCEPT !.pc = pc] IN
           t \in Call /\ t.pc = pc /\ t.kind = x.kind /\ t.actor = x.actor /\ t.user = x.user /\ t.email = x.email
BY DEF Call

\* A call that has just come in knows what was done before it.
Fresh(x) == x.before = {s \in Requests : req[s].ok} /\ x.ok = FALSE

LEMMA OpenedTyped ==
    ASSUME NEW kind \in Kinds
    PROVE  Opened(kind) \in Call /\ Opened(kind).kind = kind /\ Opened(kind).by = Nobody /\ Fresh(Opened(kind))
<1> DEFINE past == {s \in Requests : req[s].ok}
           x == [Idle EXCEPT !.kind = kind]
           t == [x EXCEPT !.before = past]
<1>1. x \in Call /\ x.kind = kind /\ x.by = Nobody /\ x.ok = FALSE
  BY Zenon, IdleTyped DEF Call, Idle
<1>2. past \in SUBSET Requests
  OBVIOUS
<1>3. t \in Call /\ t.kind = x.kind /\ t.by = x.by /\ t.ok = x.ok /\ t.before = past
  <2> HIDE DEF x, past
  <2> QED  BY Zenon, <1>1, <1>2 DEF Call
<1>4. t = Opened(kind)
  BY DEF Opened
<1> HIDE DEF x, t
<1> QED  BY <1>1, <1>3, <1>4 DEF Fresh

LEMMA RefusedTyped == LET t == [Idle EXCEPT !.pc = "done"] IN t \in Call /\ t.pc = "done"
BY Zenon, IdleTyped, SetPc DEF Pcs

LEMMA SetOk == ASSUME NEW x \in Call PROVE [x EXCEPT !.ok = TRUE] \in Call /\ [x EXCEPT !.ok = TRUE].pc = x.pc
BY Zenon DEF Call

LEMMA SetHistory ==
    ASSUME NEW x \in Call, NEW kind \in Kinds \cup {"none"}, NEW before \in SUBSET Requests
    PROVE  LET t == [x EXCEPT !.kind = kind, !.before = before] IN t \in Call /\ t.pc = x.pc
BY Zenon DEF Call

LEMMA HistoryOf == ASSUME NEW x \in Call PROVE x.kind \in Kinds \cup {"none"} /\ x.before \in SUBSET Requests
BY DEF Call

LEMMA FinishedTyped ==
    ASSUME NEW x \in Call
    PROVE  LET t == [Idle EXCEPT !.pc = "done", !.ok = TRUE, !.kind = x.kind, !.before = x.before] IN
           t \in Call /\ t.pc = "done"
<1> DEFINE y == [Idle EXCEPT !.pc = "done"]
           z == [y EXCEPT !.ok = TRUE]
<1>1. y \in Call /\ y.pc = "done"
  BY RefusedTyped
<1>2. z \in Call /\ z.pc = "done"
  <2> HIDE DEF y
  <2> QED  BY <1>1, SetOk
<1>3. LET t == [z EXCEPT !.kind = x.kind, !.before = x.before] IN t \in Call /\ t.pc = "done"
  <2> HIDE DEF z
  <2> QED  BY Zenon, <1>2, SetHistory, HistoryOf
<1> QED  BY <1>3

LEMMA AskingTyped ==
    ASSUME NEW kind \in Kinds, NEW user \in UserIds \cup {Nobody}, NEW role \in RoleIds \cup {"none"},
           NEW name \in Names \cup {"none"}, NEW grants \in Powers, NEW email \in Emails \cup {"none"}
    PROVE  LET t == Asking(kind, user, role, name, grants, email) IN
           /\ t \in Call /\ t.kind = kind /\ t.user = user /\ t.role = role /\ t.name = name /\ t.email = email
           /\ t.by = Nobody /\ Fresh(t)
<1> DEFINE x == Opened(kind)
           y == [x EXCEPT !.user = user, !.role = role]
           z == [y EXCEPT !.name = name, !.grants = grants]
           t == [z EXCEPT !.email = email]
           Keeps(v, w) == v.kind = w.kind /\ v.by = w.by /\ v.ok = w.ok /\ v.before = w.before
<1>1. x \in Call /\ x.kind = kind /\ x.by = Nobody /\ Fresh(x)
  BY OpenedTyped
<1>2. y \in Call /\ Keeps(y, x) /\ y.role = role /\ y.user = user
  <2> HIDE DEF x
  <2> QED  BY Zenon, <1>1 DEF Call
<1>3. z \in Call /\ Keeps(z, y) /\ z.role = y.role /\ z.user = y.user /\ z.name = name
  <2> HIDE DEF y
  <2> QED  BY ZenonT(60), <1>2 DEF Call
<1>4. t \in Call /\ Keeps(t, z) /\ t.role = z.role /\ t.user = z.user /\ t.name = z.name /\ t.email = email
  <2> HIDE DEF z
  <2> QED  BY <1>3 DEF Call
<1>5. t = Asking(kind, user, role, name, grants, email)
  <2> HIDE DEF x
  <2> QED  BY <1>1 DEF Asking, x, Call
<1> HIDE DEF x, y, z, t
<1> QED  BY <1>1, <1>2, <1>3, <1>4, <1>5 DEF Fresh

\* The calls a route may be sent.
LEMMA InputsTyped ==
    ASSUME NEW kind \in Kinds, NEW call \in Inputs(kind)
    PROVE  /\ call \in Call /\ call.kind = kind /\ call.by = Nobody /\ Fresh(call)
           /\ kind \in {"add_member", "remove_member", "delete_role"} => call.role \in RoleIds
           /\ kind \in {"create_role", "update_role"} => call.name \in Names
           /\ kind = "update" => call.email \in Emails
           /\ kind = "update_features" => call.user \in UserIds
<1>0. {} \in Powers
  BY DEF Powers
<1>1. CASE kind \in {"add_role", "remove_role", "grant_role"}
  BY <1>0, <1>1, AskingTyped DEF Inputs
<1>2. CASE kind \in {"add_member", "remove_member"}
  <2>1. PICK u \in UserIds, ro \in RoleIds : call = Asking(kind, u, ro, "none", {}, "none")
    BY <1>2 DEF Inputs
  <2> QED  BY <1>0, <1>2, <2>1, AskingTyped
<1>3. CASE kind = "create_role"
  BY <1>0, <1>3, AskingTyped DEF Inputs
<1>4. CASE kind = "update_role"
  BY <1>0, <1>4, AskingTyped DEF Inputs
<1>5. CASE kind = "delete_role"
  BY <1>0, <1>5, AskingTyped DEF Inputs
<1>6. CASE kind = "update"
  BY <1>0, <1>6, AskingTyped DEF Inputs
<1>7. CASE kind \in {"deactivate", "update_preferences"}
  BY <1>7, OpenedTyped DEF Inputs
<1>8. CASE kind \notin {"add_role", "remove_role", "grant_role", "add_member", "remove_member", "create_role",
                      "update_role", "delete_role", "update", "deactivate", "update_preferences"}
  BY <1>0, <1>8, AskingTyped DEF Inputs
<1> QED  BY <1>1, <1>2, <1>3, <1>4, <1>5, <1>6, <1>7, <1>8

-----------------------------------------------------------------------------
(* The invariant behind OneOpenAccountPerEmail.                            *)

EmailKinds == {"register", "create_superuser", "update", "demo_seed"}

\* An account that is no request's still to create.
Settled(u) == u \in UserIds /\ (u \in Requests => req[u].pc = "done")

\* A request that has written an address and not committed, and whose row it is.
Claims(r) == req[r].pc = "written" /\ req[r].kind \in EmailKinds
RowOf(r) == IF req[r].kind = "update" THEN req[r].user ELSE r

\* A written address is nobody else's, unless the account it is for is closed.
ClaimIsFree(r) ==
    \/ req[r].kind = "update" /\ ~users[req[r].user].open
    \/ get_by_email(req[r].email) \ {RowOf(r)} = {}

\* A profile is changed by an account that is there.
UpdatesSettled(r) ==
    req[r].kind = "update" =>
        /\ req[r].pc = "named" => Settled(req[r].actor)
        /\ req[r].pc \in {"known", "written"} => Settled(req[r].user)

EmailInv ==
    /\ Types
    /\ \A r \in Requests : req[r].pc = "admitted" => req[r].role \in RoleIds
    /\ OneOpenAccountPerEmail
    /\ \A u \in UserIds : users[u].open => Settled(u)
    /\ \A r \in Requests : UpdatesSettled(r)
    /\ \A r \in Requests : Claims(r) => ClaimIsFree(r)
    /\ \A r, s \in Requests : r # s /\ Claims(r) /\ Claims(s) => req[r].email # req[s].email

\* A request steps: the others stay where they are, and who is settled stays so.
LEMMA PutIs ==
    ASSUME Types, NEW r \in Requests, NEW t \in Call, Put(r, t), req[r].pc # "done"
    PROVE  /\ req' \in [Requests -> Call]
           /\ req'[r] = t
           /\ \A s \in Requests \ {r} : req'[s] = req[s]
           /\ \A u : Settled(u) => Settled(u)'
<1>1. req' \in [Requests -> Call] /\ req'[r] = t /\ \A s \in Requests \ {r} : req'[s] = req[s]
  BY DEF Types, Put
<1>2. ASSUME NEW u, Settled(u) PROVE Settled(u)'
  BY <1>1, <1>2 DEF Settled, UserIds
<1> QED  BY <1>1, <1>2

\* A step that neither writes an address nor changes an account.
LEMMA QuietStep ==
    ASSUME EmailInv, NEW r \in Requests, NEW t \in Call, Put(r, t), req[r].pc # "done", users' = users, roles' = roles,
           tokens' \in SUBSET ((UserIds \cup {Nobody}) \X UserIds),
           t.pc = "written" => t.kind \notin EmailKinds,
           t.pc = "admitted" => t.role \in RoleIds,
           t.kind = "update" => (t.pc = "named" => Settled(t.actor)) /\ (t.pc = "known" => Settled(t.user))
    PROVE  EmailInv'
<1>1. /\ req' \in [Requests -> Call] /\ req'[r] = t
      /\ \A s \in Requests \ {r} : req'[s] = req[s]
      /\ \A u : Settled(u) => Settled(u)'
  BY PutIs DEF EmailInv
<1>2. /\ Types' /\ OneOpenAccountPerEmail'
      /\ \A s \in Requests : req'[s].pc = "admitted" => req'[s].role \in RoleIds
  BY <1>1 DEF EmailInv, Types, OneOpenAccountPerEmail
<1>3. \A u \in UserIds : users'[u].open => Settled(u)'
  BY <1>1 DEF EmailInv
<1>4. \A s \in Requests : UpdatesSettled(s)'
  BY <1>1 DEF EmailInv, UpdatesSettled, EmailKinds
<1>5. \A s \in Requests : Claims(s)' => s # r /\ Claims(s)
  BY <1>1 DEF Claims
<1>6. \A s \in Requests : Claims(s)' => ClaimIsFree(s)'
  BY <1>1, <1>5 DEF EmailInv, ClaimIsFree, get_by_email, RowOf
<1>7. \A p, q \in Requests : p # q /\ Claims(p)' /\ Claims(q)' => req'[p].email # req'[q].email
  BY <1>1, <1>5 DEF EmailInv
<1> QED  BY <1>2, <1>3, <1>4, <1>6, <1>7 DEF EmailInv

\* A step that writes an address, past the unique index.
LEMMA ClaimStep ==
    ASSUME EmailInv, NEW r \in Requests, NEW t \in Call, Put(r, t), req[r].pc # "done", Reads,
           t.pc = "written", t.kind \in EmailKinds, ~EmailHeld(r, t.email),
           t.kind = "update" => Settled(t.user),
           \/ t.kind = "update" /\ ~users[t.user].open
           \/ get_by_email(t.email) \ {IF t.kind = "update" THEN t.user ELSE r} = {}
    PROVE  EmailInv'
<1>1. /\ req' \in [Requests -> Call] /\ req'[r] = t
      /\ \A s \in Requests \ {r} : req'[s] = req[s]
      /\ \A u : Settled(u) => Settled(u)'
  BY PutIs DEF EmailInv
<1>2. /\ Types' /\ OneOpenAccountPerEmail'
      /\ \A s \in Requests : req'[s].pc = "admitted" => req'[s].role \in RoleIds
  BY <1>1 DEF EmailInv, Types, OneOpenAccountPerEmail, Reads
<1>3. \A u \in UserIds : users'[u].open => Settled(u)'
  BY <1>1 DEF EmailInv, Reads
<1>4. \A s \in Requests : UpdatesSettled(s)'
  BY <1>1 DEF EmailInv, UpdatesSettled
<1>5. \A s \in Requests \ {r} : Claims(s)' => Claims(s)
  BY <1>1 DEF Claims
<1>6. \A s \in Requests : Claims(s)' => ClaimIsFree(s)'
  <2>1. ClaimIsFree(r)'
    BY Zenon, <1>1 DEF Reads, ClaimIsFree, get_by_email, RowOf
  <2>2. \A s \in Requests \ {r} : Claims(s)' => ClaimIsFree(s)'
    BY <1>1, <1>5 DEF EmailInv, Reads, ClaimIsFree, get_by_email, RowOf
  <2> QED  BY <2>1, <2>2
<1>7. \A s \in Requests \ {r} : Claims(s) => req[s].email # t.email
  BY DEF EmailHeld, Writing, At, Claims, EmailKinds
<1>8. \A p, q \in Requests : p # q /\ Claims(p)' /\ Claims(q)' => req'[p].email # req'[q].email
  BY ZenonT(60), <1>1, <1>5, <1>7 DEF EmailInv
<1> QED  BY <1>2, <1>3, <1>4, <1>6, <1>8 DEF EmailInv

\* The steps of a request that is refused, or that goes on without an address.
LEMMA Refuses ==
    ASSUME EmailInv, NEW r \in Requests, Reads, req[r].pc # "done", Refuse(r)
    PROVE  EmailInv'
<1> DEFINE t == [Idle EXCEPT !.pc = "done"]
<1>1. t \in Call /\ t.pc = "done"
  BY RefusedTyped
<1>2. Put(r, t)
  BY DEF Refuse
<1> HIDE DEF t
<1> QED  BY <1>1, <1>2, QuietStep DEF Reads, EmailInv, Types

LEMMA MovesPc ==
    ASSUME EmailInv, NEW r \in Requests, Reads, req[r].pc # "done", req[r].kind # "update", NEW pc \in Pcs \ {"admitted"},
           pc = "written" => req[r].kind \notin EmailKinds,
           Put(r, [req[r] EXCEPT !.pc = pc])
    PROVE  EmailInv'
<1> DEFINE x == req[r]
           t == [x EXCEPT !.pc = pc]
<1>1. x \in Call
  BY DEF EmailInv, Types
<1>2. t \in Call /\ t.pc = pc /\ t.kind = x.kind
  <2> HIDE DEF x
  <2> QED  BY <1>1, SetPc
<1>3. Put(r, t)
  OBVIOUS
<1> HIDE DEF t
<1> QED  BY <1>2, <1>3, QuietStep DEF Reads, EmailInv, Types

LEMMA MovesName ==
    ASSUME EmailInv, NEW r \in Requests, Reads, req[r].pc # "done", req[r].kind # "update", NEW pc \in Pcs \ {"admitted"},
           pc = "written" => req[r].kind \notin EmailKinds, NEW name \in Names \cup {"none"},
           Put(r, [req[r] EXCEPT !.pc = pc, !.name = name])
    PROVE  EmailInv'
<1> DEFINE x == req[r]
           t == [x EXCEPT !.pc = pc, !.name = name]
<1>1. x \in Call
  BY DEF EmailInv, Types
<1>2. t \in Call /\ t.pc = pc /\ t.kind = x.kind
  <2> HIDE DEF x
  <2> QED  BY ZenonT(60), <1>1 DEF Call
<1>3. Put(r, t)
  OBVIOUS
<1> HIDE DEF t
<1> QED  BY <1>2, <1>3, QuietStep DEF Reads, EmailInv, Types

LEMMA MovesRole ==
    ASSUME EmailInv, NEW r \in Requests, Reads, req[r].pc # "done", req[r].kind # "update", NEW pc \in Pcs \ {"admitted"},
           pc = "written" => req[r].kind \notin EmailKinds, NEW role \in RoleIds,
           Put(r, [req[r] EXCEPT !.pc = pc, !.role = role])
    PROVE  EmailInv'
<1> DEFINE x == req[r]
           t == [x EXCEPT !.pc = pc, !.role = role]
<1>1. x \in Call
  BY DEF EmailInv, Types
<1>2. t \in Call /\ t.pc = pc /\ t.kind = x.kind
  <2> HIDE DEF x
  <2> QED  BY Zenon, <1>1 DEF Call
<1>3. Put(r, t)
  OBVIOUS
<1> HIDE DEF t
<1> QED  BY Zenon, <1>2, <1>3, QuietStep DEF Reads, EmailInv, Types

LEMMA MovesUser ==
    ASSUME EmailInv, NEW r \in Requests, Reads, req[r].pc # "done", req[r].kind # "update", NEW pc \in Pcs \ {"admitted"},
           pc = "written" => req[r].kind \notin EmailKinds, NEW user \in UserIds \cup {Nobody},
           Put(r, [req[r] EXCEPT !.pc = pc, !.user = user])
    PROVE  EmailInv'
<1> DEFINE x == req[r]
           t == [x EXCEPT !.pc = pc, !.user = user]
<1>1. x \in Call
  BY DEF EmailInv, Types
<1>2. t \in Call /\ t.pc = pc /\ t.kind = x.kind
  <2> HIDE DEF x
  <2> QED  BY Zenon, <1>1 DEF Call
<1>3. Put(r, t)
  OBVIOUS
<1> HIDE DEF t
<1> QED  BY <1>2, <1>3, QuietStep DEF Reads, EmailInv, Types

\* A route is entered by an open account.
LEMMA Enters ==
    ASSUME EmailInv, NEW r \in Requests, NEW kind, NEW actor \in UserIds, NEW by \in UserIds \cup {Nobody},
           users[actor].open, Enter(r, kind, actor, by)
    PROVE  EmailInv'
<1>1. req[r].pc # "done" /\ Reads /\ kind \in Kinds
  BY Zenon DEF Enter
<1>2. CASE Refuse(r)
  BY <1>1, <1>2, Refuses
<1>3. CASE ~Refuse(r)
  <2> DEFINE pc == IF kind \in {"add_member", "remove_member"} THEN "admitted" ELSE "named"
             super == is_superuser(RolesOf(actor))
  <2>1. PICK call \in Inputs(kind) : Put(r, [call EXCEPT !.pc = pc, !.actor = actor, !.by = by, !.super = super])
    BY Zenon, <1>3 DEF Enter
  <2>2. call \in Call /\ call.kind = kind /\ (kind \in {"add_member", "remove_member"} => call.role \in RoleIds)
    BY <1>1, InputsTyped
  <2>3. pc \in Pcs /\ super \in BOOLEAN
    BY DEF Pcs, is_superuser
  <2>4. pc # "written" /\ pc # "known" /\ (pc = "admitted" => kind \in {"add_member", "remove_member"})
    OBVIOUS
  <2> HIDE DEF pc, super
  <2> DEFINE t == [call EXCEPT !.pc = pc, !.actor = actor, !.by = by, !.super = super]
  <2>5. t \in Call /\ t.pc = pc /\ t.kind = kind /\ t.actor = actor /\ t.role = call.role
    BY ZenonT(60), <2>2, <2>3 DEF Call
  <2>6. Put(r, t)
    BY <2>1
  <2>7. Settled(actor)
    BY DEF EmailInv
  <2> HIDE DEF t
  <2> QED  BY Zenon, <1>1, <2>2, <2>4, <2>5, <2>6, <2>7, QuietStep DEF Reads, EmailInv, Types
<1> QED  BY <1>2, <1>3

\* The steps about roles, and those of the accounts that write no address.
LEMMA RoleSteps ==
    ASSUME EmailInv, NEW r \in Requests
    PROVE  /\ _role_by_id(r) => EmailInv'
           /\ add_role(r) => EmailInv'
           /\ add_role_insert(r) => EmailInv'
           /\ remove_role(r) => EmailInv'
           /\ register(r) => EmailInv'
           /\ create_superuser(r) => EmailInv'
           /\ _role(r) => EmailInv'
           /\ deactivate(r) => EmailInv'
           /\ remove(r) => EmailInv'
           /\ _close(r) => EmailInv'
           /\ create_role(r) => EmailInv'
           /\ update_role(r) => EmailInv'
           /\ write_role(r) => EmailInv'
           /\ delete_role(r) => EmailInv'
           /\ delete_role_row(r) => EmailInv'
<1>1. ASSUME _role_by_id(r) PROVE EmailInv'
  <2>1. roles[req[r].role].name \in Names \cup {"none"}
    BY <1>1 DEF _role_by_id, At, EmailInv, Types
  <2> QED  BY Zenon, <1>1, <2>1, MovesName, Refuses DEF _role_by_id, At, Pcs, EmailKinds
<1>2. ASSUME add_role(r) PROVE EmailInv'
  BY Zenon, <1>2, MovesRole, Refuses DEF add_role, At, Pcs, EmailKinds, Named, RoleIds
<1>3. ASSUME add_role_insert(r) PROVE EmailInv'
  BY <1>3, MovesPc, Refuses DEF add_role_insert, At, Pcs, EmailKinds
<1>4. ASSUME remove_role(r) PROVE EmailInv'
  BY Zenon, <1>4, MovesRole, Refuses DEF remove_role, At, Pcs, EmailKinds, Named, RoleIds
<1>5. ASSUME register(r) PROVE EmailInv'
  BY Zenon, <1>5, MovesName, Refuses DEF register, At, Pcs, EmailKinds, Names, BUILT_IN
<1>6. ASSUME create_superuser(r) PROVE EmailInv'
  BY Zenon, <1>6, MovesName, Refuses DEF create_superuser, At, Pcs, EmailKinds, Names, BUILT_IN
<1>7. ASSUME _role(r) PROVE EmailInv'
  BY Zenon, <1>7, MovesRole, Refuses DEF _role, At, Pcs, EmailKinds, Named, RoleIds
<1>8. ASSUME deactivate(r) PROVE EmailInv'
  <2>1. req[r].actor \in UserIds \cup {Nobody}
    BY DEF EmailInv, Types, Call
  <2> QED  BY Zenon, <1>8, <2>1, MovesUser DEF deactivate, At, Pcs, EmailKinds
<1>9. ASSUME remove(r) PROVE EmailInv'
  BY <1>9, MovesPc, Refuses DEF remove, At, Pcs, EmailKinds
<1>10. ASSUME _close(r) PROVE EmailInv'
  BY <1>10, MovesPc, Refuses DEF _close, At, Pcs, EmailKinds
<1>11. ASSUME create_role(r) PROVE EmailInv'
  BY Zenon, <1>11, MovesRole, Refuses DEF create_role, At, Pcs, EmailKinds, Named, RoleIds
<1>12. ASSUME update_role(r) PROVE EmailInv'
  BY <1>12, MovesPc, Refuses DEF update_role, At, Pcs, EmailKinds
<1>13. ASSUME write_role(r) PROVE EmailInv'
  BY <1>13, MovesPc, Refuses DEF write_role, At, Pcs, EmailKinds
<1>14. ASSUME delete_role(r) PROVE EmailInv'
  BY <1>14, MovesPc, Refuses DEF delete_role, At, Pcs, EmailKinds
<1>15. ASSUME delete_role_row(r) PROVE EmailInv'
  BY <1>15, MovesPc, Refuses DEF delete_role_row, At, Pcs, EmailKinds
<1> QED  BY <1>1, <1>2, <1>3, <1>4, <1>5, <1>6, <1>7, <1>8, <1>9, <1>10, <1>11, <1>12, <1>13, <1>14, <1>15

\* A request or a command comes in, or an account is borrowed.
LEMMA Arrivals ==
    ASSUME EmailInv, NEW r \in Requests
    PROVE  /\ \A kind : Admit(r, kind) \/ Borrow(r, kind) => EmailInv'
           /\ \A kind : seed(r, kind) => EmailInv'
           /\ \A kind : EmailFree(r, kind) => EmailInv'
           /\ grant_role(r) => EmailInv'
<1>0. r \in UserIds
  BY DEF UserIds
<1>1. ASSUME NEW kind, Admit(r, kind) PROVE EmailInv'
  <2>1. PICK actor \in UserIds : users[actor].open /\ Enter(r, kind, actor, Nobody)
    BY <1>1 DEF Admit
  <2> QED  BY <2>1, Enters
<1>2. ASSUME NEW kind, Borrow(r, kind) PROVE EmailInv'
  <2>1. PICK t \in tokens : users[t[2]].open /\ Enter(r, kind, t[2], t[1])
    BY <1>2 DEF Borrow
  <2>2. t[1] \in UserIds \cup {Nobody} /\ t[2] \in UserIds
    BY DEF EmailInv, Types
  <2> QED  BY <2>1, <2>2, Enters
<1>3. ASSUME NEW kind, seed(r, kind) PROVE EmailInv'
  <2>1. req[r].pc # "done" /\ Reads /\ kind \in Kinds /\ kind # "update"
    BY Zenon, <1>3 DEF seed
  <2>2. CASE Refuse(r)
    BY Zenon, <2>1, <2>2, Refuses
  <2>3. CASE ~Refuse(r)
    <3> DEFINE x == Opened(kind)
    <3>1. PICK e \in Emails : Put(r, [x EXCEPT !.pc = "known", !.user = r, !.email = IF kind = "seed" THEN "none" ELSE e,
                                               !.name = "superadmin"])
      BY Zenon, <1>3, <2>3 DEF seed
    <3> DEFINE f == IF kind = "seed" THEN "none" ELSE e
               t == [x EXCEPT !.pc = "known", !.user = r, !.email = f, !.name = "superadmin"]
    <3>2. x \in Call /\ x.kind = kind /\ f \in Emails \cup {"none"}
      BY <2>1, OpenedTyped
    <3>3. t \in Call /\ t.pc = "known" /\ t.kind = kind
      <4>1. "known" \in Pcs /\ "superadmin" \in Names
        BY DEF Pcs, Names, BUILT_IN
      <4> HIDE DEF x, f
      <4> QED  BY ZenonT(60), <1>0, <3>2, <4>1 DEF Call
    <3>4. Put(r, t)
      BY <3>1
    <3> HIDE DEF t
    <3> QED  BY <2>1, <3>3, <3>4, QuietStep DEF Reads, EmailInv, Types
  <2> QED  BY <2>2, <2>3
<1>4. ASSUME NEW kind, EmailFree(r, kind) PROVE EmailInv'
  <2>1. req[r].pc # "done" /\ Reads /\ kind \in Kinds
    BY <1>4 DEF EmailFree
  <2>2. CASE Refuse(r)
    BY <2>1, <2>2, Refuses
  <2>3. CASE ~Refuse(r)
    <3> DEFINE x == Opened(kind)
    <3>1. PICK e \in Emails : Put(r, [x EXCEPT !.pc = "free", !.email = e, !.user = r])
      BY Zenon, <1>4, <2>3 DEF EmailFree
    <3> DEFINE t == [x EXCEPT !.pc = "free", !.email = e, !.user = r]
    <3>2. x \in Call /\ x.kind = kind
      BY <2>1, OpenedTyped
    <3>3. t \in Call /\ t.pc = "free" /\ t.kind = kind
      <4> HIDE DEF x
      <4> QED  BY ZenonT(60), <1>0, <3>2 DEF Call, Pcs
    <3>4. Put(r, t)
      BY <3>1
    <3> HIDE DEF t
    <3> QED  BY <2>1, <3>3, <3>4, QuietStep DEF Reads, EmailInv, Types
  <2> QED  BY <2>2, <2>3
<1>5. ASSUME grant_role(r) PROVE EmailInv'
  <2>1. req[r].pc # "done" /\ Reads /\ "grant_role" \in Kinds
    BY <1>5 DEF grant_role
  <2>2. PICK call \in Inputs("grant_role") : Put(r, [call EXCEPT !.pc = "named"])
    BY <1>5 DEF grant_role
  <2> DEFINE t == [call EXCEPT !.pc = "named"]
  <2>3. call \in Call /\ call.kind = "grant_role"
    BY <2>1, InputsTyped
  <2>4. t \in Call /\ t.pc = "named" /\ t.kind = "grant_role"
    BY <2>3 DEF Call, Pcs
  <2>5. Put(r, t)
    BY <2>2
  <2> HIDE DEF t
  <2> QED  BY <2>1, <2>4, <2>5, QuietStep DEF Reads, EmailInv, Types
<1> QED  BY <1>1, <1>2, <1>3, <1>4, <1>5

-----------------------------------------------------------------------------
(* Authorization.                                                          *)

Grants(held) == UNION {role.grants : role \in held}

\* The scopes _widest gives are those of the grants.
LEMMA WidestIs ==
    ASSUME NEW held, NEW resource, NEW action
    PROVE  /\ <<resource, action>> \in DOMAIN _widest(held)
                <=> \E g \in Grants(held) : <<g[1], g[2]>> = <<resource, action>>
           /\ <<resource, action>> \in DOMAIN _widest(held) =>
                _widest(held)[<<resource, action>>] =
                    IF All(resource, action) \in Grants(held) THEN "all" ELSE "own"
BY DEF _widest, Grants

\* What an account is told it may do is what it may do: effective_grants, of
\* RoleService, and scope_for, which every route asks, agree on each permission.
THEOREM ToldIsAllowed ==
    ASSUME NEW held, NEW permissions, NEW resource, NEW action, NEW scope \in {"own", "all"},
           <<resource, action>> \in permissions
    PROVE  <<resource, action, scope>> \in effective_grants(held, permissions)
                <=> scope_for(held, resource, action) = scope
<1>1. CASE is_superuser(held)
  BY <1>1 DEF effective_grants, scope_for, All
<1>2. CASE ~is_superuser(held)
  <2> DEFINE w == _widest(held)
  <2>1. scope_for(held, resource, action) =
            IF <<resource, action>> \in DOMAIN w THEN w[<<resource, action>>] ELSE "none"
    BY <1>2 DEF scope_for
  <2>2. <<resource, action, scope>> \in effective_grants(held, permissions)
            <=> <<resource, action>> \in DOMAIN w /\ w[<<resource, action>>] = scope
    <3>1. \A k \in DOMAIN w : k = <<k[1], k[2]>>
      BY DEF _widest
    <3>2. effective_grants(held, permissions) = {<<k[1], k[2], w[k]>> : k \in DOMAIN w}
      BY <1>2 DEF effective_grants
    <3> HIDE DEF w
    <3>3. ASSUME <<resource, action, scope>> \in effective_grants(held, permissions)
          PROVE  <<resource, action>> \in DOMAIN w /\ w[<<resource, action>>] = scope
      <4>1. PICK k \in DOMAIN w : <<resource, action, scope>> = <<k[1], k[2], w[k]>>
        BY <3>2, <3>3
      <4>2. k = <<resource, action>> /\ w[k] = scope
        BY <3>1, <4>1
      <4> QED  BY <4>2
    <3>4. ASSUME <<resource, action>> \in DOMAIN w, w[<<resource, action>>] = scope
          PROVE  <<resource, action, scope>> \in effective_grants(held, permissions)
      BY <3>2, <3>4
    <3> QED  BY <3>3, <3>4
  <2> HIDE DEF w
  <2> QED  BY <2>1, <2>2
<1> QED  BY <1>1, <1>2

\* A further role never takes a right away, nor narrows it.
THEOREM RolesOnlyAdd ==
    ASSUME NEW held, NEW more, held \subseteq more, NEW resource, NEW action
    PROVE  /\ scope_for(held, resource, action) = "all" => scope_for(more, resource, action) = "all"
           /\ scope_for(held, resource, action) # "none" => scope_for(more, resource, action) # "none"
<1>1. is_superuser(held) => is_superuser(more)
  BY DEF is_superuser
<1>2. Grants(held) \subseteq Grants(more)
  BY DEF Grants
<1> QED  BY <1>1, <1>2, WidestIs DEF scope_for

-----------------------------------------------------------------------------
(* The addresses.                                                          *)

\* A request is written: what is true of it then is what ClaimStep asks for.
LEMMA WritesClaim ==
    ASSUME EmailInv, NEW r \in Requests, Reads, req[r].pc = "known", req[r].kind \in EmailKinds,
           ~EmailHeld(r, req[r].email), Put(r, [req[r] EXCEPT !.pc = "written"]),
           \/ req[r].kind = "update" /\ ~users[req[r].user].open
           \/ get_by_email(req[r].email) \ {RowOf(r)} = {}
    PROVE  EmailInv'
<1> DEFINE x == req[r]
           t == [x EXCEPT !.pc = "written"]
<1>1. x \in Call
  BY DEF EmailInv, Types
<1>2. t \in Call /\ t.pc = "written" /\ t.kind = x.kind /\ t.user = x.user /\ t.email = x.email
  <2> HIDE DEF x
  <2> QED  BY <1>1 DEF Call, Pcs
<1>3. Put(r, t)
  OBVIOUS
<1>4. x.kind = "update" => Settled(x.user)
  BY DEF EmailInv, UpdatesSettled
<1> HIDE DEF t
<1> QED  BY <1>2, <1>3, <1>4, ClaimStep DEF RowOf

LEMMA AddressSteps ==
    ASSUME EmailInv, NEW r \in Requests
    PROVE  /\ create(r) => EmailInv'
           /\ update(r) => EmailInv'
           /\ update_save(r) => EmailInv'
           /\ seed_write(r) => EmailInv'
<1>1. ASSUME create(r) PROVE EmailInv'
  BY <1>1, WritesClaim, Refuses DEF create, At, EmailKinds, EmailClash, RowOf
<1>2. ASSUME update(r) PROVE EmailInv'
  <2>1. req[r].pc # "done" /\ Reads /\ req[r].kind = "update" /\ req[r].pc = "named"
    BY <1>2 DEF update, At
  <2>2. CASE Refuse(r)
    BY ZenonT(60), <2>1, <2>2, Refuses
  <2>3. CASE ~Refuse(r)
    <3> DEFINE x == req[r]
               t == [x EXCEPT !.pc = "known", !.user = x.actor]
    <3>1. Put(r, t)
      BY Zenon, <1>2, <2>3 DEF update
    <3>2. x \in Call /\ Settled(x.actor)
      BY <2>1 DEF EmailInv, Types, UpdatesSettled
    <3>3. t \in Call /\ t.pc = "known" /\ t.kind = x.kind /\ t.user = x.actor
      <4> HIDE DEF x
      <4> QED  BY ZenonT(60), <3>2 DEF Call, Pcs
    <3> HIDE DEF t
    <3> QED  BY SMTT(60), <2>1, <3>1, <3>2, <3>3, QuietStep DEF Reads, EmailInv, Types
  <2> QED  BY <2>2, <2>3
<1>3. ASSUME update_save(r) PROVE EmailInv'
  BY <1>3, WritesClaim, Refuses DEF update_save, At, EmailKinds, EmailClash, RowOf
<1>4. ASSUME seed_write(r) PROVE EmailInv'
  <2>1. CASE req[r].kind = "seed"
    BY <1>4, <2>1, MovesPc, Refuses DEF seed_write, At, EmailKinds, Pcs
  <2>2. CASE req[r].kind = "demo_seed"
    BY <1>4, <2>2, WritesClaim, Refuses DEF seed_write, At, EmailKinds, EmailClash, RowOf
  <2> QED  BY <1>4, <2>1, <2>2 DEF seed_write, At
<1> QED  BY <1>1, <1>2, <1>3, <1>4

LEMMA Finishes ==
    ASSUME EmailInv, NEW r \in Requests, Finish(r)
    PROVE  \E t \in Call : t.pc = "done" /\ Put(r, t)
<1> DEFINE x == req[r]
           t == [Idle EXCEPT !.pc = "done", !.ok = TRUE, !.kind = x.kind, !.before = x.before]
<1>1. x \in Call
  BY DEF EmailInv, Types
<1>2. t \in Call /\ t.pc = "done"
  <2> HIDE DEF x
  <2> QED  BY Zenon, <1>1, FinishedTyped
<1>3. Put(r, t)
  BY DEF Finish
<1> HIDE DEF t
<1> QED  BY <1>2, <1>3

LEMMA Impersonates == ASSUME EmailInv, NEW r \in Requests, impersonate(r) PROVE EmailInv'
<1>1. req[r].pc # "done" /\ users' = users /\ roles' = roles /\ req[r] \in Call
  BY Zenon DEF impersonate, At, EmailInv, Types
<1>2. PICK t \in Call : t.pc = "done" /\ Put(r, t)
  BY Zenon, RefusedTyped, Finishes DEF impersonate, Refuse
<1>3. tokens' \in SUBSET ((UserIds \cup {Nobody}) \X UserIds)
  BY <1>1 DEF impersonate, EmailInv, Types, Call, Found
<1> QED  BY <1>1, <1>2, <1>3, QuietStep

\* The roles before and after a commit.
LEMMA SeededTyped ==
    LET Role == [name : Names \cup {"none"}, grants : Powers \cup {BASE_ROLES.user}] IN
    NoRole \in Role /\ SeededRoles \in [RoleIds -> Role] /\ WithStaff \in [RoleIds -> Role]
<1> DEFINE Role == [name : Names \cup {"none"}, grants : Powers \cup {BASE_ROLES.user}]
<1>1. NoRole \in Role
  BY DEF NoRole, Powers
<1>2. [name |-> "user", grants |-> BASE_ROLES.user] \in Role
  BY DEF Names, BUILT_IN
<1>3. [name |-> "superadmin", grants |-> BASE_ROLES.superadmin] \in Role
  BY DEF Names, BUILT_IN, Powers
<1>4. [name |-> "staff", grants |-> BASE_ROLES.superadmin] \in Role
  BY DEF Names, Powers
<1>5. BASE_ROLES["user"] = BASE_ROLES.user /\ BASE_ROLES["superadmin"] = BASE_ROLES.superadmin
  OBVIOUS
<1> HIDE DEF Role
<1>6. SeededRoles \in [RoleIds -> Role]
  BY <1>1, <1>2, <1>3, <1>5 DEF SeededRoles, BUILT_IN
<1>7. WithStaff \in [RoleIds -> Role]
  BY Zenon, <1>4, <1>6 DEF WithStaff
<1> QED  BY <1>1, <1>6, <1>7 DEF Role

LEMMA RolesTyped ==
    ASSUME EmailInv, NEW r \in Requests
    PROVE  RolesAfter(r) \in [RoleIds -> [name : Names \cup {"none"}, grants : Powers \cup {BASE_ROLES.user}]]
<1> DEFINE Role == [name : Names \cup {"none"}, grants : Powers \cup {BASE_ROLES.user}]
<1>1. roles \in [RoleIds -> Role] /\ req[r] \in Call
  BY DEF EmailInv, Types
<1>2. NoRole \in Role
  BY SeededTyped
<1>3. [name |-> req[r].name, grants |-> req[r].grants] \in Role
  BY <1>1 DEF Call
<1>4. SeededRoles \in [RoleIds -> Role]
  BY SeededTyped
<1> HIDE DEF Role
<1> QED  BY Zenon, <1>1, <1>2, <1>3, <1>4 DEF RolesAfter, Role

\* The accounts after a commit: r's row has its address, or some account is
\* closed, or nothing changed.
LEMMA CommitCreates ==
    ASSUME EmailInv, NEW r \in Requests, req[r].kind \in EmailKinds \ {"update"}, users' = UsersAfter(r)
    PROVE  /\ users' \in [UserIds -> [email : Emails \cup {"none"}, open : BOOLEAN]]
           /\ users'[r].email = req[r].email
           /\ \A u \in UserIds \ {r} : users'[u] = users[u]
<1> DEFINE t == [email |-> req[r].email, open |-> TRUE]
<1>1. users' = [users EXCEPT ![r] = t] /\ r \in UserIds /\ req[r] \in Call
  BY DEF UsersAfter, EmailKinds, UserIds, EmailInv, Types
<1>2. t \in [email : Emails \cup {"none"}, open : BOOLEAN] /\ t.email = req[r].email
  <2>1. req[r].email \in Emails \cup {"none"}
    BY Zenon, <1>1 DEF Call
  <2> QED  BY Zenon, <2>1
<1> HIDE DEF t
<1> QED  BY ZenonT(60), <1>1, <1>2 DEF EmailInv, Types

LEMMA CommitUpdates ==
    ASSUME EmailInv, NEW r \in Requests, req[r].kind = "update", req[r].user \in UserIds, users' = UsersAfter(r)
    PROVE  /\ users' \in [UserIds -> [email : Emails \cup {"none"}, open : BOOLEAN]]
           /\ users'[req[r].user].email = req[r].email
           /\ users'[req[r].user].open = users[req[r].user].open
           /\ \A u \in UserIds \ {req[r].user} : users'[u] = users[u]
<1> DEFINE w == req[r].user
           x == users[w]
           t == [x EXCEPT !.email = req[r].email]
<1>1. users' = [users EXCEPT ![w] = t] /\ req[r] \in Call /\ x \in [email : Emails \cup {"none"}, open : BOOLEAN]
  BY DEF UsersAfter, EmailInv, Types
<1>2. t \in [email : Emails \cup {"none"}, open : BOOLEAN] /\ t.email = req[r].email /\ t.open = x.open
  <2>1. req[r].email \in Emails \cup {"none"}
    BY <1>1 DEF Call
  <2> HIDE DEF x
  <2> QED  BY Zenon, <1>1, <2>1
<1> HIDE DEF t
<1> QED  BY <1>1, <1>2 DEF EmailInv, Types

LEMMA CommitCloses ==
    ASSUME EmailInv, NEW r \in Requests, req[r].kind \notin EmailKinds, users' = UsersAfter(r)
    PROVE  /\ users' \in [UserIds -> [email : Emails \cup {"none"}, open : BOOLEAN]]
           /\ \A u \in UserIds : users'[u].open => users[u].open /\ users'[u].email = users[u].email
<1>1. CASE req[r].kind \in {"deactivate", "remove"} /\ req[r].user \in UserIds
  <2> DEFINE w == req[r].user
             x == users[w]
             t == [x EXCEPT !.open = FALSE]
  <2>1. users' = [users EXCEPT ![w] = t] /\ x \in [email : Emails \cup {"none"}, open : BOOLEAN]
    BY <1>1 DEF UsersAfter, EmailInv, Types
  <2>2. t \in [email : Emails \cup {"none"}, open : BOOLEAN] /\ ~t.open
    <3> HIDE DEF x
    <3> QED  BY Zenon, <2>1
  <2> HIDE DEF t
  <2> QED  BY <1>1, <2>1, <2>2 DEF EmailInv, Types
<1>2. CASE ~(req[r].kind \in {"deactivate", "remove"} /\ req[r].user \in UserIds)
  <2>1. users' = users
    BY <1>2 DEF UsersAfter, EmailKinds, EmailInv, Types
  <2> QED  BY <2>1 DEF EmailInv, Types
<1> QED  BY <1>1, <1>2

LEMMA Commits == ASSUME EmailInv, NEW r \in Requests, Commit(r) PROVE EmailInv'
<1>1. req[r].pc = "written" /\ tokens' = tokens /\ users' = UsersAfter(r) /\ roles' = RolesAfter(r)
  BY Zenon DEF Commit
<1>2. /\ req' \in [Requests -> Call] /\ req'[r].pc = "done"
      /\ \A s \in Requests \ {r} : req'[s] = req[s]
      /\ \A u : Settled(u) => Settled(u)'
  <2>1. PICK t \in Call : t.pc = "done" /\ Put(r, t)
    BY Finishes DEF Commit
  <2> QED  BY <1>1, <2>1, PutIs DEF EmailInv
<1>3. \A s \in Requests : Claims(s)' => s # r /\ Claims(s)
  BY Zenon, <1>2 DEF Claims
<1>4. \A s \in Requests : UpdatesSettled(s)'
  BY Zenon, <1>2 DEF EmailInv, UpdatesSettled
<1>5. \A p, q \in Requests : p # q /\ Claims(p)' /\ Claims(q)' => req'[p].email # req'[q].email
  BY <1>2, <1>3 DEF EmailInv
<1>6. \A s \in Requests : req'[s].pc = "admitted" => req'[s].role \in RoleIds
  BY Zenon, <1>2 DEF EmailInv
<1>7. users' \in [UserIds -> [email : Emails \cup {"none"}, open : BOOLEAN]] => Types'
  BY ZenonT(60), <1>1, <1>2, RolesTyped DEF EmailInv, Types
<1>8. CASE req[r].kind \notin EmailKinds
  <2>1. /\ users' \in [UserIds -> [email : Emails \cup {"none"}, open : BOOLEAN]]
        /\ \A u \in UserIds : users'[u].open => users[u].open /\ users'[u].email = users[u].email
    BY <1>1, <1>8, CommitCloses
  <2>2. OneOpenAccountPerEmail' /\ \A u \in UserIds : users'[u].open => Settled(u)'
    BY <1>2, <2>1 DEF EmailInv, OneOpenAccountPerEmail
  <2>3. ASSUME NEW s \in Requests, Claims(s)' PROVE ClaimIsFree(s)'
    <3>1. s # r /\ Claims(s) /\ ClaimIsFree(s) /\ req'[s] = req[s]
      BY Zenon, <1>2, <1>3, <2>3 DEF EmailInv
    <3>2. req[s].kind = "update" => req[s].user \in UserIds
      BY Zenon, <3>1 DEF EmailInv, UpdatesSettled, Claims, Settled
    <3> QED  BY ZenonT(60), <2>1, <3>1, <3>2 DEF ClaimIsFree, get_by_email, RowOf
  <2> QED  BY <1>4, <1>5, <1>6, <1>7, <2>1, <2>2, <2>3 DEF EmailInv
<1>9. CASE req[r].kind \in EmailKinds
  <2>0. PICK w : w = RowOf(r)
    BY Zenon
  <2>1. Claims(r) /\ ClaimIsFree(r)
    BY <1>1, <1>9 DEF EmailInv, Claims
  <2>2. w \in UserIds /\ Settled(w)'
    <3>1. CASE req[r].kind = "update"
      BY <1>1, <1>2, <2>0, <3>1 DEF EmailInv, UpdatesSettled, Settled, RowOf
    <3>2. CASE req[r].kind # "update"
      BY Zenon, <1>2, <2>0, <3>2 DEF Settled, RowOf, UserIds
    <3> QED  BY Zenon, <3>1, <3>2
  <2>3. /\ users' \in [UserIds -> [email : Emails \cup {"none"}, open : BOOLEAN]]
        /\ users'[w].email = req[r].email
        /\ req[r].kind = "update" => users'[w].open = users[w].open
        /\ \A u \in UserIds \ {w} : users'[u] = users[u]
    BY Zenon, <1>1, <1>9, <2>0, <2>2, CommitCreates, CommitUpdates DEF RowOf
  <2>4. users'[w].open => get_by_email(req[r].email) \ {w} = {}
    BY Zenon, <2>0, <2>1, <2>3 DEF ClaimIsFree, RowOf
  <2>5. ASSUME NEW s \in Requests \ {r}, Claims(s), req[s].kind = "update"
        PROVE  req[s].user \in UserIds /\ (~users[req[s].user].open => ~users'[req[s].user].open)
    <3>1. Settled(req[s].user)
      BY Zenon, <2>5 DEF EmailInv, UpdatesSettled, Claims
    <3>2. req[s].user = w => req[r].kind = "update"
      BY <1>1, <2>0, <3>1 DEF Settled, RowOf
    <3> QED  BY Zenon, <2>3, <3>1, <3>2 DEF Settled
  <2>6. OneOpenAccountPerEmail'
    BY <2>2, <2>3, <2>4 DEF EmailInv, OneOpenAccountPerEmail, get_by_email
  <2>7. \A u \in UserIds : users'[u].open => Settled(u)'
    BY Zenon, <1>2, <2>2, <2>3 DEF EmailInv
  <2>8. ASSUME NEW s \in Requests, Claims(s)' PROVE ClaimIsFree(s)'
    <3>1. s # r /\ Claims(s) /\ ClaimIsFree(s) /\ req'[s] = req[s] /\ req[s].email # req[r].email
      BY Zenon, <1>2, <1>3, <2>1, <2>8 DEF EmailInv
    <3>2. CASE req[s].kind = "update" /\ ~users[req[s].user].open
      BY Zenon, <2>5, <3>1, <3>2 DEF ClaimIsFree
    <3>3. CASE get_by_email(req[s].email) \ {RowOf(s)} = {}
      BY ZenonT(60), <2>2, <2>3, <3>1, <3>3 DEF ClaimIsFree, get_by_email, RowOf
    <3> QED  BY Zenon, <3>1, <3>2, <3>3 DEF ClaimIsFree
  <2> QED  BY <1>4, <1>5, <1>6, <1>7, <2>3, <2>6, <2>7, <2>8 DEF EmailInv
<1> QED  BY <1>8, <1>9

LEMMA EmailInit == Init => EmailInv
<1> SUFFICES ASSUME Init PROVE EmailInv
  OBVIOUS
<1>1. req \in [Requests -> Call] /\ \A r \in Requests : req[r].pc = "idle"
  BY IdleTyped DEF Init, Idle
<1>2. roles \in [RoleIds -> [name : Names \cup {"none"}, grants : Powers \cup {BASE_ROLES.user}]]
  BY SeededTyped DEF Init
<1>3. tokens \in SUBSET ((UserIds \cup {Nobody}) \X UserIds)
  BY DEF Init
<1>4. /\ users \in [UserIds -> [email : Emails \cup {"none"}, open : BOOLEAN]]
      /\ OneOpenAccountPerEmail
      /\ \A u \in UserIds : users[u].open => u \in {Root, Member}
  <2>1. CASE users = [u \in UserIds |-> NoUser]
    BY <2>1 DEF NoUser, OneOpenAccountPerEmail
  <2>2. CASE users # [u \in UserIds |-> NoUser]
    <3>1. PICK e, f \in Emails, open \in [{Root, Member} -> BOOLEAN] :
              e # f /\ users = [u \in UserIds |-> CASE u = Root -> [email |-> e, open |-> open[u]]
                                                    [] u = Member -> [email |-> f, open |-> open[u]]
                                                    [] OTHER -> NoUser]
      BY Zenon, <2>2 DEF Init
    <3>2. Root # Member
      BY DEF Root, Member
    <3> QED  BY <3>1, <3>2 DEF NoUser, OneOpenAccountPerEmail
  <2> QED  BY <2>1, <2>2
<1>5. \A u \in UserIds : users[u].open => Settled(u)
  BY <1>4, RequestsAssumption DEF Settled, Root, Member
<1> QED  BY <1>1, <1>2, <1>3, <1>4, <1>5 DEF EmailInv, Types, UpdatesSettled, Claims

LEMMA PreferenceSteps ==
    ASSUME EmailInv, NEW r \in Requests
    PROVE  /\ _user(r) => EmailInv'
           /\ get_for_user(r) => EmailInv'
           /\ save_preferences(r) => EmailInv'
<1>1. ASSUME _user(r) PROVE EmailInv'
  BY <1>1, MovesPc, Refuses DEF _user, At, Pcs, EmailKinds
<1>2. ASSUME get_for_user(r) PROVE EmailInv'
  <2> DEFINE u == IF req[r].kind = "update_features" THEN req[r].user ELSE req[r].actor
  <2>1. u \in UserIds \cup {Nobody}
    BY DEF EmailInv, Types, Call
  <2>2. /\ Put(r, [req[r] EXCEPT !.pc = "known", !.user = u]) /\ Reads
        /\ req[r].kind \in {"update_preferences", "update_features"} /\ req[r].pc \in {"named", "free"}
    BY <1>2 DEF get_for_user, At
  <2> HIDE DEF u
  <2> QED  BY Zenon, <2>1, <2>2, MovesUser DEF Pcs
<1>3. ASSUME save_preferences(r) PROVE EmailInv'
  BY <1>3, MovesPc, Refuses DEF save_preferences, At, Pcs, EmailKinds, Saving
<1> QED  BY <1>1, <1>2, <1>3

LEMMA EmailStep == ASSUME EmailInv, [PrefNext]_allVars PROVE EmailInv'
<1>1. CASE UNCHANGED allVars
  BY Zenon, <1>1 DEF allVars, EmailInv, Types, OneOpenAccountPerEmail, Settled, UpdatesSettled, Claims,
     ClaimIsFree, RowOf,
              get_by_email
<1>2. CASE PrefNext
  <2>1. PICK r \in Requests : Step(r) \/ _user(r) \/ get_for_user(r) \/ save_preferences(r) \/ Commit(r)
    BY <1>2 DEF PrefNext, CommitPreferences
  <2> QED  BY <2>1, Arrivals, RoleSteps, AddressSteps, Impersonates, PreferenceSteps, Commits DEF Step
<1> QED  BY Zenon, <1>1, <1>2

\* Two open accounts never share an address: of any number of registrations,
\* profile changes, closures and commands, however they interleave with each
\* other and with what is done to roles and preferences.
THEOREM OneAddressEach == PrefSpec => []OneOpenAccountPerEmail
<1>1. PrefInit => EmailInv
  BY EmailInit DEF PrefInit
<1>2. EmailInv /\ [PrefNext]_allVars => EmailInv'
  BY EmailStep
<1>3. EmailInv => OneOpenAccountPerEmail
  BY DEF EmailInv
<1> QED  BY <1>1, <1>2, <1>3, PTL DEF PrefSpec

-----------------------------------------------------------------------------
(* The invariant behind the ranks: who may be given, or lose, what.        *)

Adds == {"add_role", "add_member", "grant_role"}
Creates == {"register", "create_superuser", "demo_seed"}

\* An account that is there, open or closed.
Born(u) == users[u].email # "none"

\* There is one role of the administrators, or there is nothing at all.
Seeded == \A ro \in RoleIds : roles[ro].name = "superadmin" <=> ro = "superadmin"
Bare == (\A ro \in RoleIds : ~Exists(ro)) /\ \A u \in UserIds : ~Born(u)

Active(x) == x.pc \notin {"idle", "done"}
Decided(x) == x.pc \in {"known", "written"}

\* On an empty database there is nobody to call a route, and no role to give.
StartsBare(x) ==
    Bare /\ Active(x) => \/ x.kind \in {"seed", "demo_seed"}
                         \/ x.kind \in {"register", "create_superuser", "grant_role"} /\ ~Decided(x)

\* What a call has for history, who makes it, and on whose behalf.
Past(x) == (x.ok => x.pc = "done") /\ \A s \in x.before : req[s].ok
Lent(x) == x.by # Nobody => x.kind = "update_preferences"
Acts(x) == x.kind \in Routes /\ Active(x) => x.actor \in UserIds /\ Born(x.actor)

\* What was looked at stays true of whatever was given before the call.
Later(giver, x) == giver # Earlier /\ giver \notin x.before

Renames(x) ==
    /\ x.kind \in {"create_role", "update_role"} /\ Active(x) => x.name \in Names
    /\ x.kind \in {"create_role", "update_role"} /\ Decided(x) => x.name # "superadmin" /\ x.role # "superadmin"
Deletes(x) ==
    /\ x.kind = "delete_role" /\ Active(x) => x.role \in RoleIds
    /\ x.kind = "delete_role" /\ Decided(x) =>
        /\ x.role # "superadmin"
        /\ \A u \in UserIds : users[u].open /\ Holds(u, x.role) => Later(member[u][x.role], x)
Demotes(x) == x.kind \in Takes /\ x.pc = "written" /\ x.role = "superadmin" => x.actor # x.user
Closes(x) ==
    /\ x.kind = "deactivate" /\ x.pc = "written" => x.user = x.actor
    /\ x.kind = "remove" /\ Decided(x) =>
        x.user \in UserIds /\ (x.super \/ (Holds(x.user, "superadmin") => Later(member[x.user]["superadmin"], x)))

\* A role is given to an account that is there, once; a new account is the call's own.
GivesTo(r, x) ==
    /\ x.kind \in Creates /\ Active(x) => x.user = r /\ x.email \in Emails /\ (x.pc = "named" => x.name # "none")
    /\ x.kind \in Adds /\ Decided(x) => Settled(x.user) /\ x.role \in RoleIds
    /\ x.kind \in Adds /\ x.pc = "written" => ~Holds(x.user, x.role)
Changes(x) ==
    x.kind = "update" /\ Active(x) => x.email \in Emails /\ (Decided(x) => x.user \in UserIds /\ Born(x.user))
Saves(x) ==
    /\ x.kind = "update_features" /\ Active(x) => x.user \in UserIds
    /\ x.kind = "update_preferences" /\ Decided(x) => x.user \in UserIds

First(r, x) == \A u \in UserIds \ {r} : Born(u) => u \in Requests /\ u \notin x.before
Company(r) == \E u \in UserIds \ {r} : Born(u)
Registers(r, x) ==
    x.kind = "register" =>
        /\ x.pc \in {"named", "known", "written"} =>
            \/ x.name = "superadmin" /\ First(r, x) /\ (Decided(x) => x.role = "superadmin")
            \/ x.name = "user" /\ Company(r) /\ (Decided(x) => x.role # "superadmin")
        /\ x.ok => Born(r) /\ IF member[r]["superadmin"] = r THEN First(r, x) ELSE Company(r)

Sound(r, x) ==
    /\ StartsBare(x) /\ Past(x) /\ Lent(x) /\ Acts(x)
    /\ Renames(x) /\ Deletes(x) /\ Demotes(x) /\ Closes(x)
    /\ GivesTo(r, x) /\ Changes(x) /\ Saves(x) /\ Registers(r, x)

RankInv ==
    /\ member \in [UserIds -> [RoleIds -> Makers \cup {Nobody}]]
    /\ tokens \in SUBSET (UserIds \X UserIds)
    /\ Seeded \/ Bare
    /\ \A u \in UserIds : users[u].open => Born(u)
    /\ \A u \in UserIds : ~Settled(u) => ~Born(u) /\ \A ro \in RoleIds : ~Holds(u, ro)
    /\ \A r \in Requests : Sound(r, req[r])
    /\ \A r, s \in Writing(Adds) : r # s => req[r].user # req[s].user \/ req[r].role # req[s].role

\* A call keeps everything but its label, its account, its role and its name.
Same(t, x) ==
    /\ t.kind = x.kind /\ t.actor = x.actor /\ t.by = x.by /\ t.email = x.email
    /\ t.super = x.super /\ t.ok = x.ok /\ t.before = x.before

\* The labels of a call on its way.
LEMMA Labels == {"named", "free", "known", "written"} \subseteq Pcs
BY Zenon DEF Pcs

\* A step that only moves a call's label keeps the rest of the call.
LEMMA SetsPc ==
    ASSUME NEW x \in Call, NEW pc \in Pcs
    PROVE  LET t == [x EXCEPT !.pc = pc] IN
           t \in Call /\ Same(t, x) /\ t.pc = pc /\ t.user = x.user /\ t.role = x.role /\ t.name = x.name
BY ZenonT(60) DEF Call, Same

\* A step that changes no account, role or membership: what has to be shown is
\* that the call is sound where it is going.
LEMMA QuietRank ==
    ASSUME EmailInv, RankInv, NEW r \in Requests, NEW t \in Call, Put(r, t), req[r].pc # "done",
           users' = users, roles' = roles, member' = member, tokens' \in SUBSET (UserIds \X UserIds),
           Sound(r, t),
           t.kind \in Adds /\ t.pc = "written" =>
                \A s \in Writing(Adds) \ {r} : req[s].user # t.user \/ req[s].role # t.role
    PROVE  RankInv'
<1>1. /\ req'[r] = t
      /\ \A s \in Requests \ {r} : req'[s] = req[s]
      /\ \A u : Settled(u) => Settled(u)'
  BY Zenon, PutIs DEF EmailInv
<1>2. req[r].ok # TRUE /\ \A s \in Requests : req[s] \in Call
  BY Zenon DEF RankInv, Sound, Past, EmailInv, Types
<1>3. \A s \in Requests : req[s].ok => req'[s].ok
  BY ZenonT(60), <1>1, <1>2 DEF Call
<1>4. (Seeded \/ Bare)' /\ (Bare' => Bare)
  BY DEF RankInv, Seeded, Bare, Born, Exists
<1>5. ASSUME NEW s \in Requests, NEW x \in Call, Sound(s, x) PROVE Sound(s, x)'
  <2>1. StartsBare(x)' /\ Lent(x)'
    BY Zenon, <1>4, <1>5 DEF Sound, StartsBare, Lent, Active, Decided
  <2>2. Past(x)'
    BY Zenon, <1>3, <1>5 DEF Sound, Past, Call
  <2>3. Acts(x)' /\ Renames(x)' /\ Demotes(x)' /\ Changes(x)' /\ Saves(x)'
    BY Zenon, <1>5 DEF Sound, Acts, Renames, Demotes, Changes, Saves, Active, Decided, Born
  <2>4. Deletes(x)' /\ Closes(x)'
    BY Zenon, <1>5 DEF Sound, Deletes, Closes, Active, Decided, Holds, Later
  <2>5. GivesTo(s, x)'
    BY Zenon, <1>1, <1>5 DEF Sound, GivesTo, Active, Decided, Holds
  <2>6. Registers(s, x)'
    BY ZenonT(60), <1>5 DEF Sound, Registers, First, Company, Decided, Born
  <2> QED  BY <2>1, <2>2, <2>3, <2>4, <2>5, <2>6 DEF Sound
<1>6. \A s \in Requests : Sound(s, req[s])'
  BY <1>1, <1>2, <1>5 DEF RankInv
<1>7. \A p, q \in Writing(Adds)' : p # q => req'[p].user # req'[q].user \/ req'[p].role # req'[q].role
  BY <1>1 DEF RankInv, Writing, At
<1>8. \A u \in UserIds : /\ users'[u].open => Born(u)'
                         /\ ~Settled(u)' => ~Born(u)' /\ \A ro \in RoleIds : ~Holds(u, ro)'
  BY ZenonT(60), <1>1 DEF RankInv, Born, Holds
<1> QED  BY <1>4, <1>6, <1>7, <1>8 DEF RankInv

\* What a call keeps on its way, and what the tables are then.
LEMMA Carries ==
    ASSUME EmailInv, RankInv, NEW r \in Requests, NEW t, Same(t, req[r]), Active(req[r]), t.pc # "idle", t.pc # "done"
    PROVE  /\ Past(t) /\ Lent(t) /\ Acts(t)
           /\ req[r].kind \notin {"seed", "demo_seed", "register", "create_superuser", "grant_role"} => Seeded /\ ~Bare
           /\ req[r].kind \notin {"seed", "demo_seed"} /\ Decided(req[r]) => Seeded /\ ~Bare
           /\ ~Born(r) /\ ~Settled(r)
<1>1. Sound(r, req[r]) /\ (Seeded \/ Bare) /\ r \in UserIds
  BY Zenon DEF RankInv, UserIds
<1>2. Past(t) /\ Lent(t) /\ Acts(t)
  BY Zenon, <1>1 DEF Sound, Past, Lent, Acts, Same, Active
<1>3. /\ req[r].kind \notin {"seed", "demo_seed", "register", "create_superuser", "grant_role"} => Seeded /\ ~Bare
      /\ req[r].kind \notin {"seed", "demo_seed"} /\ Decided(req[r]) => Seeded /\ ~Bare
  BY <1>1 DEF Sound, StartsBare
<1>4. ~Settled(r)
  BY ZenonT(60) DEF Settled, Active
<1> QED  BY <1>1, <1>2, <1>3, <1>4 DEF RankInv

\* A refusal.
LEMMA RefusesRank ==
    ASSUME EmailInv, RankInv, NEW r \in Requests, req[r].pc # "done", Reads, Refuse(r)
    PROVE  RankInv'
<1> DEFINE t == [Idle EXCEPT !.pc = "done"]
<1>1. t \in Call /\ t.pc = "done" /\ t.kind = "none" /\ t.by = Nobody /\ t.ok = FALSE /\ t.before = {}
  BY Zenon, RefusedTyped DEF Idle
<1>2. Put(r, t)
  BY DEF Refuse
<1> HIDE DEF t
<1>3. StartsBare(t) /\ Past(t) /\ Lent(t) /\ Acts(t)
  BY SMTT(60), <1>1 DEF StartsBare, Past, Lent, Acts, Active
<1>4. Renames(t) /\ Deletes(t) /\ Demotes(t) /\ Closes(t) /\ GivesTo(r, t) /\ Changes(t) /\ Saves(t) /\ Registers(r, t)
  BY <1>1 DEF Renames, Deletes, Demotes, Closes, GivesTo, Changes, Saves, Registers, Adds, Creates, Takes
<1>5. Sound(r, t)
  BY Zenon, <1>3, <1>4 DEF Sound
<1> QED  BY <1>1, <1>2, <1>5, QuietRank DEF Reads, RankInv, Adds

\* The same for a call on its way: what is left is what its kind decides.
LEMMA GoesOn ==
    ASSUME EmailInv, RankInv, NEW r \in Requests, Reads, Active(req[r]),
           NEW t \in Call, Put(r, t), Same(t, req[r]), t.pc # "idle", t.pc # "done", StartsBare(t),
           Renames(t), Deletes(t), Demotes(t), Closes(t), GivesTo(r, t), Changes(t), Saves(t), Registers(r, t),
           t.kind \in Adds /\ t.pc = "written" =>
                \A s \in Writing(Adds) \ {r} : req[s].user # t.user \/ req[s].role # t.role
    PROVE  RankInv'
<1>1. Sound(r, t)
  BY ZenonT(60), Carries DEF Sound
<1>2. tokens' \in SUBSET (UserIds \X UserIds)
  BY DEF RankInv, Reads
<1> QED  BY Zenon, <1>1, <1>2, QuietRank DEF Reads, Active

-----------------------------------------------------------------------------
(* The steps before a commit.                                              *)

\* Giving a role.
LEMMA GivingRank ==
    ASSUME EmailInv, RankInv, NEW r \in Requests
    PROVE  add_role(r) \/ add_role_insert(r) => RankInv'
<1> DEFINE x == req[r]
<1>0. x \in Call
  BY DEF EmailInv, Types
<1>1. ASSUME add_role(r) PROVE RankInv'
  <2>1. x.kind \in Adds /\ x.pc = "named" /\ Reads
    BY Zenon, <1>1 DEF add_role, At, Adds
  <2>2. CASE Refuse(r)
    BY <2>1, <2>2, RefusesRank
  <2>3. CASE ~Refuse(r)
    <3>1. PICK ro \in RoleIds : Put(r, [x EXCEPT !.pc = "known", !.role = ro]) /\ Found(x.user)
      BY Zenon, <1>1, <2>3 DEF add_role, Named
    <3> DEFINE t == [x EXCEPT !.pc = "known", !.role = ro]
    <3>2. t \in Call /\ Same(t, x) /\ t.pc = "known" /\ t.user = x.user /\ t.role = ro
      <4> HIDE DEF x
      <4> QED  BY ZenonT(60), <1>0, Labels DEF Call, Same
    <3>3. Settled(x.user) /\ ~Bare
      BY Zenon, <1>0, <3>1 DEF Found, Call, EmailInv, RankInv, Bare
    <3> HIDE DEF t
    <3>4. StartsBare(t) /\ GivesTo(r, t)
      BY Zenon, <2>1, <3>2, <3>3 DEF StartsBare, GivesTo, Same, Adds, Creates
    <3>5. Renames(t) /\ Deletes(t) /\ Demotes(t) /\ Closes(t) /\ Changes(t) /\ Saves(t) /\ Registers(r, t)
      BY <2>1, <3>2 DEF Same, Renames, Deletes, Demotes, Closes, Changes, Saves, Registers, Adds, Takes
    <3> QED  BY Zenon, <2>1, <3>1, <3>2, <3>4, <3>5, GoesOn DEF Active, t
  <2> QED  BY <2>2, <2>3
<1>2. ASSUME add_role_insert(r) PROVE RankInv'
  <2>1. x.kind \in Adds /\ x.pc = "known" /\ Reads
    BY <1>2 DEF add_role_insert, At, Adds
  <2>2. CASE Refuse(r)
    BY ZenonT(60), <2>1, <2>2, RefusesRank
  <2>3. CASE ~Refuse(r)
    <3> DEFINE t == [x EXCEPT !.pc = "written"]
    <3>1. Put(r, t) /\ ~Holds(x.user, x.role)
      BY <1>2, <2>3 DEF add_role_insert
    <3>2. t \in Call /\ Same(t, x) /\ t.pc = "written" /\ t.user = x.user /\ t.role = x.role
      <4> HIDE DEF x
      <4> QED  BY ZenonT(60), <1>0, SetsPc, Labels
    <3>3. Settled(x.user) /\ x.role \in RoleIds /\ ~Bare
      BY <2>1 DEF RankInv, Sound, GivesTo, StartsBare, Adds, Decided, Active
    <3>4. \A s \in Writing(Adds) \ {r} : req[s].user # x.user \/ req[s].role # x.role
      BY Zenon, <1>2 DEF add_role_insert, Adds
    <3> HIDE DEF t
    <3>5. StartsBare(t) /\ GivesTo(r, t)
      BY ZenonT(60), <2>1, <3>1, <3>2, <3>3 DEF StartsBare, GivesTo, Same, Adds, Creates
    <3>6. Renames(t) /\ Deletes(t) /\ Demotes(t) /\ Closes(t) /\ Changes(t) /\ Saves(t) /\ Registers(r, t)
      BY <2>1, <3>2 DEF Same, Renames, Deletes, Demotes, Closes, Changes, Saves, Registers, Adds, Takes
    <3> QED  BY <2>1, <3>1, <3>2, <3>4, <3>5, <3>6, GoesOn DEF Active
  <2> QED  BY <2>2, <2>3
<1> QED  BY <1>1, <1>2

\* Taking one, and a role by its id.
LEMMA TakingRank ==
    ASSUME EmailInv, RankInv, NEW r \in Requests
    PROVE  _role_by_id(r) \/ remove_role(r) => RankInv'
<1> DEFINE x == req[r]
<1>0. x \in Call
  BY DEF EmailInv, Types
<1>1. ASSUME _role_by_id(r) PROVE RankInv'
  <2>1. x.kind \in {"add_member", "remove_member"} /\ x.pc = "admitted" /\ Reads
    BY <1>1 DEF _role_by_id, At
  <2>2. CASE Refuse(r)
    BY ZenonT(60), <2>1, <2>2, RefusesRank
  <2>3. CASE ~Refuse(r)
    <3> DEFINE name == roles[x.role].name
               t == [x EXCEPT !.pc = "named", !.name = name]
    <3>1. Put(r, t)
      BY <1>1, <2>3 DEF _role_by_id
    <3>2. name \in Names \cup {"none"}
      BY <2>1 DEF EmailInv, Types
    <3>3. t \in Call /\ Same(t, x) /\ t.pc = "named"
      <4> HIDE DEF x, name
      <4> QED  BY ZenonT(60), <1>0, <3>2, Labels DEF Call, Same
    <3>4. ~Bare
      BY <2>1 DEF RankInv, Sound, StartsBare, Active
    <3> HIDE DEF t
    <3>5. StartsBare(t) /\ GivesTo(r, t)
      BY Zenon, <2>1, <3>3, <3>4 DEF StartsBare, GivesTo, Same, Adds, Creates, Decided
    <3>6. Renames(t) /\ Deletes(t) /\ Demotes(t) /\ Closes(t) /\ Changes(t) /\ Saves(t) /\ Registers(r, t)
      BY <2>1, <3>3 DEF Same, Renames, Deletes, Demotes, Closes, Changes, Saves, Registers, Adds, Takes
    <3> QED  BY <2>1, <3>1, <3>3, <3>5, <3>6, GoesOn DEF Active
  <2> QED  BY <2>2, <2>3
<1>2. ASSUME remove_role(r) PROVE RankInv'
  <2>1. x.kind \in Takes /\ x.pc = "named" /\ Reads
    BY Zenon, <1>2 DEF remove_role, At, Takes
  <2>2. CASE Refuse(r)
    BY Zenon, <2>1, <2>2, RefusesRank
  <2>3. CASE ~Refuse(r)
    <3>1. PICK ro \in RoleIds : /\ Put(r, [x EXCEPT !.pc = "written", !.role = ro]) /\ roles[ro].name = x.name
                                /\ ~(x.actor = x.user /\ x.name = "superadmin")
      BY Zenon, <1>2, <2>3 DEF remove_role, Named
    <3> DEFINE t == [x EXCEPT !.pc = "written", !.role = ro]
    <3>2. t \in Call /\ Same(t, x) /\ t.pc = "written" /\ t.user = x.user /\ t.role = ro
      <4> HIDE DEF x
      <4> QED  BY ZenonT(60), <1>0, Labels DEF Call, Same
    <3>3. Seeded /\ ~Bare
      BY <2>1 DEF RankInv, Sound, StartsBare, Active, Takes
    <3> HIDE DEF t
    <3>4. StartsBare(t) /\ Demotes(t)
      BY ZenonT(60), <2>1, <3>1, <3>2, <3>3 DEF StartsBare, Demotes, Same, Seeded
    <3>5. Renames(t) /\ Deletes(t) /\ GivesTo(r, t) /\ Closes(t) /\ Changes(t) /\ Saves(t) /\ Registers(r, t)
      BY <2>1, <3>2 DEF Same, Renames, Deletes, GivesTo, Closes, Changes, Saves, Registers, Adds, Takes, Creates
    <3> QED  BY Zenon, <2>1, <3>1, <3>2, <3>4, <3>5, GoesOn DEF Active, Takes, Adds, t, Same
  <2> QED  BY <2>2, <2>3
<1> QED  BY <1>1, <1>2

\* An account registers, or is created from the command line.
LEMMA CreatingRank ==
    ASSUME EmailInv, RankInv, NEW r \in Requests
    PROVE  register(r) \/ create_superuser(r) \/ _role(r) \/ create(r) => RankInv'
<1> DEFINE x == req[r]
<1>0. x \in Call /\ Sound(r, x)
  BY Zenon DEF EmailInv, Types, RankInv
<1>1. ASSUME NEW t \in Call, Put(r, t), Same(t, x), x.kind \in {"register", "create_superuser"}, Active(x), Reads,
             t.pc \in {"named", "known", "written"}, t.user = x.user, t.pc = "named" => t.name # "none",
             Decided(t) => ~Bare, Registers(r, t)
      PROVE  RankInv'
  <2>1. StartsBare(t) /\ GivesTo(r, t)
    BY Zenon, <1>0, <1>1 DEF Sound, StartsBare, GivesTo, Same, Adds, Creates, Active
  <2>2. Renames(t) /\ Deletes(t) /\ Demotes(t) /\ Closes(t) /\ Changes(t) /\ Saves(t)
    BY Zenon, <1>1 DEF Same, Renames, Deletes, Demotes, Closes, Changes, Saves, Takes
  <2> QED  BY Zenon, <1>1, <2>1, <2>2, GoesOn DEF Same, Adds
<1>2. ASSUME register(r) PROVE RankInv'
  <2> DEFINE name == IF exists_any THEN "user" ELSE "superadmin"
             t == [x EXCEPT !.pc = "named", !.name = name]
  <2>1. x.kind = "register" /\ x.pc = "free" /\ Reads /\ Put(r, t)
    BY <1>2 DEF register, At
  <2>2. name \in Names \cup {"none"} /\ name # "none"
    BY DEF Names, BUILT_IN
  <2>3. t \in Call /\ Same(t, x) /\ t.pc = "named" /\ t.user = x.user /\ t.name = name
    <3> HIDE DEF x, name
    <3> QED  BY Zenon, <1>0, <2>2, Labels DEF Call, Same
  <2>4. ~Born(r) /\ r \in UserIds /\ x.ok # TRUE
    BY Zenon, <1>0, <2>1 DEF RankInv, Settled, UserIds, Sound, Past
  <2> HIDE DEF t
  <2>5. Registers(r, t)
    <3>1. CASE exists_any
      BY Zenon, <1>0, <2>1, <2>3, <2>4, <3>1 DEF Registers, Company, exists_any, Born, Same, Decided, Call
    <3>2. CASE ~exists_any
      BY ZenonT(60), <1>0, <2>1, <2>3, <2>4, <3>2 DEF Registers, First, exists_any, Born, Same, Decided, Call
    <3> QED  BY <3>1, <3>2
  <2> QED  BY <1>1, <2>1, <2>2, <2>3, <2>5 DEF Active, Decided
<1>3. ASSUME create_superuser(r) PROVE RankInv'
  <2> DEFINE t == [x EXCEPT !.pc = "named", !.name = "superadmin"]
  <2>1. x.kind = "create_superuser" /\ x.pc = "free" /\ Reads /\ Put(r, t)
    BY <1>3 DEF create_superuser, At
  <2>2. t \in Call /\ Same(t, x) /\ t.pc = "named" /\ t.user = x.user /\ t.name = "superadmin"
    <3>1. "superadmin" \in Names
      BY DEF Names, BUILT_IN
    <3> HIDE DEF x
    <3> QED  BY Zenon, <1>0, <3>1, Labels DEF Call, Same
  <2> HIDE DEF t
  <2> QED  BY <1>1, <2>1, <2>2 DEF Active, Decided, Registers, Same
<1>4. ASSUME _role(r) PROVE RankInv'
  <2>1. x.kind \in {"register", "create_superuser"} /\ x.pc = "named" /\ Reads
    BY Zenon, <1>4 DEF _role, At
  <2>2. CASE Refuse(r)
    BY <2>1, <2>2, RefusesRank
  <2>3. CASE ~Refuse(r)
    <3>1. PICK ro \in RoleIds : Put(r, [x EXCEPT !.pc = "known", !.role = ro]) /\ roles[ro].name = x.name
      BY Zenon, <1>4, <2>3 DEF _role, Named
    <3> DEFINE t == [x EXCEPT !.pc = "known", !.role = ro]
    <3>2. t \in Call /\ Same(t, x) /\ t.pc = "known" /\ t.user = x.user /\ t.role = ro /\ t.name = x.name
      <4> HIDE DEF x
      <4> QED  BY ZenonT(60), <1>0, Labels DEF Call, Same
    <3>3. x.name # "none"
      BY <1>0, <2>1 DEF Sound, GivesTo, Creates, Active
    <3>4. ~Bare /\ Seeded
      BY <3>1, <3>3 DEF RankInv, Bare, Exists
    <3> HIDE DEF t
    <3>5. Registers(r, t)
      <4>1. Registers(r, x)
        BY Zenon, <1>0 DEF Sound
      <4> QED  BY <2>1, <3>1, <3>2, <3>4, <4>1 DEF Registers, Same, Decided, Seeded, First
    <3> QED  BY Zenon, <1>1, <2>1, <3>1, <3>2, <3>4, <3>5 DEF Active, t
  <2> QED  BY <2>2, <2>3
<1>5. ASSUME create(r) PROVE RankInv'
  <2> DEFINE t == [x EXCEPT !.pc = "written"]
  <2>1. x.kind \in {"register", "create_superuser"} /\ x.pc = "known" /\ Reads /\ (Refuse(r) \/ Put(r, t))
    BY <1>5 DEF create, At
  <2>2. t \in Call /\ Same(t, x) /\ t.pc = "written" /\ t.user = x.user /\ t.role = x.role /\ t.name = x.name
    <3> HIDE DEF x
    <3> QED  BY <1>0, SetsPc, Labels
  <2>3. ~Bare
    BY ZenonT(60), <1>0, <2>1 DEF Sound, StartsBare, Active, Decided
  <2> HIDE DEF t
  <2>4. Registers(r, t)
    <3>1. Registers(r, x)
      BY <1>0 DEF Sound
    <3> QED  BY <2>1, <2>2, <3>1 DEF Registers, Same, Decided, First
  <2> QED  BY <1>1, <2>1, <2>2, <2>3, <2>4, RefusesRank DEF Active
<1> QED  BY Zenon, <1>2, <1>3, <1>4, <1>5

\* A profile is changed; an account is closed, by itself or by another.
LEMMA ClosingRank ==
    ASSUME EmailInv, RankInv, NEW r \in Requests
    PROVE  update(r) \/ update_save(r) \/ deactivate(r) \/ remove(r) \/ _close(r) => RankInv'
<1> DEFINE x == req[r]
<1>0. x \in Call /\ Sound(r, x)
  BY Zenon DEF EmailInv, Types, RankInv
<1>1. ASSUME NEW t \in Call, Put(r, t), Same(t, x), x.kind \in {"update", "deactivate", "remove"}, Active(x), Reads,
             t.pc \in {"known", "written"}, Changes(t), Closes(t)
      PROVE  RankInv'
  <2>1. StartsBare(t)
    BY ZenonT(60), <1>0, <1>1 DEF Sound, StartsBare, Same, Active
  <2>2. Renames(t) /\ Deletes(t) /\ Demotes(t) /\ GivesTo(r, t) /\ Saves(t) /\ Registers(r, t)
    BY <1>1 DEF Same, Renames, Deletes, Demotes, GivesTo, Saves, Registers, Takes, Adds, Creates
  <2> QED  BY Zenon, <1>1, <2>1, <2>2, GoesOn DEF Same, Adds
<1>2. ASSUME NEW pc \in {"known", "written"}
      PROVE  LET t == [x EXCEPT !.pc = pc] IN t \in Call /\ Same(t, x) /\ t.pc = pc /\ t.user = x.user
  <2> HIDE DEF x
  <2> QED  BY <1>0, SetsPc, Labels
<1>3. ASSUME NEW pc \in {"known", "written"}
      PROVE  LET t == [x EXCEPT !.pc = pc, !.user = x.actor] IN t \in Call /\ Same(t, x) /\ t.pc = pc /\ t.user = x.actor
  <2>1. x.actor \in UserIds \cup {Nobody}
    BY Zenon, <1>0 DEF Call
  <2> HIDE DEF x
  <2> QED  BY ZenonT(60), <1>0, <2>1, Labels DEF Call, Same
<1>4. ASSUME update(r) PROVE RankInv'
  <2> DEFINE t == [x EXCEPT !.pc = "known", !.user = x.actor]
  <2>1. x.kind = "update" /\ x.pc = "named" /\ Reads /\ (Refuse(r) \/ Put(r, t))
    BY <1>4 DEF update, At
  <2>2. t \in Call /\ Same(t, x) /\ t.pc = "known" /\ t.user = x.actor
    BY Zenon, <1>3
  <2> HIDE DEF t
  <2>3. Changes(t) /\ Closes(t)
    BY Zenon, <1>0, <2>1, <2>2 DEF Sound, Changes, Closes, Acts, Same, Routes, Profile, Active, Decided
  <2> QED  BY <1>1, <2>1, <2>2, <2>3, RefusesRank DEF Active
<1>5. ASSUME update_save(r) PROVE RankInv'
  <2> DEFINE t == [x EXCEPT !.pc = "written"]
  <2>1. x.kind = "update" /\ x.pc = "known" /\ Reads /\ (Refuse(r) \/ Put(r, t))
    BY <1>5 DEF update_save, At
  <2>2. t \in Call /\ Same(t, x) /\ t.pc = "written" /\ t.user = x.user
    BY Zenon, <1>2
  <2> HIDE DEF t
  <2>3. Changes(t) /\ Closes(t)
    BY Zenon, <1>0, <2>1, <2>2 DEF Sound, Changes, Closes, Same, Active, Decided
  <2> QED  BY <1>1, <2>1, <2>2, <2>3, RefusesRank DEF Active
<1>6. ASSUME deactivate(r) PROVE RankInv'
  <2> DEFINE t == [x EXCEPT !.pc = "written", !.user = x.actor]
  <2>1. x.kind = "deactivate" /\ x.pc = "named" /\ Reads /\ Put(r, t)
    BY <1>6 DEF deactivate, At
  <2>2. t \in Call /\ Same(t, x) /\ t.pc = "written" /\ t.user = x.actor
    BY ZenonT(60), <1>3
  <2> HIDE DEF t
  <2>3. Changes(t) /\ Closes(t)
    BY <2>1, <2>2 DEF Changes, Closes, Same
  <2> QED  BY <1>1, <2>1, <2>2, <2>3 DEF Active
<1>7. ASSUME remove(r) PROVE RankInv'
  <2> DEFINE t == [x EXCEPT !.pc = "known"]
  <2>1. x.kind = "remove" /\ x.pc = "named" /\ Reads /\ (Refuse(r) \/ Put(r, t))
    BY <1>7 DEF remove, At
  <2>2. t \in Call /\ Same(t, x) /\ t.pc = "known" /\ t.user = x.user
    BY <1>2
  <2>3. Seeded
    BY ZenonT(60), <1>0, <2>1 DEF RankInv, Sound, StartsBare, Active
  <2>4. CASE ~Refuse(r)
    <3>1. Put(r, t) /\ Found(x.user) /\ (x.super \/ ~is_superuser(RolesOf(x.user)))
      BY <1>7, <2>4 DEF remove
    <3>2. x.user \in UserIds
      BY <1>0, <3>1 DEF Call, Found
    <3>3. roles["superadmin"].name = "superadmin" /\ "superadmin" \in RoleIds
      BY <2>3 DEF Seeded, RoleIds, Names, BUILT_IN
    <3>4. x.super \/ ~Holds(x.user, "superadmin")
      BY Zenon, <3>1, <3>3 DEF is_superuser, RolesOf, Exists
    <3> HIDE DEF t
    <3>5. Changes(t) /\ Closes(t)
      BY ZenonT(60), <2>1, <2>2, <3>2, <3>4 DEF Changes, Closes, Same
    <3> QED  BY <1>1, <2>1, <2>2, <3>1, <3>5 DEF Active
  <2> QED  BY <2>1, <2>4, RefusesRank
<1>8. ASSUME _close(r) PROVE RankInv'
  <2> DEFINE t == [x EXCEPT !.pc = "written"]
  <2>1. x.kind = "remove" /\ x.pc = "known" /\ Reads /\ Put(r, t)
    BY <1>8 DEF _close, At
  <2>2. t \in Call /\ Same(t, x) /\ t.pc = "written" /\ t.user = x.user
    BY ZenonT(60), <1>2
  <2> HIDE DEF t
  <2>3. Changes(t) /\ Closes(t)
    BY <1>0, <2>1, <2>2 DEF Sound, Changes, Closes, Same, Decided, Later
  <2> QED  BY <1>1, <2>1, <2>2, <2>3 DEF Active
<1> QED  BY Zenon, <1>4, <1>5, <1>6, <1>7, <1>8

\* The roles themselves.
LEMMA NamingRank ==
    ASSUME EmailInv, RankInv, NEW r \in Requests
    PROVE  create_role(r) \/ update_role(r) \/ write_role(r) \/ delete_role(r) \/ delete_role_row(r) => RankInv'
<1> DEFINE x == req[r]
<1>0. x \in Call /\ Sound(r, x)
  BY Zenon DEF EmailInv, Types, RankInv
<1>1. ASSUME NEW t \in Call, Put(r, t), Same(t, x), x.kind \in {"create_role", "update_role", "delete_role"}, Active(x),
             Reads, t.pc \in {"known", "written"}, Renames(t), Deletes(t)
      PROVE  RankInv'
  <2>1. StartsBare(t)
    BY ZenonT(60), <1>0, <1>1 DEF Sound, StartsBare, Same, Active
  <2>2. Changes(t) /\ Closes(t) /\ Demotes(t) /\ GivesTo(r, t) /\ Saves(t) /\ Registers(r, t)
    BY <1>1 DEF Same, Changes, Closes, Demotes, GivesTo, Saves, Registers, Takes, Adds, Creates
  <2> QED  BY Zenon, <1>1, <2>1, <2>2, GoesOn DEF Same, Adds
<1>2. ASSUME NEW pc \in {"known", "written"}
      PROVE  LET t == [x EXCEPT !.pc = pc] IN t \in Call /\ Same(t, x) /\ t.pc = pc /\ t.role = x.role /\ t.name = x.name
  <2> HIDE DEF x
  <2> QED  BY ZenonT(60), <1>0, SetsPc, Labels
<1>3. ASSUME x.kind \in {"create_role", "update_role", "delete_role"}, Active(x)
      PROVE  /\ "superadmin" \in RoleIds
             /\ \A ro \in RoleIds : roles[ro].name = "superadmin" <=> ro = "superadmin"
             /\ r # "superadmin" /\ r \in RoleIds
  BY <1>0, <1>3, RequestsAssumption DEF RankInv, Sound, StartsBare, Seeded, RoleIds, Names, BUILT_IN
<1>4. ASSUME create_role(r) PROVE RankInv'
  <2> DEFINE t == [x EXCEPT !.pc = "known", !.role = r]
  <2>1. x.kind = "create_role" /\ x.pc = "named" /\ Reads
    BY <1>4 DEF create_role, At
  <2>2. CASE Refuse(r)
    BY ZenonT(60), <2>1, <2>2, RefusesRank
  <2>3. CASE ~Refuse(r)
    <3>1. Put(r, t) /\ Named(x.name) = {}
      BY <1>4, <2>3 DEF create_role
    <3>2. r \in RoleIds
      BY DEF RoleIds
    <3>3. t \in Call /\ Same(t, x) /\ t.pc = "known" /\ t.role = r /\ t.name = x.name
      <4> HIDE DEF x
      <4> QED  BY ZenonT(60), <1>0, <3>2, Labels DEF Call, Same
    <3> HIDE DEF t
    <3>4. x.name # "superadmin" /\ r # "superadmin"
      BY Zenon, <1>3, <2>1, <3>1 DEF Named, Active
    <3>5. Renames(t) /\ Deletes(t)
      BY <1>0, <2>1, <3>3, <3>4 DEF Sound, Renames, Deletes, Same, Active
    <3> QED  BY <1>1, <2>1, <3>1, <3>3, <3>5 DEF Active
  <2> QED  BY <2>2, <2>3
<1>5. ASSUME update_role(r) PROVE RankInv'
  <2> DEFINE t == [x EXCEPT !.pc = "known"]
  <2>1. x.kind = "update_role" /\ x.pc = "named" /\ Reads
    BY <1>5 DEF update_role, At
  <2>2. CASE Refuse(r)
    BY ZenonT(60), <2>1, <2>2, RefusesRank
  <2>3. CASE ~Refuse(r)
    <3>1. Put(r, t) /\ roles[x.role].name # "superadmin" /\ Named(x.name) \ {x.role} = {}
      BY <1>5, <2>3 DEF update_role
    <3>2. t \in Call /\ Same(t, x) /\ t.pc = "known" /\ t.role = x.role /\ t.name = x.name
      BY Zenon, <1>2
    <3> HIDE DEF t
    <3>3. x.role # "superadmin" /\ x.name # "superadmin"
      BY Zenon, <1>3, <2>1, <3>1 DEF Named, Active
    <3>4. Renames(t) /\ Deletes(t)
      BY ZenonT(60), <1>0, <2>1, <3>2, <3>3 DEF Sound, Renames, Deletes, Same, Active
    <3> QED  BY <1>1, <2>1, <3>1, <3>2, <3>4 DEF Active
  <2> QED  BY <2>2, <2>3
<1>6. ASSUME write_role(r) PROVE RankInv'
  <2> DEFINE t == [x EXCEPT !.pc = "written"]
  <2>1. x.kind \in {"create_role", "update_role"} /\ x.pc = "known" /\ Reads /\ (Refuse(r) \/ Put(r, t))
    BY <1>6 DEF write_role, At
  <2>2. t \in Call /\ Same(t, x) /\ t.pc = "written" /\ t.role = x.role /\ t.name = x.name
    BY ZenonT(60), <1>2
  <2> HIDE DEF t
  <2>3. Renames(t) /\ Deletes(t)
    BY <1>0, <2>1, <2>2 DEF Sound, Renames, Deletes, Same, Active, Decided
  <2> QED  BY <1>1, <2>1, <2>2, <2>3, RefusesRank DEF Active
<1>7. ASSUME delete_role(r) PROVE RankInv'
  <2> DEFINE t == [x EXCEPT !.pc = "known"]
  <2>1. x.kind = "delete_role" /\ x.pc = "named" /\ Reads
    BY <1>7 DEF delete_role, At
  <2>2. CASE Refuse(r)
    BY ZenonT(60), <2>1, <2>2, RefusesRank
  <2>3. CASE ~Refuse(r)
    <3>1. Put(r, t) /\ roles[x.role].name \notin BUILT_IN /\ count_for_role(x.role) = {}
      BY <1>7, <2>3 DEF delete_role
    <3>2. t \in Call /\ Same(t, x) /\ t.pc = "known" /\ t.role = x.role /\ t.name = x.name
      BY Zenon, <1>2
    <3> HIDE DEF t
    <3>3. x.role # "superadmin" /\ \A u \in UserIds : users[u].open => ~Holds(u, x.role)
      BY Zenon, <1>3, <2>1, <3>1 DEF count_for_role, Active, BUILT_IN
    <3>4. Renames(t) /\ Deletes(t)
      BY ZenonT(60), <1>0, <2>1, <3>2, <3>3 DEF Sound, Renames, Deletes, Same, Active
    <3> QED  BY <1>1, <2>1, <3>1, <3>2, <3>4 DEF Active
  <2> QED  BY <2>2, <2>3
<1>8. ASSUME delete_role_row(r) PROVE RankInv'
  <2> DEFINE t == [x EXCEPT !.pc = "written"]
  <2>1. x.kind = "delete_role" /\ x.pc = "known" /\ Reads /\ (Refuse(r) \/ Put(r, t))
    BY <1>8 DEF delete_role_row, At
  <2>2. t \in Call /\ Same(t, x) /\ t.pc = "written" /\ t.role = x.role /\ t.name = x.name
    BY ZenonT(60), <1>2
  <2> HIDE DEF t
  <2>3. Renames(t) /\ Deletes(t)
    BY <1>0, <2>1, <2>2 DEF Sound, Renames, Deletes, Same, Active, Decided, Later
  <2> QED  BY <1>1, <2>1, <2>2, <2>3, RefusesRank DEF Active
<1> QED  BY <1>4, <1>5, <1>6, <1>7, <1>8

\* The preferences, and the session that is lent.
LEMMA LendingRank ==
    ASSUME EmailInv, RankInv, NEW r \in Requests
    PROVE  _user(r) \/ get_for_user(r) \/ save_preferences(r) \/ impersonate(r) => RankInv'
<1> DEFINE x == req[r]
<1>0. x \in Call /\ Sound(r, x)
  BY Zenon DEF EmailInv, Types, RankInv
<1>1. ASSUME NEW t \in Call, Put(r, t), Same(t, x), x.kind \in Saving, Active(x), Reads,
             t.pc \in {"free", "known", "written"}, Saves(t)
      PROVE  RankInv'
  <2>1. StartsBare(t)
    BY ZenonT(60), <1>0, <1>1 DEF Sound, StartsBare, Same, Active, Saving
  <2>2. Changes(t) /\ Closes(t) /\ Demotes(t) /\ GivesTo(r, t) /\ Renames(t) /\ Deletes(t) /\ Registers(r, t)
    BY <1>1 DEF Same, Changes, Closes, Demotes, GivesTo, Renames, Deletes, Registers, Takes, Adds, Creates, Saving
  <2> QED  BY Zenon, <1>1, <2>1, <2>2, GoesOn DEF Same, Adds, Saving
<1>2. ASSUME NEW pc \in {"free", "written"}
      PROVE  LET t == [x EXCEPT !.pc = pc] IN t \in Call /\ Same(t, x) /\ t.pc = pc /\ t.user = x.user
  <2> HIDE DEF x
  <2> QED  BY SMTT(60), <1>0, SetsPc, Labels
<1>3. ASSUME _user(r) PROVE RankInv'
  <2> DEFINE t == [x EXCEPT !.pc = "free"]
  <2>1. x.kind = "update_features" /\ x.pc = "named" /\ Reads /\ (Refuse(r) \/ Put(r, t))
    BY <1>3 DEF _user, At
  <2>2. t \in Call /\ Same(t, x) /\ t.pc = "free" /\ t.user = x.user
    BY Zenon, <1>2
  <2> HIDE DEF t
  <2>3. Saves(t)
    BY Zenon, <1>0, <2>1, <2>2 DEF Sound, Saves, Same, Active
  <2> QED  BY <1>1, <2>1, <2>2, <2>3, RefusesRank DEF Active, Saving
<1>4. ASSUME get_for_user(r) PROVE RankInv'
  <2> DEFINE u == IF x.kind = "update_features" THEN x.user ELSE x.actor
             t == [x EXCEPT !.pc = "known", !.user = u]
  <2>1. x.kind \in Saving /\ x.pc \in {"named", "free"} /\ Reads /\ Put(r, t)
    BY Zenon, <1>4 DEF get_for_user, At, Saving
  <2>2. u \in UserIds
    BY <1>0, <2>1 DEF Sound, Saves, Acts, Active, Routes, Settings, Saving
  <2>3. t \in Call /\ Same(t, x) /\ t.pc = "known" /\ t.user = u
    <3> HIDE DEF x, u
    <3> QED  BY Zenon, <1>0, <2>2, Labels DEF Call, Same
  <2> HIDE DEF t
  <2>4. Saves(t)
    BY Zenon, <2>2, <2>3 DEF Saves
  <2> QED  BY <1>1, <2>1, <2>3, <2>4 DEF Active
<1>5. ASSUME save_preferences(r) PROVE RankInv'
  <2> DEFINE t == [x EXCEPT !.pc = "written"]
  <2>1. x.kind \in Saving /\ x.pc = "known" /\ Reads /\ (Refuse(r) \/ Put(r, t))
    BY <1>5 DEF save_preferences, At
  <2>2. t \in Call /\ Same(t, x) /\ t.pc = "written" /\ t.user = x.user
    BY ZenonT(60), <1>2
  <2> HIDE DEF t
  <2>3. Saves(t)
    BY <1>0, <2>1, <2>2 DEF Sound, Saves, Same, Active, Decided
  <2> QED  BY <1>1, <2>1, <2>2, <2>3, RefusesRank DEF Active
<1>6. ASSUME impersonate(r) PROVE RankInv'
  <2>1. x.kind = "impersonate" /\ x.pc = "named" /\ users' = users /\ roles' = roles /\ member' = member
    BY Zenon, <1>6 DEF impersonate, At
  <2>2. CASE Refuse(r) /\ UNCHANGED tokens
    BY ZenonT(60), <2>1, <2>2, RefusesRank DEF Reads
  <2>3. CASE ~(Refuse(r) /\ UNCHANGED tokens)
    <3> DEFINE t == [Idle EXCEPT !.pc = "done", !.ok = TRUE, !.kind = x.kind, !.before = x.before]
    <3>1. tokens' = tokens \cup {<<x.actor, x.user>>} /\ Put(r, t) /\ Found(x.user)
      BY Zenon, <1>6, <2>3 DEF impersonate, Finish
    <3>2. x.actor \in UserIds /\ x.user \in UserIds
      BY <1>0, <2>1, <3>1 DEF Sound, Acts, Active, Routes, Permission, Found, Call
    <3>3. tokens' \in SUBSET (UserIds \X UserIds)
      BY <3>1, <3>2 DEF RankInv
    <3>4. t \in Call /\ t.pc = "done" /\ t.kind = x.kind /\ t.by = Nobody /\ t.before = x.before
      <4> HIDE DEF x
      <4>1. t \in Call /\ t.pc = "done"
        BY Zenon, <1>0, FinishedTyped
      <4>2. t.kind = x.kind /\ t.by = Nobody /\ t.before = x.before
        BY Zenon DEF Idle
      <4> QED  BY <4>1, <4>2
    <3> HIDE DEF t
    <3>5. StartsBare(t) /\ Past(t) /\ Lent(t) /\ Acts(t)
      BY ZenonT(60), <1>0, <3>4 DEF Sound, StartsBare, Past, Lent, Acts, Active
    <3>6. /\ Renames(t) /\ Deletes(t) /\ Demotes(t) /\ Closes(t) /\ GivesTo(r, t) /\ Changes(t) /\ Saves(t)
          /\ Registers(r, t)
      BY <2>1, <3>4 DEF Renames, Deletes, Demotes, Closes, GivesTo, Changes, Saves, Registers, Adds, Creates, Takes
    <3>7. Sound(r, t)
      BY Zenon, <3>5, <3>6 DEF Sound
    <3> QED  BY <2>1, <3>1, <3>3, <3>4, <3>7, QuietRank
  <2> QED  BY Zenon, <2>2, <2>3
<1> QED  BY Zenon, <1>3, <1>4, <1>5, <1>6

\* A call that comes in: it is nowhere yet.
LEMMA ComesIn ==
    ASSUME EmailInv, RankInv, NEW r \in Requests, req[r].pc = "idle", Reads, NEW t \in Call, Put(r, t), Fresh(t),
           t.pc \in {"admitted", "named", "free", "known"}, StartsBare(t), Lent(t), Acts(t), GivesTo(r, t), Changes(t), Saves(t),
           t.kind = "delete_role" => t.role \in RoleIds, t.kind \in {"create_role", "update_role"} => t.name \in Names,
           t.pc # "known" \/ t.kind \in {"seed", "demo_seed"}, t.pc = "named" => t.kind # "register"
    PROVE  RankInv'
<1>1. Past(t)
  BY ZenonT(60) DEF Past, Fresh
<1>2. Renames(t) /\ Deletes(t) /\ Demotes(t) /\ Closes(t) /\ Registers(r, t)
  BY DEF Renames, Deletes, Demotes, Closes, Registers, Takes, Decided, Fresh
<1>3. Sound(r, t) /\ tokens' \in SUBSET (UserIds \X UserIds)
  BY Zenon, <1>1, <1>2 DEF Sound, RankInv, Reads
<1> QED  BY Zenon, <1>3, QuietRank DEF Reads

\* A route, called by an account that is there, or a command.
LEMMA EntersRank ==
    ASSUME EmailInv, RankInv, NEW r \in Requests, NEW kind, NEW actor \in UserIds, NEW by \in UserIds \cup {Nobody},
           users[actor].open, Enter(r, kind, actor, by)
    PROVE  RankInv'
<1>1. req[r].pc = "idle" /\ Reads /\ kind \in Kinds /\ kind \in Routes
  BY Zenon DEF Enter
<1>2. CASE Refuse(r)
  BY ZenonT(60), <1>1, <1>2, RefusesRank
<1>3. CASE ~Refuse(r)
  <2> DEFINE pc == IF kind \in {"add_member", "remove_member"} THEN "admitted" ELSE "named"
             super == is_superuser(RolesOf(actor))
  <2>1. PICK call \in Inputs(kind) : Put(r, [call EXCEPT !.pc = pc, !.actor = actor, !.by = by, !.super = super])
    BY ZenonT(60), <1>3 DEF Enter
  <2>2. call \in Call /\ call.kind = kind /\ Fresh(call) /\ (kind = "update" => call.email \in Emails)
                      /\ (kind = "update_features" => call.user \in UserIds)
                      /\ (kind = "delete_role" => call.role \in RoleIds)
                      /\ (kind \in {"create_role", "update_role"} => call.name \in Names)
    BY <1>1, InputsTyped
  <2>3. pc \in {"admitted", "named"} /\ pc \in Pcs /\ super \in BOOLEAN
    BY DEF Pcs, is_superuser
  <2>4. by # Nobody => ~Blocked(kind)
    BY ZenonT(60), <1>3 DEF Enter
  <2>5. by # Nobody => kind = "update_preferences"
    BY <1>1, <2>4 DEF Blocked, Routes, Profile, Settings, Permission, BLOCKED_WHILE_IMPERSONATING
  <2> HIDE DEF pc, super
  <2> DEFINE t == [call EXCEPT !.pc = pc, !.actor = actor, !.by = by, !.super = super]
  <2>6. /\ t \in Call /\ t.pc = pc /\ t.kind = kind /\ t.actor = actor /\ t.by = by
        /\ t.email = call.email /\ t.user = call.user /\ t.role = call.role /\ t.name = call.name /\ t.ok = call.ok /\ t.before = call.before
    <3>1. t \in Call
      BY ZenonT(60), <2>2, <2>3 DEF Call
    <3>2. /\ t.pc = pc /\ t.kind = kind /\ t.actor = actor /\ t.by = by
          /\ t.email = call.email /\ t.user = call.user /\ t.role = call.role /\ t.name = call.name
          /\ t.ok = call.ok /\ t.before = call.before
      BY <2>2 DEF Call
    <3> QED  BY Zenon, <3>1, <3>2
  <2>7. Put(r, t)
    BY <2>1
  <2>8. Born(actor) /\ ~Bare
    BY DEF RankInv, Bare
  <2> HIDE DEF t
  <2>9. StartsBare(t) /\ Lent(t) /\ Acts(t) /\ Fresh(t)
    BY Zenon, <2>2, <2>5, <2>6, <2>8 DEF StartsBare, Lent, Acts, Fresh
  <2>10. Changes(t) /\ Saves(t) /\ GivesTo(r, t) /\ kind # "register"
    BY Zenon, <1>1, <2>2, <2>3, <2>6
       DEF Changes, Saves, GivesTo, Decided, Adds, Creates, Routes, Profile, Settings, Permission
  <2> QED  BY <1>1, <2>2, <2>3, <2>6, <2>7, <2>9, <2>10, ComesIn
<1> QED  BY <1>2, <1>3

\* Every way a call begins.
LEMMA ArrivalsRank ==
    ASSUME EmailInv, RankInv, NEW r \in Requests
    PROVE  /\ \A kind : Admit(r, kind) \/ Borrow(r, kind) => RankInv'
           /\ \A kind : seed(r, kind) => RankInv'
           /\ \A kind \in {"register", "create_superuser"} : EmailFree(r, kind) => RankInv'
           /\ grant_role(r) \/ seed_write(r) => RankInv'
<1>0. r \in UserIds
  BY Zenon DEF UserIds
<1>1. ASSUME NEW kind, Admit(r, kind) PROVE RankInv'
  <2>1. PICK actor \in UserIds : users[actor].open /\ Enter(r, kind, actor, Nobody)
    BY Zenon, <1>1 DEF Admit
  <2> QED  BY Zenon, <2>1, EntersRank
<1>2. ASSUME NEW kind, Borrow(r, kind) PROVE RankInv'
  <2>1. PICK t \in tokens : users[t[2]].open /\ Enter(r, kind, t[2], t[1])
    BY Zenon, <1>2 DEF Borrow
  <2>2. t[1] \in UserIds \cup {Nobody} /\ t[2] \in UserIds
    BY DEF EmailInv, Types
  <2> QED  BY Zenon, <2>1, <2>2, EntersRank
<1>3. ASSUME NEW kind, seed(r, kind) PROVE RankInv'
  <2>1. req[r].pc = "idle" /\ Reads /\ kind \in Kinds /\ kind \in {"seed", "demo_seed"}
    BY Zenon, <1>3 DEF seed
  <2>2. CASE Refuse(r)
    BY ZenonT(60), <2>1, <2>2, RefusesRank
  <2>3. CASE ~Refuse(r)
    <3> DEFINE x == Opened(kind)
    <3>1. PICK e \in Emails : Put(r, [x EXCEPT !.pc = "known", !.user = r, !.email = IF kind = "seed" THEN "none" ELSE e,
                                               !.name = "superadmin"])
      BY Zenon, <1>3, <2>3 DEF seed
    <3> DEFINE f == IF kind = "seed" THEN "none" ELSE e
               t == [x EXCEPT !.pc = "known", !.user = r, !.email = f, !.name = "superadmin"]
    <3>2. x \in Call /\ x.kind = kind /\ x.by = Nobody /\ Fresh(x) /\ f \in Emails \cup {"none"}
      BY <2>1, OpenedTyped
    <3>3. f \in Emails \/ kind = "seed"
      OBVIOUS
    <3>4. /\ t \in Call /\ t.pc = "known" /\ t.kind = kind /\ t.user = r /\ t.email = f /\ t.by = x.by
          /\ t.ok = x.ok /\ t.before = x.before
      <4>1. "known" \in Pcs /\ "superadmin" \in Names
        BY DEF Pcs, Names, BUILT_IN
      <4> HIDE DEF x, f
      <4> QED  BY Zenon, <1>0, <3>2, <4>1 DEF Call
    <3>5. Put(r, t)
      BY Zenon, <3>1
    <3> HIDE DEF t, x, f
    <3>6. StartsBare(t) /\ Lent(t) /\ Acts(t) /\ Fresh(t)
      BY ZenonT(60), <2>1, <3>2, <3>4 DEF StartsBare, Lent, Acts, Fresh, Routes, Profile, Settings, Permission
    <3>7. Changes(t) /\ Saves(t) /\ GivesTo(r, t)
      BY <2>1, <3>3, <3>4 DEF Changes, Saves, GivesTo, Adds, Creates
    <3> QED  BY <2>1, <3>4, <3>5, <3>6, <3>7, ComesIn
  <2> QED  BY <2>2, <2>3
<1>4. ASSUME NEW kind \in {"register", "create_superuser"}, EmailFree(r, kind) PROVE RankInv'
  <2>1. req[r].pc = "idle" /\ Reads /\ kind \in Kinds
    BY <1>4 DEF EmailFree
  <2>2. CASE Refuse(r)
    BY ZenonT(60), <2>1, <2>2, RefusesRank
  <2>3. CASE ~Refuse(r)
    <3> DEFINE x == Opened(kind)
    <3>1. PICK e \in Emails : Put(r, [x EXCEPT !.pc = "free", !.email = e, !.user = r])
      BY Zenon, <1>4, <2>3 DEF EmailFree
    <3> DEFINE t == [x EXCEPT !.pc = "free", !.email = e, !.user = r]
    <3>2. x \in Call /\ x.kind = kind /\ x.by = Nobody /\ Fresh(x)
      BY <2>1, OpenedTyped
    <3>3. /\ t \in Call /\ t.pc = "free" /\ t.kind = kind /\ t.user = r /\ t.email = e /\ t.by = x.by
          /\ t.ok = x.ok /\ t.before = x.before
      <4> HIDE DEF x
      <4> QED  BY Zenon, <1>0, <3>2, Labels DEF Call
    <3>4. Put(r, t)
      BY Zenon, <3>1
    <3> HIDE DEF t, x
    <3>5. StartsBare(t) /\ Lent(t) /\ Acts(t) /\ Fresh(t)
      BY Zenon, <3>2, <3>3 DEF StartsBare, Lent, Acts, Fresh, Routes, Profile, Settings, Permission, Decided
    <3>6. Changes(t) /\ Saves(t) /\ GivesTo(r, t)
      BY ZenonT(60), <3>3 DEF Changes, Saves, GivesTo, Adds, Creates, Decided
    <3> QED  BY <2>1, <3>3, <3>4, <3>5, <3>6, ComesIn
  <2> QED  BY <2>2, <2>3
<1>5. ASSUME grant_role(r) PROVE RankInv'
  <2>1. req[r].pc = "idle" /\ Reads /\ "grant_role" \in Kinds
    BY <1>5 DEF grant_role
  <2>2. PICK call \in Inputs("grant_role") : Put(r, [call EXCEPT !.pc = "named"])
    BY Zenon, <1>5 DEF grant_role
  <2> DEFINE t == [call EXCEPT !.pc = "named"]
  <2>3. call \in Call /\ call.kind = "grant_role" /\ call.by = Nobody /\ Fresh(call)
    BY <2>1, InputsTyped
  <2>4. t \in Call /\ t.pc = "named" /\ Same(t, call)
    BY <2>3, SetsPc, Labels
  <2>5. Put(r, t)
    BY Zenon, <2>2
  <2> HIDE DEF t
  <2>6. StartsBare(t) /\ Lent(t) /\ Acts(t) /\ Fresh(t)
    BY Zenon, <2>3, <2>4 DEF StartsBare, Lent, Acts, Fresh, Routes, Profile, Settings, Permission, Decided, Same
  <2>7. Changes(t) /\ Saves(t) /\ GivesTo(r, t)
    BY ZenonT(60), <2>3, <2>4 DEF Changes, Saves, GivesTo, Adds, Creates, Decided, Same
  <2> QED  BY <2>1, <2>3, <2>4, <2>5, <2>6, <2>7, ComesIn DEF Same
<1>6. ASSUME seed_write(r) PROVE RankInv'
  <2> DEFINE x == req[r]
             t == [x EXCEPT !.pc = "written"]
  <2>1. x.kind \in {"seed", "demo_seed"} /\ x.pc = "known" /\ Reads /\ (Refuse(r) \/ Put(r, t))
    BY Zenon, <1>6 DEF seed_write, At
  <2>2. x \in Call /\ Sound(r, x)
    BY DEF EmailInv, Types, RankInv
  <2>3. t \in Call /\ Same(t, x) /\ t.pc = "written" /\ t.user = x.user
    <3> HIDE DEF x
    <3> QED  BY <2>2, SetsPc, Labels
  <2> HIDE DEF t
  <2>4. StartsBare(t) /\ GivesTo(r, t)
    BY Zenon, <2>1, <2>2, <2>3 DEF Sound, StartsBare, GivesTo, Same, Adds, Creates, Active
  <2>5. Renames(t) /\ Deletes(t) /\ Demotes(t) /\ Closes(t) /\ Changes(t) /\ Saves(t) /\ Registers(r, t)
    BY Zenon, <2>1, <2>3 DEF Same, Renames, Deletes, Demotes, Closes, Changes, Saves, Registers, Takes
  <2> QED  BY <2>1, <2>3, <2>4, <2>5, GoesOn, RefusesRank DEF Same, Adds, Active
<1> QED  BY <1>1, <1>2, <1>3, <1>4, <1>5, <1>6

-----------------------------------------------------------------------------
(* The commit.                                                             *)

\* What a commit does to the roles: the administrators' stays the only one of
\* its name, or is there for the first time.
LEMMA CommitRoles ==
    ASSUME EmailInv, RankInv, NEW r \in Requests, Commit(r)
    PROVE  /\ Seeded' /\ ~Bare'
           /\ Named("superadmin") # {} => Named("superadmin")' = Named("superadmin")
<1> DEFINE x == req[r]
<1>1. x.pc = "written" /\ roles' = RolesAfter(r) /\ Sound(r, x) /\ roles \in [RoleIds -> [name : Names \cup {"none"}, grants : Powers \cup {BASE_ROLES.user}]]
  BY DEF Commit, RankInv, EmailInv, Types
<1>2. "superadmin" \in RoleIds /\ "superadmin" \in BUILT_IN
  BY Zenon DEF RoleIds, Names, BUILT_IN
<1>3. Seeded'
  <2>1. CASE Bare
    <3>1. x.kind \in {"seed", "demo_seed"} /\ \A ro \in RoleIds : ~Exists(ro)
      BY Zenon, <1>1, <2>1 DEF Sound, StartsBare, Active, Decided, Bare
    <3>2. roles' = SeededRoles
      BY <1>1, <3>1 DEF RolesAfter
    <3>3. \A ro \in RoleIds : SeededRoles[ro].name = "superadmin" <=> ro = "superadmin"
      BY Zenon, <1>2 DEF SeededRoles, NoRole, BUILT_IN
    <3> QED  BY <3>2, <3>3 DEF Seeded
  <2>2. CASE Seeded
    <3>1. CASE x.kind \in {"create_role", "update_role"}
      <4>1. roles' = [roles EXCEPT ![x.role] = [name |-> x.name, grants |-> x.grants]]
        BY <1>1, <3>1 DEF RolesAfter
      <4>2. x.name # "superadmin" /\ x.role # "superadmin"
        BY Zenon, <1>1, <3>1 DEF Sound, Renames, Decided
      <4> HIDE DEF x
      <4> QED  BY <1>1, <2>2, <4>1, <4>2 DEF Seeded
    <3>2. CASE x.kind = "delete_role"
      <4>1. roles' = [roles EXCEPT ![x.role] = NoRole]
        BY ZenonT(60), <1>1, <3>2 DEF RolesAfter
      <4>2. x.role # "superadmin"
        BY <1>1, <3>2 DEF Sound, Deletes, Decided
      <4> HIDE DEF x
      <4> QED  BY <1>1, <2>2, <4>1, <4>2 DEF Seeded, NoRole
    <3>3. CASE x.kind \notin {"create_role", "update_role", "delete_role"}
      <4>1. \E ro \in RoleIds : Exists(ro)
        BY <1>2, <2>2 DEF Seeded, Exists
      <4>2. roles' = roles
        BY Zenon, <1>1, <3>3, <4>1 DEF RolesAfter
      <4> QED  BY <2>2, <4>2 DEF Seeded
    <3> QED  BY ZenonT(60), <3>1, <3>2, <3>3
  <2> QED  BY Zenon, <2>1, <2>2 DEF RankInv
<1>4. ~Bare'
  BY <1>2, <1>3 DEF Bare, Seeded, Exists
<1>5. Named("superadmin") # {} => Named("superadmin")' = Named("superadmin")
  <2>1. Named("superadmin") # {} => Seeded
    BY Zenon DEF RankInv, Bare, Exists, Named
  <2> QED  BY Zenon, <1>3, <2>1 DEF Named, Seeded
<1> QED  BY Zenon, <1>3, <1>4, <1>5

\* To the accounts: a new one is the request's own, and none goes away.
LEMMA CommitUsers ==
    ASSUME EmailInv, RankInv, NEW r \in Requests, Commit(r)
    PROVE  /\ \A u \in UserIds : Born(u) => Born(u)'
           /\ \A u \in UserIds \ {r} : (Born(u)' => Born(u)) /\ (users'[u].open => users[u].open)
           /\ \A u \in UserIds : users'[u].open => Born(u)'
           /\ req[r].kind \in Creates => Born(r)'
           /\ \A u \in UserIds : users[u].open /\ ~users'[u].open =>
                req[r].kind \in {"deactivate", "remove"} /\ req[r].user = u
<1> DEFINE x == req[r]
<1>1. x.pc = "written" /\ users' = UsersAfter(r) /\ Sound(r, x) /\ r \in UserIds
  BY Zenon DEF Commit, RankInv, UserIds
<1>2. \A u \in UserIds : users[u].open => Born(u)
  BY Zenon DEF RankInv
<1>3. CASE x.kind \in Creates
  <2>1. x.email # "none"
    BY Zenon, <1>1, <1>3, EmailsAssumption DEF Sound, GivesTo, Active
  <2>2. users' = [users EXCEPT ![r] = [email |-> x.email, open |-> TRUE]]
    BY SMTT(60), <1>1, <1>3 DEF UsersAfter, Creates
  <2>3. users'[r].email = x.email /\ users'[r].open = TRUE /\ \A u \in UserIds \ {r} : users'[u] = users[u]
    BY SMTT(60), <1>1, <2>2 DEF EmailInv, Types
  <2> QED  BY Zenon, <1>1, <1>2, <1>3, <2>1, <2>3 DEF Born, Creates
<1>4. CASE x.kind = "update"
  <2>1. x.email # "none" /\ x.user \in UserIds /\ Born(x.user)
    BY Zenon, <1>1, <1>4, EmailsAssumption DEF Sound, Changes, Active, Decided
  <2>2. /\ users'[x.user].email = x.email
        /\ users'[x.user].open = users[x.user].open
        /\ \A u \in UserIds \ {x.user} : users'[u] = users[u]
    BY ZenonT(60), <1>1, <1>4, <2>1, CommitUpdates
  <2> QED  BY <1>2, <1>4, <2>1, <2>2 DEF Born, Creates
<1>5. CASE x.kind \in {"deactivate", "remove"}
  <2> DEFINE w == x.user
             a == users[w]
             t == [a EXCEPT !.open = FALSE]
  <2>1. users' = [users EXCEPT ![w] = t]
    BY <1>1, <1>5 DEF UsersAfter
  <2>2. w \in UserIds => t.email = a.email /\ t.open = FALSE
    <3>1. w \in UserIds => a \in [email : Emails \cup {"none"}, open : BOOLEAN]
      BY Zenon DEF EmailInv, Types
    <3> HIDE DEF a, w
    <3> QED  BY Zenon, <3>1
  <2> HIDE DEF t
  <2>3. \A u \in UserIds : IF u = w THEN users'[u] = t ELSE users'[u] = users[u]
    BY Zenon, <2>1 DEF EmailInv, Types
  <2> QED  BY <1>2, <1>5, <2>2, <2>3 DEF Born, Creates
<1>6. CASE x.kind \notin Creates \cup {"update", "deactivate", "remove"}
  <2>1. users' = users
    BY <1>1, <1>6 DEF UsersAfter, Creates
  <2> QED  BY Zenon, <1>2, <1>6, <2>1 DEF Born
<1> QED  BY Zenon, <1>3, <1>4, <1>5, <1>6

\* To the memberships: a new one is the request's, and for its account.
LEMMA CommitMembers ==
    ASSUME EmailInv, RankInv, NEW r \in Requests, Commit(r)
    PROVE  /\ member' \in [UserIds -> [RoleIds -> Makers \cup {Nobody}]]
           /\ \A u \in UserIds, ro \in RoleIds :
                \/ member'[u][ro] = member[u][ro]
                \/ member'[u][ro] = r /\ req[r].kind \in Gives /\ u = req[r].user
                   /\ (req[r].kind # "demo_seed" => ro = req[r].role)
                \/ member'[u][ro] = Nobody /\ req[r].kind \in Takes /\ u = req[r].user /\ ro = req[r].role
                \/ member'[u][ro] = Nobody /\ req[r].kind = "delete_role" /\ ro = req[r].role
           /\ req[r].kind = "register" /\ req[r].role \in RoleIds => member'[r][req[r].role] = r
<1> DEFINE x == req[r]
           M == [RoleIds -> Makers \cup {Nobody}]
           Step1(u, ro) ==
                \/ member'[u][ro] = member[u][ro]
                \/ member'[u][ro] = r /\ x.kind \in Gives /\ u = x.user
                   /\ (x.kind # "demo_seed" => ro = x.role)
                \/ member'[u][ro] = Nobody /\ x.kind \in Takes /\ u = x.user /\ ro = x.role
                \/ member'[u][ro] = Nobody /\ x.kind = "delete_role" /\ ro = x.role
<1>1. x.pc = "written" /\ member' = MembersAfter(r) /\ Sound(r, x) /\ member \in [UserIds -> M] /\ r \in UserIds
  BY Zenon DEF Commit, RankInv, UserIds
<1>2. r \in Makers /\ r \in Makers \cup {Nobody} /\ Nobody \in Makers \cup {Nobody}
  BY DEF Makers
<1>3. CASE x.kind \in Gives
  <2>0. PICK ro : /\ member' = [member EXCEPT ![x.user][ro] = r]
                  /\ x.kind # "demo_seed" => ro = x.role
    <3> DEFINE role == IF x.kind = "demo_seed" THEN CHOOSE ro \in RoleIds : RolesAfter(r)[ro].name = "superadmin"
                                              ELSE x.role
    <3>0. x.kind \notin Takes /\ x.kind # "delete_role"
      BY Zenon, <1>3 DEF Gives, Takes
    <3>1. MembersAfter(r) = [member EXCEPT ![x.user][role] = r]
      BY Zenon, <1>3, <3>0 DEF MembersAfter
    <3>2. x.kind # "demo_seed" => role = x.role
      OBVIOUS
    <3> HIDE DEF role, x
    <3> QED  BY Zenon, <1>1, <3>1, <3>2
  <2>1. member' = [member EXCEPT ![x.user] = [member[x.user] EXCEPT ![ro] = r]]
    BY Zenon, <2>0
  <2>2. x.user \in UserIds => [member[x.user] EXCEPT ![ro] = r] \in M
    BY Zenon, <1>1, <1>2
  <2>3. member' \in [UserIds -> M]
    <3> HIDE DEF x, M
    <3> QED  BY Zenon, <1>1, <2>1, <2>2
  <2>4. \A u \in UserIds, o \in RoleIds : member'[u][o] = IF u = x.user /\ o = ro THEN r ELSE member[u][o]
    BY SMTT(60), <1>1, <2>1
  <2>5. \A u \in UserIds, o \in RoleIds : Step1(u, o)
    BY <1>3, <2>0, <2>4
  <2>6. x.kind = "register" => x.user = r
    BY Zenon, <1>1 DEF Sound, GivesTo, Creates, Active
  <2> QED  BY Zenon, <1>1, <2>0, <2>3, <2>4, <2>5, <2>6
<1>4. CASE x.kind \in Takes
  <2>1. member' = [member EXCEPT ![x.user] = [member[x.user] EXCEPT ![x.role] = Nobody]]
    BY Zenon, <1>1, <1>4 DEF MembersAfter, Takes, Gives
  <2>2. x.user \in UserIds => [member[x.user] EXCEPT ![x.role] = Nobody] \in M
    BY Zenon, <1>1, <1>2
  <2>3. member' \in [UserIds -> M]
    <3> HIDE DEF x, M
    <3> QED  BY Zenon, <1>1, <2>1, <2>2
  <2>4. \A u \in UserIds, o \in RoleIds : member'[u][o] = IF u = x.user /\ o = x.role THEN Nobody ELSE member[u][o]
    BY SMTT(60), <1>1, <2>1
  <2> QED  BY Zenon, <1>4, <2>3, <2>4 DEF Takes
<1>5. CASE x.kind = "delete_role"
  <2>1. member' = [u \in UserIds |-> [member[u] EXCEPT ![x.role] = Nobody]]
    BY Zenon, <1>1, <1>5 DEF MembersAfter, Takes, Gives
  <2>2. \A u \in UserIds : [member[u] EXCEPT ![x.role] = Nobody] \in M
    BY Zenon, <1>1, <1>2
  <2>3. member' \in [UserIds -> M]
    <3> HIDE DEF x, M
    <3> QED  BY <2>1, <2>2
  <2>4. \A u \in UserIds, o \in RoleIds : member'[u][o] = IF o = x.role THEN Nobody ELSE member[u][o]
    BY <1>1, <2>1
  <2> QED  BY <1>5, <2>3, <2>4
<1>6. CASE x.kind \notin Gives \cup Takes \cup {"delete_role"}
  <2>1. member' = member
    BY Zenon, <1>1, <1>6 DEF MembersAfter
  <2> QED  BY Zenon, <1>1, <1>6, <2>1 DEF Gives
<1> QED  BY Zenon, <1>3, <1>4, <1>5, <1>6

\* A commit ends the call, and changes nothing else of it.
LEMMA FinishFields ==
    ASSUME EmailInv, NEW r \in Requests, Finish(r), req[r].pc # "done"
    PROVE  /\ \A s \in Requests \ {r} : req'[s] = req[s]
           /\ req'[r].pc = "done" /\ req'[r].kind = req[r].kind /\ req'[r].before = req[r].before
           /\ req'[r].by = Nobody /\ req'[r].ok = TRUE
           /\ \A u : Settled(u) => Settled(u)'
<1> DEFINE x == req[r]
           t == [Idle EXCEPT !.pc = "done", !.ok = TRUE, !.kind = x.kind, !.before = x.before]
<1>1. x \in Call
  BY DEF EmailInv, Types
<1>2. t \in Call /\ t.pc = "done" /\ t.kind = x.kind /\ t.before = x.before /\ t.by = Nobody /\ t.ok = TRUE
  <2> HIDE DEF x
  <2>1. t \in Call /\ t.pc = "done"
    BY Zenon, <1>1, FinishedTyped
  <2>2. t.kind = x.kind /\ t.by = Nobody /\ t.before = x.before /\ t.ok = TRUE
    BY Zenon DEF Idle
  <2> QED  BY <2>1, <2>2
<1>3. Put(r, t)
  BY DEF Finish
<1> HIDE DEF t
<1> QED  BY Zenon, <1>2, <1>3, PutIs DEF EmailInv

\* A commit keeps the invariant.
LEMMA CommitRank == ASSUME EmailInv, RankInv, NEW r \in Requests, Commit(r) PROVE RankInv'
<1> DEFINE x == req[r]
<1>1. /\ x.pc = "written" /\ Finish(r) /\ tokens' = tokens /\ Sound(r, x)
      /\ r \in UserIds /\ r # Nobody /\ r # Earlier
  BY Zenon, RequestsAssumption DEF Commit, RankInv, UserIds, Nobody, Earlier
<1>2. /\ \A s \in Requests \ {r} : req'[s] = req[s]
      /\ req'[r].pc = "done" /\ req'[r].kind = x.kind /\ req'[r].before = x.before
      /\ req'[r].by = Nobody /\ req'[r].ok = TRUE
      /\ \A u : Settled(u) => Settled(u)'
  BY Zenon, <1>1, FinishFields
<1>3. Seeded' /\ ~Bare'
  BY CommitRoles
<1>4. /\ \A u \in UserIds : Born(u) => Born(u)'
      /\ \A u \in UserIds \ {r} : (Born(u)' => Born(u)) /\ (users'[u].open => users[u].open)
      /\ \A u \in UserIds : users'[u].open => Born(u)'
      /\ x.kind \in Creates => Born(r)'
  BY CommitUsers
<1>5. /\ member' \in [UserIds -> [RoleIds -> Makers \cup {Nobody}]]
      /\ \A u \in UserIds, ro \in RoleIds :
                \/ member'[u][ro] = member[u][ro]
                \/ member'[u][ro] = r /\ x.kind \in Gives /\ u = x.user
                   /\ (x.kind # "demo_seed" => ro = x.role)
                \/ member'[u][ro] = Nobody /\ x.kind \in Takes /\ u = x.user /\ ro = x.role
                \/ member'[u][ro] = Nobody /\ x.kind = "delete_role" /\ ro = x.role
      /\ x.kind = "register" /\ x.role \in RoleIds => member'[r][x.role] = r
  BY Zenon, CommitMembers
<1>6. /\ x.ok # TRUE /\ \A s \in Requests : r \notin req[s].before
      /\ ~Settled(r) /\ ~Born(r) /\ \A ro \in RoleIds : ~Holds(r, ro)
      /\ Settled(r)'
  <2>1. x.ok # TRUE /\ x.ok \in BOOLEAN
    BY Zenon, <1>1 DEF Sound, Past, EmailInv, Types, Call
  <2>2. \A s \in Requests : Past(req[s])
    BY DEF RankInv, Sound
  <2>3. ~Settled(r) /\ Settled(r)'
    BY <1>1, <1>2 DEF Settled
  <2> QED  BY Zenon, <1>1, <2>1, <2>2, <2>3 DEF RankInv, Past
<1>7. x.kind \in Gives => \/ x.kind \in Creates /\ x.user = r
                          \/ x.kind \in Adds /\ Settled(x.user) /\ ~Holds(x.user, x.role)
  BY Zenon, <1>1 DEF Sound, GivesTo, Gives, Creates, Adds, Active, Decided
<1>8. "superadmin" \in RoleIds
  BY Zenon DEF RoleIds, Names, BUILT_IN
<1>9. \A s \in Requests : req[s].ok => req'[s].ok
  BY Zenon, <1>2
<1>10. ASSUME NEW s \in Requests \ {r}, NEW y, y = req[s]
       PROVE  Sound(s, y)'
  <2>1. Sound(s, y) /\ r \notin y.before /\ s \in UserIds /\ s # Nobody
    BY <1>6, <1>10, RequestsAssumption DEF RankInv, UserIds, Nobody
  <2>2. StartsBare(y)' /\ Lent(y)' /\ Past(y)' /\ Renames(y)' /\ Demotes(y)'
    <3>1. StartsBare(y)'
      BY <1>3 DEF StartsBare
    <3>2. Lent(y)' /\ Renames(y)' /\ Demotes(y)'
      BY Zenon, <2>1 DEF Sound, Lent, Renames, Demotes, Active, Decided
    <3>3. Past(y)'
      <4>1. y.before \subseteq Requests
        BY Zenon, <1>10 DEF EmailInv, Types, Call
      <4> QED  BY Zenon, <1>9, <2>1, <4>1 DEF Sound, Past
    <3> QED  BY <3>1, <3>2, <3>3
  <2>3. Acts(y)' /\ Changes(y)' /\ Saves(y)'
    BY ZenonT(60), <1>4, <2>1 DEF Sound, Acts, Changes, Saves, Active, Decided
  <2>4. ASSUME NEW u \in UserIds, NEW ro \in RoleIds, Holds(u, ro)'
        PROVE  \/ Holds(u, ro) /\ member'[u][ro] = member[u][ro]
               \/ Later(member'[u][ro], y)
    BY <1>1, <1>5, <2>1, <2>4 DEF Holds, Later
  <2>5. Deletes(y)'
    <3> SUFFICES ASSUME y.kind = "delete_role", Decided(y)
                 PROVE  y.role # "superadmin"
                        /\ \A u \in UserIds : (users[u].open /\ Holds(u, y.role) => Later(member[u][y.role], y))'
      BY Zenon, <2>1 DEF Sound, Deletes, Active, Decided
    <3>1. y.role # "superadmin" /\ y.role \in RoleIds /\ \A u \in UserIds : users[u].open /\ Holds(u, y.role) => Later(member[u][y.role], y)
      BY Zenon, <2>1 DEF Sound, Deletes, Active, Decided
    <3>2. ASSUME NEW u \in UserIds, users'[u].open, Holds(u, y.role)'
          PROVE  Later(member'[u][y.role], y)
      <4>1. CASE u = r
        BY Zenon, <1>6, <2>4, <3>1, <3>2, <4>1
      <4>2. CASE u # r
        BY ZenonT(60), <1>4, <2>4, <3>1, <3>2, <4>2
      <4> QED  BY Zenon, <4>1, <4>2
    <3> QED  BY Zenon, <3>1, <3>2 DEF Later
  <2>6. Closes(y)'
    BY <1>8, <2>1, <2>4 DEF Sound, Closes, Decided, Later
  <2>7. GivesTo(s, y)'
    <3>1. ASSUME y.kind \in Adds, y.pc = "written" PROVE ~Holds(y.user, y.role)'
      <4>1. Settled(y.user) /\ y.user \in UserIds /\ y.role \in RoleIds /\ ~Holds(y.user, y.role)
        BY Zenon, <2>1, <3>1 DEF Sound, GivesTo, Decided, Settled
      <4>2. x.kind \in Adds => x.user # y.user \/ x.role # y.role
        BY Zenon, <1>1, <1>10, <3>1 DEF RankInv, Writing, At
      <4>3. x.kind \in Adds => x.kind # "demo_seed"
        BY Zenon DEF Adds
      <4> QED  BY <1>1, <1>5, <1>6, <1>7, <4>1, <4>2, <4>3 DEF Holds
    <3> QED  BY ZenonT(60), <1>2, <2>1, <3>1 DEF Sound, GivesTo, Active, Decided
  <2>8. First(s, y) => First(s, y)'
    BY Zenon, <1>4, <2>1 DEF First
  <2>9. Company(s) => Company(s)'
    BY Zenon, <1>4 DEF Company
  <2>10. ASSUME y.kind = "register", y.ok
         PROVE  IF member'[s]["superadmin"] = s THEN First(s, y)' ELSE Company(s)'
    <3>1. IF member[s]["superadmin"] = s THEN First(s, y) ELSE Company(s)
      BY ZenonT(60), <2>1, <2>10 DEF Sound, Registers
    <3>2. CASE member'[s]["superadmin"] = member[s]["superadmin"]
      BY <2>8, <2>9, <3>1, <3>2
    <3>3. CASE member'[s]["superadmin"] # member[s]["superadmin"] /\ member[s]["superadmin"] # s
      BY ZenonT(60), <1>5, <1>8, <2>1, <2>9, <3>1, <3>3
    <3>4. CASE member'[s]["superadmin"] # member[s]["superadmin"] /\ member[s]["superadmin"] = s
      <4>1. x.kind = "delete_role" => x.role # "superadmin"
        BY Zenon, <1>1 DEF Sound, Deletes, Decided
      <4>2. ~(x.kind \in Gives /\ s = x.user /\ (x.kind # "demo_seed" => x.role = "superadmin"))
        BY ZenonT(60), <1>7, <2>1, <3>4 DEF Holds, Creates, Adds
      <4>3. x.kind \in Takes /\ s = x.user /\ x.role = "superadmin" /\ member'[s]["superadmin"] = Nobody
        BY <1>5, <1>8, <2>1, <3>4, <4>1, <4>2
      <4>4. x.actor # s /\ x.actor \in UserIds /\ Born(x.actor)
        BY Zenon, <1>1, <4>3 DEF Sound, Demotes, Acts, Takes, Active, Routes, Permission
      <4>5. Company(s)
        BY <4>4 DEF Company
      <4> QED  BY <2>1, <2>9, <4>3, <4>5
    <3> QED  BY Zenon, <3>2, <3>3, <3>4
  <2>11. Registers(s, y)'
    BY Zenon, <1>4, <2>1, <2>8, <2>9, <2>10 DEF Sound, Registers, Decided
  <2> QED  BY ZenonT(60), <2>2, <2>3, <2>5, <2>6, <2>7, <2>11 DEF Sound
<1>11. Sound(r, req[r])'
  <2>1. StartsBare(req[r])' /\ Lent(req[r])' /\ Acts(req[r])'
    BY <1>2 DEF StartsBare, Lent, Acts, Active
  <2>2. Past(req[r])'
    <3>1. x.before \subseteq Requests
      BY DEF EmailInv, Types, Call
    <3> QED  BY Zenon, <1>1, <1>2, <1>9, <3>1 DEF Sound, Past
  <2>3. /\ Renames(req[r])' /\ Deletes(req[r])' /\ Demotes(req[r])' /\ Closes(req[r])' /\ GivesTo(r, req[r])'
        /\ Changes(req[r])' /\ Saves(req[r])'
    BY Zenon, <1>2 DEF Renames, Deletes, Demotes, Closes, GivesTo, Changes, Saves, Active, Decided
  <2>4. ASSUME x.kind = "register"
        PROVE  IF member'[r]["superadmin"] = r THEN First(r, req[r])' ELSE Company(r)'
    <3>1. \/ First(r, x) /\ x.role = "superadmin"
          \/ Company(r) /\ x.role # "superadmin"
      BY ZenonT(60), <1>1, <2>4 DEF Sound, Registers, Decided
    <3>2. CASE First(r, x) /\ x.role = "superadmin"
      <4>1. First(r, req[r])'
        BY Zenon, <1>2, <1>4, <3>2 DEF First
      <4> QED  BY <1>5, <1>8, <2>4, <3>2, <4>1
    <3>3. CASE Company(r) /\ x.role # "superadmin"
      <4>1. Company(r)'
        BY Zenon, <1>4, <3>3 DEF Company
      <4>2. member[r]["superadmin"] = Nobody
        BY Zenon, <1>6, <1>8 DEF Holds
      <4>3. member'[r]["superadmin"] = Nobody
        BY Zenon, <1>1, <1>5, <1>8, <2>4, <3>3, <4>2
      <4> QED  BY Zenon, <1>1, <4>1, <4>3
    <3> QED  BY <3>1, <3>2, <3>3
  <2>5. Registers(r, req[r])'
    BY Zenon, <1>2, <1>4, <2>4 DEF Registers, Creates
  <2> QED  BY ZenonT(60), <2>1, <2>2, <2>3, <2>5 DEF Sound
<1>12. \A s \in Requests : Sound(s, req[s])'
  BY ZenonT(60), <1>2, <1>10, <1>11
<1>13. ASSUME NEW u \in UserIds, ~Settled(u)' PROVE ~Born(u)' /\ \A ro \in RoleIds : ~Holds(u, ro)'
  <2>1. u # r /\ ~Settled(u) /\ ~Born(u) /\ \A ro \in RoleIds : ~Holds(u, ro)
    BY SMTT(60), <1>2, <1>6, <1>13 DEF RankInv
  <2> QED  BY SMTT(60), <1>4, <1>5, <1>7, <2>1 DEF Holds
<1>14. \A p, q \in Writing(Adds)' : p # q => req'[p].user # req'[q].user \/ req'[p].role # req'[q].role
  BY SMTT(60), <1>2 DEF RankInv, Writing, At
<1> QED  BY Zenon, <1>1, <1>3, <1>4, <1>5, <1>12, <1>13, <1>14 DEF RankInv

\* An empty database, or one that was seeded and has its first accounts.
LEMMA RankInit == Init => RankInv
<1> SUFFICES ASSUME Init PROVE RankInv
  OBVIOUS
<1>0. Root \notin Requests /\ Member \notin Requests /\ Root \in UserIds /\ Member \in UserIds /\ Root # Member
      /\ {"superadmin", "user", "staff"} \subseteq RoleIds /\ "superadmin" \in BUILT_IN
  BY RequestsAssumption DEF Root, Member, UserIds, RoleIds, Names, BUILT_IN
<1>1. \A r \in Requests : req[r] = Idle
  BY DEF Init
<1>2. \A r \in Requests : Sound(r, req[r])
  <2> SUFFICES ASSUME NEW r \in Requests, NEW x, x = Idle PROVE Sound(r, x)
    BY <1>1
  <2>1. x.pc = "idle" /\ x.kind = "none" /\ x.by = Nobody /\ x.ok = FALSE /\ x.before = {}
    BY Zenon DEF Idle
  <2>2. StartsBare(x) /\ Past(x) /\ Lent(x) /\ Acts(x)
    BY <2>1 DEF StartsBare, Past, Lent, Acts, Active
  <2>3. Renames(x) /\ Deletes(x) /\ Demotes(x) /\ Closes(x) /\ GivesTo(r, x) /\ Changes(x) /\ Saves(x) /\ Registers(r, x)
    BY Zenon, <2>1 DEF Renames, Deletes, Demotes, Closes, GivesTo, Changes, Saves, Registers, Adds, Creates, Takes
  <2> QED  BY Zenon, <2>2, <2>3 DEF Sound
<1>3. Writing(Adds) = {}
  BY <1>1 DEF Writing, At, Idle
<1>4. \A u \in UserIds : ~Settled(u) => u \in Requests
  BY Zenon DEF Settled
<1>5. NoMembers \in [UserIds -> [RoleIds -> Makers \cup {Nobody}]] /\ \A u \in UserIds, ro \in RoleIds : NoMembers[u][ro] = Nobody
  BY DEF NoMembers
<1>6. tokens \in SUBSET (UserIds \X UserIds)
  BY Zenon DEF Init
<1>7. \A ro \in RoleIds : /\ SeededRoles[ro].name = "superadmin" <=> ro = "superadmin"
                          /\ WithStaff[ro].name = "superadmin" <=> ro = "superadmin"
  <2>1. \A ro \in RoleIds : SeededRoles[ro].name = "superadmin" <=> ro = "superadmin"
    BY Zenon, <1>0 DEF SeededRoles, NoRole, BUILT_IN
  <2>2. SeededRoles \in [RoleIds -> [name : Names \cup {"none"}, grants : Powers \cup {BASE_ROLES.user}]]
    BY Zenon, SeededTyped
  <2> QED  BY <2>1, <2>2 DEF WithStaff
<1>8. CASE users = [u \in UserIds |-> NoUser] /\ member = NoMembers /\ roles \in {[ro \in RoleIds |-> NoRole], SeededRoles}
  <2>1. \A u \in UserIds : ~Born(u) /\ users[u].open = FALSE
    BY Zenon, <1>8 DEF Born, NoUser
  <2>2. Seeded \/ Bare
    BY <1>7, <1>8, <2>1 DEF Seeded, Bare, Exists, NoRole
  <2> QED  BY <1>2, <1>3, <1>5, <1>6, <1>8, <2>1, <2>2 DEF RankInv, Holds
<1>9. CASE ~(users = [u \in UserIds |-> NoUser] /\ member = NoMembers /\ roles \in {[ro \in RoleIds |-> NoRole], SeededRoles})
  <2>1. PICK e, f \in Emails, open \in [{Root, Member} -> BOOLEAN] :
            e # f /\ users = [u \in UserIds |-> CASE u = Root -> [email |-> e, open |-> open[u]]
                                                  [] u = Member -> [email |-> f, open |-> open[u]]
                                                  [] OTHER -> NoUser]
    BY Zenon, <1>9 DEF Init
  <2>2. roles \in {SeededRoles, WithStaff}
    BY Zenon, <1>9 DEF Init
  <2>3. PICK ro \in {"staff", "user"} : member = [NoMembers EXCEPT ![Root]["superadmin"] = Earlier, ![Member][ro] = Earlier]
    BY <1>9 DEF Init
  <2>4. \A u \in UserIds : /\ u \in {Root, Member} => Born(u)
                           /\ u \notin {Root, Member} => ~Born(u) /\ users[u].open = FALSE
    BY <1>0, <2>1, EmailsAssumption DEF Born, NoUser
  <2>5. Earlier \in Makers \cup {Nobody}
    BY Zenon DEF Makers
  <2> DEFINE M == [RoleIds -> Makers \cup {Nobody}]
             m1 == [NoMembers[Root] EXCEPT !["superadmin"] = Earlier]
             m2 == [NoMembers[Member] EXCEPT ![ro] = Earlier]
  <2>6. m1 \in M /\ m2 \in M
    BY Zenon, <1>0, <1>5, <2>5
  <2>7. member = [NoMembers EXCEPT ![Root] = m1, ![Member] = m2]
    BY Zenon, <1>0, <1>5, <2>3
  <2>8. member \in [UserIds -> M] /\ \A u \in UserIds \ {Root, Member} : member[u] = NoMembers[u]
    <3> HIDE DEF m1, m2, M
    <3> QED  BY Zenon, <1>0, <1>5, <2>6, <2>7 DEF M
  <2>9. \A u \in UserIds : ~Settled(u) => ~Born(u) /\ \A o \in RoleIds : ~Holds(u, o)
    BY Zenon, <1>0, <1>4, <1>5, <2>4, <2>8 DEF Holds
  <2>10. Seeded
    BY <1>7, <2>2 DEF Seeded
  <2> QED  BY Zenon, <1>2, <1>3, <1>6, <2>4, <2>8, <2>9, <2>10 DEF RankInv
<1> QED  BY <1>8, <1>9

\* One step of the whole.
LEMMA RankStep ==
    ASSUME EmailInv, RankInv, [PrefNext]_allVars
    PROVE  RankInv'
<1>1. CASE UNCHANGED allVars
  <2>1. /\ roles' = roles /\ users' = users /\ member' = member /\ tokens' = tokens /\ req' = req
    BY Zenon, <1>1 DEF allVars
  <2>2. \A u : Settled(u)' <=> Settled(u)
    BY Zenon, <2>1 DEF Settled
  <2>3. Seeded' = Seeded /\ Bare' = Bare
    BY Zenon, <2>1 DEF Seeded, Bare, Exists, Born
  <2>4. ASSUME NEW r \in Requests, NEW x, Sound(r, x) PROVE Sound(r, x)'
    <3>1. StartsBare(x)' /\ Past(x)' /\ Lent(x)' /\ Acts(x)' /\ Renames(x)' /\ Demotes(x)'
      BY Zenon, <2>1, <2>3, <2>4 DEF Sound, StartsBare, Past, Lent, Acts, Renames, Demotes, Active, Decided, Born
    <3>2. Deletes(x)' /\ Closes(x)' /\ Changes(x)' /\ Saves(x)'
      BY Zenon, <2>1, <2>4 DEF Sound, Deletes, Closes, Changes, Saves, Active, Decided, Holds, Later, Born
    <3>3. GivesTo(r, x)' /\ Registers(r, x)'
      BY Zenon, <2>1, <2>2, <2>4 DEF Sound, GivesTo, Registers, Active, Decided, Holds, First, Company, Born
    <3> QED  BY <3>1, <3>2, <3>3 DEF Sound
  <2>5. \A r \in Requests : Sound(r, req[r])'
    BY ZenonT(60), <2>1, <2>4 DEF RankInv
  <2> QED  BY <2>1, <2>2, <2>3, <2>5 DEF RankInv, Writing, At, Born, Holds
<1>2. CASE PrefNext
  <2>1. PICK r \in Requests : Step(r) \/ _user(r) \/ get_for_user(r) \/ save_preferences(r) \/ Commit(r)
    BY <1>2 DEF PrefNext, CommitPreferences
  <2> QED  BY SMTT(60), <2>1, ArrivalsRank, GivingRank, TakingRank, CreatingRank, ClosingRank, NamingRank,
              LendingRank, CommitRank
              DEF Step
<1> QED  BY ZenonT(60), <1>1, <1>2

\* The invariant holds.
LEMMA RankHolds == PrefSpec => [](EmailInv /\ RankInv)
<1>1. PrefInit => EmailInv /\ RankInv
  BY EmailInit, RankInit DEF PrefInit
<1>2. EmailInv /\ RankInv /\ [PrefNext]_allVars => EmailInv' /\ RankInv'
  BY Zenon, EmailStep, RankStep
<1> QED  BY <1>1, <1>2, PTL DEF PrefSpec

-----------------------------------------------------------------------------
(* What follows.                                                           *)

\* Every step is one request's; all but its commit and impersonate only read.
LEMMA StepsOf ==
    ASSUME EmailInv, [PrefNext]_allVars
    PROVE  \/ UNCHANGED vars
           \/ \E r \in Requests :
                /\ \A s \in Requests \ {r} : req'[s] = req[s]
                /\ \/ Reads /\ req[r].pc # "written"
                   \/ impersonate(r)
                   \/ Commit(r)
<1>1. CASE UNCHANGED allVars
  BY Zenon, <1>1 DEF allVars, vars
<1>2. CASE PrefNext
  <2>1. PICK r \in Requests : Step(r) \/ _user(r) \/ get_for_user(r) \/ save_preferences(r) \/ Commit(r)
    BY <1>2 DEF PrefNext, CommitPreferences
  <2> DEFINE Puts == \E t : Put(r, t)
             Quiet == Puts /\ Reads /\ req[r].pc # "written"
  <2>2. ASSUME Refuse(r) PROVE Puts
    BY <2>2 DEF Refuse
  <2>3. ASSUME NEW kind, NEW actor, NEW by, Enter(r, kind, actor, by) PROVE Quiet
    BY ZenonT(60), <2>2, <2>3 DEF Enter
  <2>4. ASSUME NEW kind, Admit(r, kind) \/ Borrow(r, kind) PROVE Quiet
    BY <2>3, <2>4 DEF Admit, Borrow
  <2>5. ASSUME NEW kind, seed(r, kind) \/ EmailFree(r, kind) PROVE Quiet
    BY Zenon, <2>2, <2>5 DEF seed, EmailFree
  <2>6. ASSUME \/ _role_by_id(r) \/ grant_role(r) \/ add_role(r) \/ add_role_insert(r) \/ remove_role(r)
               \/ register(r) \/ create_superuser(r) \/ _role(r) \/ create(r)
        PROVE  Quiet
    BY Zenon, <2>2, <2>6 DEF _role_by_id, grant_role, add_role, add_role_insert, remove_role, register,
       create_superuser, _role, create, At
  <2>7. ASSUME \/ update(r) \/ update_save(r) \/ deactivate(r) \/ remove(r) \/ _close(r)
               \/ create_role(r) \/ update_role(r) \/ write_role(r) \/ delete_role(r) \/ delete_role_row(r) \/ seed_write(r)
        PROVE  Quiet
    BY Zenon, <2>2, <2>7 DEF update, update_save, deactivate, remove, _close, create_role, update_role,
       write_role, delete_role,
                      delete_role_row, seed_write, At
  <2>8. ASSUME _user(r) \/ get_for_user(r) \/ save_preferences(r) PROVE Quiet
    BY <2>2, <2>8 DEF _user, get_for_user, save_preferences, At
  <2>9. ASSUME impersonate(r) \/ Commit(r) PROVE Puts
    BY <2>2, <2>9 DEF impersonate, Commit, Finish
  <2>10. Quiet \/ impersonate(r) \/ Commit(r)
    BY Zenon, <2>1, <2>4, <2>5, <2>6, <2>7, <2>8 DEF Step
  <2>11. Puts
    BY Zenon, <2>9, <2>10
  <2>12. \A s \in Requests \ {r} : req'[s] = req[s]
    BY <2>11 DEF Put, EmailInv, Types
  <2> QED  BY Zenon, <2>10, <2>12
<1> QED  BY Zenon, <1>1, <1>2

\* Once the roles are seeded there is one role of the administrators, and no
\* rename or delete takes it away, however many of them run at once.
THEOREM AdministratorRoleKept == PrefSpec => AdministratorRoleStands
<1>1. ASSUME EmailInv, RankInv, [PrefNext]_allVars
      PROVE  [Named("superadmin") # {} => Named("superadmin")' = Named("superadmin")]_vars
  <2>1. ASSUME roles' = roles PROVE Named("superadmin")' = Named("superadmin")
    BY <2>1 DEF Named
  <2> QED  BY Zenon, <1>1, <2>1, StepsOf, CommitRoles DEF Reads, impersonate
<1> QED  BY <1>1, RankHolds, PTL DEF PrefSpec, AdministratorRoleStands

\* Nobody drops their own superadmin role, by name or by id.
THEOREM OwnRankKept == PrefSpec => NobodyDropsOwnRank
<1>1. ASSUME EmailInv, RankInv, [PrefNext]_allVars
      PROVE  [\A u \in UserIds, ro \in Named("superadmin"), r \in Requests :
                Holds(u, ro) /\ ~Holds(u, ro)' /\ req[r].pc = "written" /\ req'[r].pc = "done" => req[r].actor # u]_vars
  <2>1. CASE UNCHANGED vars
    BY <2>1
  <2>2. ASSUME NEW p \in Requests, \A s \in Requests \ {p} : req'[s] = req[s],
               (Reads /\ req[p].pc # "written") \/ impersonate(p) \/ Commit(p),
               NEW u \in UserIds, NEW ro \in Named("superadmin"), NEW r \in Requests,
               Holds(u, ro), ~Holds(u, ro)', req[r].pc = "written", req'[r].pc = "done"
        PROVE  req[r].actor # u
    <3>1. r = p /\ Commit(r)
      BY ZenonT(60), <2>2 DEF impersonate, At
    <3>2. ro = "superadmin" /\ ro \in RoleIds /\ r # Nobody
      BY <1>1, RequestsAssumption DEF RankInv, Named, Bare, Seeded, Exists, Nobody
    <3>3. \/ req[r].kind \in Takes /\ u = req[r].user /\ ro = req[r].role
          \/ req[r].kind = "delete_role" /\ ro = req[r].role
      BY ZenonT(60), <1>1, <2>2, <3>1, <3>2, CommitMembers DEF Holds
    <3> QED  BY Zenon, <1>1, <2>2, <3>2, <3>3 DEF RankInv, Sound, Deletes, Demotes, Decided
  <2> QED  BY Zenon, <1>1, <2>1, <2>2, StepsOf
<1> QED  BY <1>1, RankHolds, PTL DEF PrefSpec, NobodyDropsOwnRank

\* A session that is lent changes no account, no role and no membership, and
\* lends nothing on.
THEOREM BorrowedIsHarmless == PrefSpec => BorrowedTouchesNothing
<1>1. ASSUME EmailInv, RankInv, [PrefNext]_allVars
      PROVE  [\A r \in Requests : req[r].by # Nobody /\ req'[r] # req[r] => UNCHANGED <<roles, users, member, tokens>>]_vars
  <2>1. CASE UNCHANGED vars
    BY Zenon, <2>1
  <2>2. ASSUME NEW p \in Requests, \A s \in Requests \ {p} : req'[s] = req[s],
               (Reads /\ req[p].pc # "written") \/ impersonate(p) \/ Commit(p),
               NEW r \in Requests, req[r].by # Nobody, req'[r] # req[r]
        PROVE  UNCHANGED <<roles, users, member, tokens>>
    <3>1. r = p /\ req[r].kind = "update_preferences"
      BY Zenon, <1>1, <2>2 DEF RankInv, Sound, Lent
    <3>2. CASE Commit(r)
      BY <3>1, <3>2 DEF Commit, RolesAfter, UsersAfter, MembersAfter, Gives, Takes
    <3> QED  BY <2>2, <3>1, <3>2 DEF Reads, impersonate, At
  <2> QED  BY Zenon, <1>1, <2>1, <2>2, StepsOf
<1> QED  BY <1>1, RankHolds, PTL DEF PrefSpec, BorrowedTouchesNothing

\* A role is deleted from under an open account only if it was given to it
\* while the delete was running.
THEOREM RoleDeletedUnused == PrefSpec => RoleLeavesNobody
<1>1. ASSUME EmailInv, RankInv, [PrefNext]_allVars
      PROVE  [\A u \in UserIds, ro \in RoleIds, r \in Requests :
                /\ users[u].open /\ Holds(u, ro) /\ Exists(ro) /\ ~Exists(ro)'
                /\ req[r].pc = "written" /\ req'[r].pc = "done"
                => ~Precedes(member[u][ro], r)]_vars
  <2>1. CASE UNCHANGED vars
    BY <2>1
  <2>2. ASSUME NEW p \in Requests, \A s \in Requests \ {p} : req'[s] = req[s],
               (Reads /\ req[p].pc # "written") \/ impersonate(p) \/ Commit(p),
               NEW u \in UserIds, NEW ro \in RoleIds, NEW r \in Requests,
               users[u].open, Holds(u, ro), Exists(ro), ~Exists(ro)', req[r].pc = "written", req'[r].pc = "done"
        PROVE  ~Precedes(member[u][ro], r)
    <3>1. r = p /\ Commit(r)
      BY Zenon, <2>2 DEF impersonate, At
    <3>2. req[r].kind = "delete_role" /\ ro = req[r].role
      <4>1. roles' = RolesAfter(r) /\ roles \in [RoleIds -> [name : Names \cup {"none"}, grants : Powers \cup {BASE_ROLES.user}]]
        BY Zenon, <1>1, <3>1 DEF Commit, EmailInv, Types
      <4>2. CASE req[r].kind \in {"create_role", "update_role"}
        <5>1. req[r].name # "none"
          BY Zenon, <1>1, <2>2, <4>2 DEF RankInv, Sound, Renames, Active, Names, BUILT_IN
        <5> QED  BY <2>2, <4>1, <4>2, <5>1 DEF RolesAfter, Exists
      <4>3. CASE req[r].kind = "delete_role"
        BY Zenon, <2>2, <4>1, <4>3 DEF RolesAfter, Exists
      <4>4. CASE req[r].kind \notin {"create_role", "update_role", "delete_role"}
        BY <2>2, <4>1, <4>4 DEF RolesAfter, Exists
      <4> QED  BY Zenon, <4>2, <4>3, <4>4
    <3> QED  BY Zenon, <1>1, <2>2, <3>2 DEF RankInv, Sound, Deletes, Decided, Later, Precedes
  <2> QED  BY ZenonT(60), <1>1, <2>1, <2>2, StepsOf
<1> QED  BY <1>1, RankHolds, PTL DEF PrefSpec, RoleLeavesNobody

\* A superadmin is closed by themselves or by a superadmin, and by anybody
\* else only if they were promoted while the request was running.
THEOREM ClosedByEquals == PrefSpec => ClosedByTheirEquals
<1>1. ASSUME EmailInv, RankInv, [PrefNext]_allVars
      PROVE  [\A u \in UserIds, ro \in Named("superadmin"), r \in Requests :
                /\ users[u].open /\ Holds(u, ro) /\ ~users'[u].open
                /\ req[r].pc = "written" /\ req'[r].pc = "done"
                => req[r].actor = u \/ req[r].super \/ ~Precedes(member[u][ro], r)]_vars
  <2>1. CASE UNCHANGED vars
    BY <2>1 DEF vars
  <2>2. ASSUME NEW p \in Requests, \A s \in Requests \ {p} : req'[s] = req[s],
               (Reads /\ req[p].pc # "written") \/ impersonate(p) \/ Commit(p),
               NEW u \in UserIds, NEW ro \in Named("superadmin"), NEW r \in Requests,
               users[u].open, Holds(u, ro), ~users'[u].open, req[r].pc = "written", req'[r].pc = "done"
        PROVE  req[r].actor = u \/ req[r].super \/ ~Precedes(member[u][ro], r)
    <3>1. r = p /\ Commit(r)
      BY <2>2 DEF impersonate, At
    <3>2. ro = "superadmin"
      BY Zenon, <1>1 DEF RankInv, Named, Bare, Seeded, Exists
    <3>3. req[r].kind \in {"deactivate", "remove"} /\ req[r].user = u
      BY Zenon, <1>1, <2>2, <3>1, CommitUsers
    <3> QED  BY ZenonT(60), <1>1, <2>2, <3>2, <3>3 DEF RankInv, Sound, Closes, Decided, Later, Precedes
  <2> QED  BY ZenonT(60), <1>1, <2>1, <2>2, StepsOf
<1> QED  BY <1>1, RankHolds, PTL DEF PrefSpec, ClosedByTheirEquals

\* The first account to register is the superadmin, the later ones are users;
\* only those created at the same time can share the place.
THEOREM FirstRegisters == PrefSpec => []FirstIsSuperadmin
<1>1. ASSUME EmailInv, RankInv PROVE FirstIsSuperadmin
  <2> SUFFICES ASSUME NEW r \in Requests, req[r].ok, req[r].kind = "register"
               PROVE  IF \E ro \in Named("superadmin") : member[r][ro] = r
                      THEN \A u \in UserIds \ {r} : users[u] # NoUser => u \in Requests /\ ~Precedes(u, r)
                      ELSE \E u \in UserIds \ {r} : users[u] # NoUser
    BY ZenonT(60) DEF FirstIsSuperadmin
  <2>1. ASSUME NEW u \in UserIds PROVE users[u] # NoUser <=> Born(u)
    <3>1. users[u] \in [email : Emails \cup {"none"}, open : BOOLEAN] /\ (users[u].open => Born(u))
      BY <1>1 DEF EmailInv, Types, RankInv
    <3> DEFINE a == users[u]
    <3>2. a.email = "none" /\ a.open = FALSE => a = [email |-> "none", open |-> FALSE]
      <4> HIDE DEF a
      <4> QED  BY Zenon, <3>1 DEF a
    <3> QED  BY SMTT(60), <3>1, <3>2 DEF Born, NoUser
  <2>2. Born(r) /\ r \in UserIds /\ IF member[r]["superadmin"] = r THEN First(r, req[r]) ELSE Company(r)
    BY Zenon, <1>1 DEF RankInv, Sound, Registers, UserIds
  <2>3. Named("superadmin") = {"superadmin"}
    <3>1. Seeded /\ "superadmin" \in RoleIds
      BY Zenon, <1>1, <2>2 DEF RankInv, Bare, RoleIds, Names, BUILT_IN
    <3> QED  BY <3>1 DEF Seeded, Named
  <2>4. \A u \in Requests : u # Earlier
    BY Zenon, RequestsAssumption DEF Earlier
  <2> QED  BY Zenon, <2>1, <2>2, <2>3, <2>4 DEF First, Company, Precedes
<1> QED  BY <1>1, RankHolds, PTL

-----------------------------------------------------------------------------
(* The preferences.                                                        *)

\* A body has the values its fields may have.
Sent == {b \in [Fields -> {"unset", "null", "dark", "none"}] : b["theme"] # "none" /\ b["features"] # "dark"}

PrefsTyped ==
    /\ prefs \in [UserIds -> Row]
    /\ draft \in [Requests -> [sent : Sent, loaded : Row]]

\* The row a new account would have.
LEMMA DraftTyped == Defaults \in Row /\ NoDraft \in [sent : Sent, loaded : Row]
<1>1. Defaults \in Row
  BY Zenon DEF Defaults, Row
<1>2. [f \in Fields |-> "unset"] \in Sent
  BY DEF Sent, Fields
<1> QED  BY <1>1, <1>2 DEF NoDraft

\* The bodies the routes accept.
LEMMA BodiesSent == ASSUME NEW kind, NEW b \in Bodies(kind) PROVE b \in Sent
<1>1. PICK t \in {"unset", "null", "dark"}, f \in {"unset", "null", "none"} : b = [theme |-> t, features |-> f]
  BY Zenon DEF Bodies
<1>2. DOMAIN b = Fields /\ b["theme"] = t /\ b["features"] = f
  BY Zenon, <1>1 DEF Fields
<1>3. b = [g \in Fields |-> b[g]]
  BY Zenon, <1>1, <1>2 DEF Fields
<1> QED  BY Zenon, <1>2, <1>3 DEF Sent, Fields

\* What a commit writes: the columns that were sent, and no other.
LEMMA RowWritten ==
    ASSUME PrefsTyped, NEW r \in Requests, req[r].user \in UserIds
    PROVE  /\ RowAfter(r) \in Row
           /\ \A f \in Fields : RowAfter(r)[f] = IF f \in Columns(r) THEN draft[r].sent[f] ELSE prefs[req[r].user][f]
           /\ Columns(r) \subseteq fields(r)
<1> DEFINE row == prefs[req[r].user]
           Value(f) == CASE f \notin Columns(r) -> row[f]
                         [] f \in Columns(r) \cap fields(r) -> draft[r].sent[f]
                         [] OTHER -> draft[r].loaded[f]
           stored == row.stored \/ Writes(r)
<1>1. row \in Row /\ draft[r].sent \in Sent /\ draft[r].loaded \in Row
  BY Zenon DEF PrefsTyped
<1>2. Columns(r) \subseteq fields(r) /\ fields(r) \subseteq Fields
  BY DEF Columns, fields
<1>3. \A f \in Fields : Value(f) = IF f \in Columns(r) THEN draft[r].sent[f] ELSE row[f]
  BY Zenon, <1>2
<1>4. Value("theme") \in {"system", "dark"}
  <2>1. row["theme"] \in {"system", "dark"}
    BY Zenon, <1>1 DEF Row
  <2>2. "theme" \in fields(r) => draft[r].sent["theme"] = "dark"
    BY Zenon, <1>1 DEF fields, Sent, Fields
  <2> QED  BY Zenon, <1>2, <1>3, <2>1, <2>2 DEF Fields
<1>5. Value("features") \in {"null", "none"}
  <2>1. row["features"] \in {"null", "none"}
    BY Zenon, <1>1 DEF Row
  <2>2. "features" \in fields(r) => draft[r].sent["features"] \in {"null", "none"}
    BY Zenon, <1>1 DEF fields, Sent, Fields
  <2> QED  BY Zenon, <1>2, <1>3, <2>1, <2>2 DEF Fields
<1>6. stored \in BOOLEAN
  OBVIOUS
<1>7. RowAfter(r) = [stored |-> stored, theme |-> Value("theme"), features |-> Value("features")]
  BY Zenon DEF RowAfter
<1> HIDE DEF stored, Value, row
<1>8. RowAfter(r) \in Row /\ RowAfter(r)["theme"] = Value("theme") /\ RowAfter(r)["features"] = Value("features")
  <2> DEFINE a == Value("theme")
             b == Value("features")
             t == [stored |-> stored, theme |-> a, features |-> b]
  <2>1. a \in {"system", "dark"} /\ b \in {"null", "none"}
    BY Zenon, <1>4, <1>5
  <2>2. t["theme"] = a /\ t["features"] = b
    OBVIOUS
  <2>3. t \in Row
    <3> HIDE DEF a, b
    <3> QED  BY Zenon, <1>6, <2>1 DEF Row
  <2> HIDE DEF t, a, b
  <2> QED  BY Zenon, <1>7, <2>2, <2>3 DEF t, a, b
<1> QED  BY Zenon, <1>2, <1>3, <1>8 DEF Fields, row

\* The rows are those of the accounts, and a commit changes the caller's.
LEMMA PrefsStep ==
    ASSUME EmailInv, RankInv, PrefsTyped, [PrefNext]_allVars
    PROVE  /\ PrefsTyped'
           /\ \/ prefs' = prefs
              \/ \E r \in Requests : /\ req[r].pc = "written" /\ req'[r].pc = "done" /\ req[r].user \in UserIds
                                     /\ prefs' = [prefs EXCEPT ![req[r].user] = RowAfter(r)]
<1>1. CASE UNCHANGED allVars
  BY ZenonT(60), <1>1 DEF allVars, PrefsTyped
<1>2. CASE PrefNext
  <2>1. PICK r \in Requests : \/ UNCHANGED prefVars
                              \/ get_for_user(r) \/ save_preferences(r) \/ CommitPreferences(r)
    BY Zenon, <1>2 DEF PrefNext, _user
  <2>2. CASE UNCHANGED prefVars
    BY Zenon, <2>2 DEF prefVars, PrefsTyped
  <2>3. CASE get_for_user(r)
    <3> DEFINE u == IF req[r].kind = "update_features" THEN req[r].user ELSE req[r].actor
    <3>1. PICK b \in Bodies(req[r].kind) : draft' = [draft EXCEPT ![r] = [sent |-> b, loaded |-> prefs[u]]]
      BY Zenon, <2>3 DEF get_for_user
    <3>2. u \in UserIds
      BY Zenon, <2>3 DEF get_for_user, At, RankInv, Sound, Saves, Acts, Active, Routes, Settings
    <3>3. prefs[u] \in Row /\ b \in Sent /\ prefs' = prefs
      BY <2>3, <3>1, <3>2, BodiesSent DEF PrefsTyped, get_for_user
    <3>4. [sent |-> b, loaded |-> prefs[u]] \in [sent : Sent, loaded : Row]
      BY Zenon, <3>3
    <3> HIDE DEF u
    <3> QED  BY Zenon, <3>1, <3>3, <3>4 DEF PrefsTyped
  <2>4. CASE save_preferences(r)
    BY Zenon, <2>4, DraftTyped DEF save_preferences, PrefsTyped
  <2>5. CASE CommitPreferences(r)
    <3>1. req[r].pc = "written" /\ Finish(r) /\ draft' = [draft EXCEPT ![r] = NoDraft]
      BY Zenon, <2>5 DEF CommitPreferences, Commit
    <3>2. req'[r].pc = "done"
      BY Zenon, <3>1, FinishFields
    <3>3. CASE req[r].kind \in Saving
      <4>1. req[r].user \in UserIds
        BY Zenon, <3>1, <3>3 DEF RankInv, Sound, Saves, Saving, Active, Decided
      <4>2. prefs' = [prefs EXCEPT ![req[r].user] = RowAfter(r)]
        BY Zenon, <2>5, <3>3 DEF CommitPreferences
      <4>3. RowAfter(r) \in Row
        BY ZenonT(60), <4>1, RowWritten
      <4> QED  BY Zenon, <3>1, <3>2, <4>1, <4>2, <4>3, DraftTyped DEF PrefsTyped
    <3>4. CASE req[r].kind \notin Saving
      BY <2>5, <3>1, <3>4, DraftTyped DEF CommitPreferences, PrefsTyped
    <3> QED  BY Zenon, <3>3, <3>4
  <2> QED  BY <2>1, <2>2, <2>3, <2>4, <2>5
<1> QED  BY Zenon, <1>1, <1>2

\* Nothing is saved at first.
LEMMA PrefsInit == PrefInit => PrefsTyped
<1> SUFFICES ASSUME PrefInit PROVE PrefsTyped
  OBVIOUS
<1>1. \A b \in BOOLEAN : [Defaults EXCEPT !.stored = b] \in Row
  BY Zenon DEF Defaults, Row
<1>2. \A u \in UserIds : (u = Member /\ users[u] # NoUser) \in BOOLEAN
  OBVIOUS
<1>3. prefs \in [UserIds -> Row]
  BY Zenon, <1>1, <1>2 DEF PrefInit
<1> QED  BY <1>3, DraftTyped DEF PrefInit, PrefsTyped

\* The rows keep their types.
LEMMA PrefsHold == PrefSpec => [](EmailInv /\ RankInv /\ PrefsTyped)
<1>1. PrefInit => PrefsTyped
  BY PrefsInit
<1>2. EmailInv /\ RankInv /\ PrefsTyped /\ [PrefNext]_allVars => PrefsTyped'
  BY PrefsStep
<1> QED  BY <1>1, <1>2, RankHolds, PTL DEF PrefSpec

\* Every variable keeps its type: no call is left half made, and a row of the
\* preferences never holds a value its column cannot.
THEOREM PrefsTypeCorrect == PrefSpec => []PrefTypeOK
<1>1. ASSUME EmailInv, RankInv, PrefsTyped PROVE PrefTypeOK
  <2>1. TypeOK
    BY <1>1 DEF EmailInv, Types, RankInv, TypeOK, Call, Pcs
  <2>2. \A r \in Requests : draft[r].loaded \in Row /\ draft[r].sent \in Sent
    BY Zenon, <1>1 DEF PrefsTyped
  <2>3. \A r \in Requests : draft[r].sent \in [Fields -> {"unset", "null", "dark", "none"}]
    BY <2>2 DEF Sent
  <2> QED  BY ZenonT(60), <1>1, <2>1, <2>2, <2>3 DEF PrefTypeOK, PrefsTyped
<1> QED  BY <1>1, PrefsHold, PTL

\* A save changes the fields it was sent and no other, whatever was saved to
\* the same row since it was loaded.
THEOREM SavesAreApart == PrefSpec => SaveKeepsTheOthers
<1>1. ASSUME EmailInv, RankInv, PrefsTyped, [PrefNext]_allVars
      PROVE  [\A u \in UserIds, f \in Fields : prefs'[u][f] # prefs[u][f] =>
                \E r \in Requests : /\ req[r].pc = "written" /\ req'[r].pc = "done"
                                     /\ req[r].user = u /\ f \in fields(r) /\ prefs'[u][f] = draft[r].sent[f]]_allVars
  <2> SUFFICES ASSUME NEW u \in UserIds, NEW f \in Fields, prefs'[u][f] # prefs[u][f]
               PROVE  \E r \in Requests : /\ req[r].pc = "written" /\ req'[r].pc = "done"
                                          /\ req[r].user = u /\ f \in fields(r) /\ prefs'[u][f] = draft[r].sent[f]
    OBVIOUS
  <2>1. PICK r \in Requests : /\ req[r].pc = "written" /\ req'[r].pc = "done" /\ req[r].user \in UserIds
                              /\ prefs' = [prefs EXCEPT ![req[r].user] = RowAfter(r)]
    BY Zenon, <1>1, PrefsStep
  <2>2. u = req[r].user /\ prefs'[u] = RowAfter(r)
    BY ZenonT(60), <1>1, <2>1 DEF PrefsTyped
  <2>3. f \in Columns(r) /\ prefs'[u][f] = draft[r].sent[f] /\ Columns(r) \subseteq fields(r)
    BY <1>1, <2>1, <2>2, RowWritten
  <2> QED  BY ZenonT(60), <2>1, <2>2, <2>3
<1> QED  BY <1>1, PrefsHold, PTL DEF PrefSpec, SaveKeepsTheOthers

=============================================================================
