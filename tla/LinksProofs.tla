------------------------------ MODULE LinksProofs ------------------------------
(***************************************************************************)
(* The sessions and the links of an account, for any number of requests    *)
(* and any lives, cooldown and clock.                                      *)
(***************************************************************************)
EXTENDS Links, TLAPS, WellFoundedInduction

-----------------------------------------------------------------------------
(* The inductive invariant.                                                *)

Redeeming == {"marked", "spending", "spent", "revoking", "written"}

\* What came before a request is over, and was over when the moment the
\* request stamps was taken.
History(r) ==
    /\ \A p \in req[r].before : req[p].pc = "done" /\ p # r
    /\ req[r].ok => req[r].pc = "done"
    /\ req[r].now <= clock
    /\ req[r].pc # "done" => \A t \in req[r].before \cup {Earlier} : minted[t].iat <= req[r].now \div TicksPerSecond

\* A change or a reset has its eyes on every refresh token of before.
Revokes(r) ==
    req[r].kind \in {"change", "reset"} =>
        \A t \in Ids : Live(t) /\ Precedes(t, r) =>
            /\ req[r].pc = "revoking" => t \in req[r].scan
            /\ req[r].pc = "written" => t \in req[r].aim

\* A logout has its eyes on its refresh token, if its login is of before.
LogsOut(r) ==
    req[r].kind = "logout" /\ Live(req[r].token) /\ Precedes(req[r].token, r) =>
        /\ req[r].pc = "written" => req[r].token \in req[r].aim
        /\ ~req[r].ok

\* What a login or a refresh that saw the present password has in hand.
Knows(r) ==
    account.secret \in req[r].before /\ req[r].pc = "checked" =>
        /\ req[r].kind = "login" => req[r].secret = account.secret
        /\ req[r].kind = "refresh" => ~Precedes(req[r].token, account.secret)

\* No refresh token is used after its logout, no link after it was redeemed.
Finds(r) ==
    \A p \in req[r].before :
        req[p].ok =>
            /\ req[p].kind = "logout" /\ Precedes(req[p].token, p) /\ req[r].kind = "refresh"
                    => req[p].token # req[r].token
            /\ req[p].kind \in Following /\ req[r].kind \in Following => req[p].token # req[r].token

\* The link a request follows is marked, then spent.
Redeems(r) ==
    req[r].kind \in Following =>
        /\ links[req[r].token].state # "none"
        /\ req[r].pc \in Redeeming => req[r].token \in req[r].spent
        /\ req[r].ok => ~LiveLink(req[r].token)

\* A request that retires links has its eyes on every one of before.
Retires(r) ==
    req[r].kind \in Asking \cup {"reset"} =>
        \A k \in Ids : LiveLink(k) /\ links[k].purpose = Purpose(req[r].kind) /\ Precedes(k, r) =>
            /\ req[r].pc = "spending" => k \in req[r].spent \cup req[r].scan
            /\ req[r].pc \in {"spent", "revoking", "written"} => k \in req[r].spent
            /\ ~req[r].ok

\* A request past the cooldown is that much later than every link of before.
Cools(r) ==
    req[r].kind \in Asking /\ req[r].pc \in {"cool", "spending", "spent", "written"} =>
        \A k \in Ids :
            links[k].state # "none" /\ links[k].purpose = Purpose(req[r].kind) /\ Precedes(k, r)
                => clock - links[k].created >= Cooldown

\* A link is its request's; a mail is sent for one.
Sends(r) ==
    /\ links[r].state # "none" => /\ req[r].kind \in Asking /\ req[r].ok
                                  /\ links[r].purpose = Purpose(req[r].kind)
    /\ mailed[r] # Never =>
        /\ req[r].kind \in Asking /\ req[r].pc \in {"written", "done"}
        /\ \A k \in Ids :
            links[k].state # "none" /\ links[k].purpose = Purpose(req[r].kind) /\ Precedes(k, r)
                => mailed[r] - links[k].created >= Cooldown

\* A token says which password it was minted under.
Mints(r) ==
    minted[r].iat # Never =>
        /\ req[r].pc \in {"written", "done"}
        /\ account.secret \in req[r].before =>
                minted[r].secret = account.secret \/ ~Precedes(minted[r].root, account.secret)

RequestInv(r) ==
    /\ History(r) /\ Revokes(r) /\ LogsOut(r) /\ Knows(r) /\ Finds(r)
    /\ Redeems(r) /\ Retires(r) /\ Cools(r) /\ Sends(r) /\ Mints(r)

\* The present password: nothing of before outlives it.
PasswordInv ==
    /\ account.secret \in Requests =>
        /\ req[account.secret].pc = "done"
        /\ account.changed # Never
        /\ \A t \in Ids : Precedes(t, account.secret) =>
                ~Live(t) /\ minted[t].iat <= account.changed \div TicksPerSecond
    /\ account.secret = Earlier =>
        /\ account.changed = Never
        /\ \A t \in Ids : sessions[t].secret = Earlier /\ minted[t].secret = Earlier
        /\ \A r \in Requests : req[r].secret = Earlier

TokenInv ==
    /\ \A t \in Ids : minted[t].iat * TicksPerSecond <= clock
    /\ \A l \in Ids : links[l].state = "gone" => Expires(l) < clock

IInv == LinksTypeOK /\ PasswordInv /\ TokenInv /\ \A r \in Requests : RequestInv(r)

-----------------------------------------------------------------------------
(* Arithmetic.                                                             *)

LEMMA DivDef ==
    ASSUME NEW a \in Nat, NEW n \in Nat \ {0}
    PROVE  a \div n \in Nat /\ (a \div n) * n <= a
OBVIOUS

LEMMA DivMono ==
    ASSUME NEW a \in Nat, NEW b \in Nat, NEW n \in Nat \ {0}, a <= b
    PROVE  a \div n <= b \div n
OBVIOUS

LEMMA DivBound ==
    ASSUME NEW a \in Nat, NEW b \in Int, NEW n \in Nat \ {0}, b * n <= a
    PROVE  b <= a \div n
OBVIOUS

LEMMA Transitive == ASSUME NEW a \in Int, NEW b \in Int, NEW c \in Int, a <= b, b <= c PROVE a <= c
OBVIOUS

\* A moment between two, itself one of them.
LEMMA Between ==
    ASSUME NEW a \in Nat, NEW b \in Nat, a <= b, NEW c \in {a, b}
    PROVE  c \in Nat /\ a <= c /\ c <= b
OBVIOUS

\* The times a token carries.
LEMMA Stamps ==
    ASSUME NEW c \in Nat, c \in Time
    PROVE  /\ c \div TicksPerSecond \in Nat /\ (c \div TicksPerSecond) * TicksPerSecond <= c
           /\ (c + AccessLife) \div TicksPerSecond \in Nat
           /\ c \div TicksPerSecond \in Time
<1>1. c + AccessLife \in Nat /\ TicksPerSecond \in Nat \ {0} /\ c <= MaxClock /\ MaxClock \in Nat
  BY ClockAssumption DEF Time
<1>2. c \div TicksPerSecond \in Nat /\ (c \div TicksPerSecond) * TicksPerSecond <= c
      /\ (c + AccessLife) \div TicksPerSecond \in Nat
  BY Zenon, <1>1, DivDef
<1>3. c \div TicksPerSecond <= c
  BY <1>1, <1>2
<1> QED  BY <1>1, <1>2, <1>3 DEF Time

\* The latest of some instants is one of them.
LEMMA MaxOfTimes ==
    ASSUME NEW S \in SUBSET Time, S # {}
    PROVE  Max(S) \in S /\ \A x \in S : x <= Max(S)
<1> DEFINE T == {MaxClock - x : x \in S}
<1>0. MaxClock \in Nat /\ S \subseteq 0..MaxClock
  BY ClockAssumption DEF Time
<1>1. T \subseteq Nat /\ T # {}
  <2>1. PICK s \in S : TRUE
    OBVIOUS
  <2>2. MaxClock - s \in T
    OBVIOUS
  <2>3. \A x \in S : MaxClock - x \in Nat
    BY <1>0
  <2> QED  BY <2>2, <2>3
<1>2. PICK y \in T : \A z \in T : ~(<<z, y>> \in OpToRel(<, Nat))
  BY Zenon, <1>1, NatLessThanWellFounded, WFMin
<1>3. \A z \in T : ~(z < y)
  BY Zenon, <1>1, <1>2 DEF OpToRel
<1>4. PICK m \in S : y = MaxClock - m
  OBVIOUS
<1>5. \A x \in S : m >= x
  <2> TAKE x \in S
  <2>1. MaxClock - x \in T
    OBVIOUS
  <2> QED  BY <1>0, <1>3, <1>4, <2>1
<1>6. Max(S) \in S /\ \A x \in S : Max(S) >= x
  BY <1>5, Zenon DEF Max
<1> QED  BY <1>0, <1>6

-----------------------------------------------------------------------------
(* What a step leaves alone.                                               *)

Call == [pc : Pcs, kind : Kinds \cup {"none"}, token : Ids, now : Time, secret : Ids,
         verified : BOOLEAN, holds : BOOLEAN, scan : SUBSET Ids, aim : SUBSET Ids,
         spent : SUBSET Ids, ok : BOOLEAN, before : SUBSET Requests]

Tables == <<clock, account, sessions, minted, links, mailed>>

\* The rows of x can only fade.
Fades(x) ==
    /\ minted'[x] = minted[x] /\ mailed'[x] = mailed[x]
    /\ Live(x)' => Live(x)
    /\ LiveLink(x)' => LiveLink(x)
    /\ links'[x].state = "none" <=> links[x].state = "none"
    /\ links'[x].purpose = links[x].purpose /\ links'[x].created = links[x].created

\* Neither the rows nor the records of what is over change, nor those of s.
Steady(s) ==
    /\ req'[s] = req[s]
    /\ \A x \in Requests : req[x].pc = "done" => req'[x] = req[x]
    /\ \A x \in Ids : (x \in {s, Earlier} \/ req[x].pc = "done") => Fades(x)
    /\ account'.secret = account.secret \/ (account'.secret \in Requests /\ req[account'.secret].pc # "done")
    /\ clock \in Int /\ clock' \in Int /\ clock <= clock'

LEMMA Types ==
    ASSUME LinksTypeOK
    PROVE  /\ clock \in Nat /\ clock \in Time /\ account.secret \in Ids
           /\ \A t \in Ids : /\ minted[t].iat \in Int /\ minted[t].exp \in Nat /\ minted[t].secret \in Ids
                             /\ minted[t].root \in Ids /\ links[t].created \in Nat /\ links[t].created \in Time
                             /\ mailed[t] \in Int
           /\ \A r \in Requests : /\ req[r] \in Call /\ req[r].now \in Nat /\ req[r].token \in Ids
                                  /\ req[r].before \subseteq Requests /\ req[r].pc \in Pcs
           /\ Requests \subseteq Ids /\ Earlier \in Ids /\ Earlier \notin Requests
BY RequestsAssumption, ClockAssumption DEF LinksTypeOK, TypeOK, Time, Never, Ids, Call

LEMMA ClockStays == ASSUME LinksTypeOK, clock' = clock PROVE clock \in Int /\ clock' \in Int /\ clock <= clock'
BY Types

\* Finds speaks of what is over.
LEMMA FindsKeeps ==
    ASSUME NEW r, Finds(r), req'[r].before = req[r].before, req'[r].kind = req[r].kind, req'[r].token = req[r].token,
           \A p \in req[r].before : req'[p] = req[p]
    PROVE  Finds(r)'
BY Zenon DEF Finds, Precedes

\* A request that does not step keeps its part of the invariant.
LEMMA OthersKeep == ASSUME IInv, NEW s \in Requests, Steady(s) PROVE RequestInv(s)'
<1> USE DEF Steady
<1>0. /\ LinksTypeOK /\ RequestInv(s) /\ s \in Ids /\ Earlier \in Ids /\ Earlier \notin Requests
      /\ \A x \in req[s].before : x \in Requests /\ x \in Ids /\ req[x].pc = "done"
      /\ clock' >= clock /\ req[s].token \in Ids
  BY Types DEF IInv, RequestInv, History
<1>1. /\ \A x \in Ids : Precedes(x, s)' <=> Precedes(x, s)
      /\ \A x \in Ids : Precedes(x, s) => Fades(x)
  BY Zenon, <1>0 DEF Precedes
<1>2. History(s)'
  BY <1>0, <1>1, Types DEF History, RequestInv, Fades
<1>3. Revokes(s)' /\ LogsOut(s)'
  BY ZenonT(60), <1>0, <1>1 DEF Revokes, LogsOut, RequestInv, Fades
<1>4. Knows(s)' /\ Mints(s)'
  <2>1. account'.secret \in req[s].before => account'.secret = account.secret /\ req'[account.secret] = req[account.secret]
    BY <1>0
  <2> QED  BY <1>0, <2>1 DEF Knows, Mints, RequestInv, Fades, Precedes
<1>5. Finds(s)'
  BY ZenonT(60), <1>0 DEF Finds, RequestInv, Precedes
<1>6. Redeems(s)'
  <2>1. req[s].kind \in Following => Fades(req[s].token)
    BY Zenon, <1>0 DEF IInv, RequestInv, Redeems, Sends, History, Ids
  <2> QED  BY Zenon, <1>0, <2>1 DEF Redeems, RequestInv, Fades
<1>7. Retires(s)'
  BY <1>0, <1>1 DEF Retires, RequestInv, Fades
<1>8. Cools(s)'
  <2>1. Cooldown \in Int /\ \A k \in Ids : links[k].created \in Int
    BY SMTT(60), <1>0, Types, CooldownAssumption
  <2> QED  BY <1>0, <1>1, <2>1 DEF Cools, RequestInv, Fades
<1>9. Sends(s)'
  BY <1>0, <1>1 DEF Sends, RequestInv, Fades
<1> QED  BY Zenon, <1>2, <1>3, <1>4, <1>5, <1>6, <1>7, <1>8, <1>9 DEF RequestInv

\* The password stays, and so does what is true of it.
LEMMA PasswordKeeps ==
    ASSUME IInv, account'.secret = account.secret, account'.changed = account.changed,
           \A x \in Requests : req[x].pc = "done" => req'[x] = req[x],
           \A x \in Ids : (x = Earlier \/ req[x].pc = "done") => Fades(x),
           account.secret = Earlier =>
                /\ \A t \in Ids : sessions'[t].secret = Earlier /\ minted'[t].secret = Earlier
                /\ \A r \in Requests : req'[r].secret = Earlier
    PROVE  PasswordInv'
<1>1. CASE account.secret = Earlier
  BY Zenon, <1>1, Types DEF IInv, PasswordInv
<1>2. CASE account.secret \in Requests
  <2>1. RequestInv(account.secret) /\ req[account.secret].pc = "done" /\ req'[account.secret] = req[account.secret]
    BY <1>2 DEF IInv, PasswordInv
  <2>2. \A t \in Ids : Precedes(t, account.secret)' <=> Precedes(t, account.secret)
    BY <2>1 DEF Precedes
  <2>3. \A t \in Ids : Precedes(t, account.secret) => Fades(t)
    BY <1>2, <2>1 DEF Precedes, RequestInv, History
  <2>4. account'.secret # Earlier
    BY <1>2, Types DEF IInv
  <2> QED  BY <1>2, <2>1, <2>2, <2>3, <2>4 DEF IInv, PasswordInv, Fades, Precedes
<1> QED  BY <1>1, <1>2, Types DEF IInv, Ids

\* A request steps and no table changes.
LEMMA QuietStep ==
    ASSUME IInv, NEW r \in Requests, NEW t \in Call, Put(r, t), req[r].pc # "done", UNCHANGED Tables,
           account.secret = Earlier => t.secret = Earlier,
           RequestInv(r)'
    PROVE  IInv'
<1>1. /\ req' \in [Requests -> Call] /\ req'[r] = t
      /\ \A s \in Requests \ {r} : req'[s] = req[s]
  BY DEF IInv, LinksTypeOK, TypeOK, Call, Put
<1>2. LinksTypeOK'
  BY <1>1 DEF IInv, LinksTypeOK, TypeOK, Call, Tables
<1>3. \A x : Fades(x)
  BY Zenon DEF Fades, Tables, Live, LiveLink
<1>4. PasswordInv'
  BY <1>1, <1>3, PasswordKeeps DEF Tables, IInv, PasswordInv
<1>5. TokenInv'
  BY Zenon DEF IInv, TokenInv, Tables, Expires
<1>6. \A s \in Requests \ {r} : RequestInv(s)'
  BY <1>1, <1>3, Types, OthersKeep DEF Steady, Tables, IInv
<1> QED  BY <1>2, <1>4, <1>5, <1>6 DEF IInv

\* It goes on, at some place that it has yet to be shown fit for.
LEMMA Advance ==
    ASSUME IInv, NEW r \in Requests, NEW t \in Call, Put(r, t), req[r].pc \notin {"done", "written"}, UNCHANGED Tables,
           t.kind = req[r].kind, t.token = req[r].token, t.before = req[r].before, t.secret = req[r].secret, ~t.ok,
           t.now \in {req[r].now, clock}, t.pc \notin {"checked", "done"},
           Revokes(r)', LogsOut(r)', Redeems(r)', Retires(r)', Cools(r)'
    PROVE  IInv'
<1>0. req'[r] = t /\ (\A s \in Requests \ {r} : req'[s] = req[s]) /\ RequestInv(r) /\ LinksTypeOK
  BY Zenon DEF Put, IInv, LinksTypeOK, TypeOK
<1>1. History(r)'
  <2>1. \A p \in req[r].before : req'[p].pc = "done" /\ p # r
    BY Zenon, <1>0, Types DEF RequestInv, History
  <2>2. t.now \in Nat /\ req[r].now <= t.now /\ t.now <= clock
    BY <1>0, Types DEF RequestInv, History
  <2>3. req[r].now \div TicksPerSecond <= t.now \div TicksPerSecond /\ req[r].now \div TicksPerSecond \in Nat
        /\ t.now \div TicksPerSecond \in Nat
    BY ZenonT(60), <1>0, <2>2, Types, DivMono, DivDef, ClockAssumption
  <2>4. \A x \in req[r].before \cup {Earlier} : minted[x].iat <= t.now \div TicksPerSecond
    BY <1>0, <2>3, Types DEF RequestInv, History
  <2> QED  BY Zenon, <1>0, <2>1, <2>2, <2>4 DEF History, Tables
<1>2. Knows(r)' /\ Mints(r)' /\ Finds(r)' /\ Sends(r)'
  <2>1. Knows(r)'
    BY Zenon, <1>0 DEF Knows
  <2>2. Mints(r)'
    <3>1. account.secret \in req[r].before => req'[account.secret] = req[account.secret]
      BY Zenon, <1>0, Types DEF RequestInv, History
    <3> QED  BY Zenon, <1>0, <3>1 DEF Mints, Tables, Precedes, RequestInv
  <2>3. Finds(r)'
    <3>1. \A p \in req[r].before : req'[p] = req[p]
      BY Zenon, <1>0, Types DEF RequestInv, History
    <3> QED  BY ZenonT(60), <1>0, <3>1 DEF Finds, Precedes, RequestInv
  <2>4. Sends(r)'
    BY Zenon, <1>0 DEF Sends, Tables, RequestInv, History
  <2> QED  BY Zenon, <2>1, <2>2, <2>3, <2>4
<1>3. account.secret = Earlier => t.secret = Earlier
  BY Zenon DEF IInv, PasswordInv
<1> QED  BY <1>1, <1>2, <1>3, QuietStep DEF RequestInv

\* The records a request begins and ends with.
LEMMA IdleTyped == Idle \in Call /\ Idle.before = {} /\ Idle.kind = "none" /\ Idle.secret = Earlier /\ ~Idle.ok
<1>1. 0 \in Time /\ Earlier \in Ids /\ "idle" \in Pcs
  BY ClockAssumption DEF Time, Ids, Pcs
<1> QED  BY Zenon, <1>1 DEF Idle, Call

LEMMA RefusedTyped ==
    /\ Refused \in Call /\ Refused.before = {} /\ Refused.kind = "none" /\ Refused.secret = Earlier
    /\ ~Refused.ok /\ Refused.pc = "done" /\ Refused.now = 0
<1> DEFINE x == Idle
           t == [x EXCEPT !.pc = "done"]
<1>1. x \in Call /\ x.before = {} /\ x.kind = "none" /\ x.secret = Earlier /\ ~x.ok /\ x.now = 0
  BY IdleTyped DEF Idle
<1>2. "done" \in Pcs
  BY DEF Pcs
<1>3. /\ t \in Call /\ t.before = {} /\ t.kind = "none" /\ t.secret = Earlier
      /\ ~t.ok /\ t.pc = "done" /\ t.now = 0
  <2> HIDE DEF x
  <2> QED  BY <1>1, <1>2 DEF Call
<1> QED  BY Zenon, <1>3 DEF Refused

Gone == {s \in Requests : req[s].pc = "done" /\ req[s].kind # "none"}

LEMMA OpenedTyped ==
    ASSUME NEW kind \in Kinds, NEW token \in Ids, clock \in Time
    PROVE  LET t == Opened(kind, token) IN
           /\ t \in Call /\ t.kind = kind /\ t.token = token /\ t.now = clock /\ t.before = Gone
           /\ ~t.ok /\ t.secret = Earlier /\ t.spent = {} /\ t.scan = {} /\ t.aim = {}
<1> DEFINE x == Idle
           t == [x EXCEPT !.kind = kind, !.token = token, !.now = clock, !.before = Gone]
<1>1. x \in Call /\ x.secret = Earlier /\ ~x.ok /\ x.spent = {} /\ x.scan = {} /\ x.aim = {}
  BY IdleTyped DEF Idle
<1>2. Gone \in SUBSET Requests
  BY DEF Gone
<1>3. /\ t \in Call /\ t.kind = kind /\ t.token = token /\ t.now = clock /\ t.before = Gone
      /\ ~t.ok /\ t.secret = Earlier /\ t.spent = {} /\ t.scan = {} /\ t.aim = {}
  <2> HIDE DEF x
  <2> QED  BY Zenon, <1>1, <1>2 DEF Call
<1> QED  BY Zenon, <1>3 DEF Opened, Gone

LEMMA EndedTyped ==
    ASSUME NEW r \in Requests, req[r] \in Call, NEW ok \in BOOLEAN
    PROVE  LET t == Ended(r, ok) IN
           /\ t \in Call /\ t.pc = "done" /\ t.ok = ok /\ t.kind = req[r].kind /\ t.before = req[r].before
           /\ (t.kind # "change" => t.token = req[r].token) /\ t.secret = Earlier /\ t.now = 0
<1> DEFINE x == Idle
           q == req[r]
           k == IF q.kind = "change" THEN Earlier ELSE q.token
           y == [x EXCEPT !.pc = "done", !.kind = q.kind, !.before = q.before, !.token = k]
           t == [y EXCEPT !.ok = ok]
<1>1. x \in Call /\ x.secret = Earlier /\ x.now = 0
  BY IdleTyped DEF Idle
<1>2. q.kind \in Kinds \cup {"none"} /\ q.before \in SUBSET Requests /\ k \in Ids /\ "done" \in Pcs
  BY DEF Call, Ids, Pcs
<1>3. /\ y \in Call /\ y.pc = "done" /\ y.kind = q.kind /\ y.before = q.before /\ y.token = k
      /\ y.secret = Earlier /\ y.now = 0
  <2> HIDE DEF x, q, k
  <2> QED  BY Zenon, <1>1, <1>2 DEF Call
<1>4. /\ t \in Call /\ t.pc = y.pc /\ t.ok = ok /\ t.kind = y.kind /\ t.before = y.before /\ t.token = y.token
      /\ t.secret = y.secret /\ t.now = y.now
  <2> HIDE DEF y
  <2> QED  BY Zenon, <1>3 DEF Call
<1>5. t = Ended(r, ok)
  <2> HIDE DEF x
  <2> QED  BY Zenon, <1>1 DEF Ended, x, Call
<1>6. q.kind # "change" => k = q.token
  OBVIOUS
<1> HIDE DEF t, y, k
<1> QED  BY Zenon, <1>3, <1>4, <1>5, <1>6

\* A request is turned away.
LEMMA Refuses ==
    ASSUME IInv, NEW r \in Requests, Put(r, Refused), req[r].pc \notin {"done", "written"}, UNCHANGED Tables
    PROVE  IInv'
<1>1. req'[r] = Refused /\ RequestInv(r) /\ clock \in Nat
  BY Zenon, Types DEF Put, IInv, LinksTypeOK, TypeOK
<1>2. RequestInv(r)'
  <2>1. History(r)' /\ Revokes(r)' /\ LogsOut(r)' /\ Knows(r)' /\ Finds(r)' /\ Redeems(r)' /\ Retires(r)' /\ Cools(r)'
    BY <1>1, RefusedTyped DEF Tables, History, Revokes, LogsOut, Knows, Finds, Redeems, Retires, Cools,
       Following, Asking
  <2>2. Sends(r)' /\ Mints(r)'
    BY Zenon, <1>1, RefusedTyped DEF Tables, Sends, Mints, RequestInv, History
  <2> QED  BY Zenon, <2>1, <2>2 DEF RequestInv
<1> QED  BY <1>2, RefusedTyped, QuietStep

\* A request gives up, or its commit fails.
LEMMA GivesUp ==
    ASSUME IInv, NEW r \in Requests, Put(r, Ended(r, FALSE)), req[r].pc # "done", UNCHANGED Tables
    PROVE  IInv'
<1> DEFINE t == Ended(r, FALSE)
<1>0. LinksTypeOK /\ RequestInv(r) /\ req[r] \in Call
  BY Types DEF IInv
<1>1. /\ t \in Call /\ t.pc = "done" /\ ~t.ok /\ t.kind = req[r].kind /\ t.before = req[r].before
      /\ (t.kind # "change" => t.token = req[r].token) /\ t.secret = Earlier /\ t.now = 0
  BY Zenon, <1>0, EndedTyped
<1> HIDE DEF t
<1>2. req'[r] = t /\ \A s \in Requests \ {r} : req'[s] = req[s]
  BY SMTT(60) DEF Put, IInv, LinksTypeOK, TypeOK, t
<1>3. \A p \in req[r].before : req'[p] = req[p]
  BY Zenon, <1>0, <1>2, Types DEF RequestInv, History
<1>4. History(r)'
  BY <1>0, <1>1, <1>2, <1>3, Types DEF RequestInv, History, Tables
<1>5. Revokes(r)' /\ LogsOut(r)' /\ Knows(r)' /\ Retires(r)' /\ Cools(r)'
  BY Zenon, <1>1, <1>2 DEF Revokes, LogsOut, Knows, Retires, Cools
<1>6. Finds(r)' /\ Redeems(r)'
  BY <1>0, <1>1, <1>2, <1>3 DEF Finds, Redeems, RequestInv, Precedes, Following, Redeeming, Tables
<1>7. Sends(r)'
  BY Zenon, <1>0, <1>1, <1>2 DEF Sends, RequestInv, History, Tables, Precedes
<1>8. Mints(r)'
  <2>1. account.secret \in req[r].before => req'[account.secret] = req[account.secret]
    BY Zenon, <1>3
  <2> QED  BY <1>0, <1>1, <1>2, <2>1 DEF Mints, RequestInv, Precedes, Tables
<1> QED  BY Zenon, <1>1, <1>4, <1>5, <1>6, <1>7, <1>8, QuietStep DEF RequestInv, t

\* A request begins.
LEMMA Begins ==
    ASSUME IInv, NEW r \in Requests, NEW t \in Call, Put(r, t), req[r].pc = "idle", UNCHANGED Tables,
           t.before = Gone, t.now = clock, ~t.ok, t.kind # "none", account.secret = Earlier => t.secret = Earlier,
           t.pc \in {"checked", "found", "written"}, t.pc = "written" => t.kind = "logout", t.spent = {},
           LogsOut(r)', Knows(r)', Finds(r)',
           t.kind \in Following => t.pc = "found" /\ links[t.token].state # "none"
    PROVE  IInv'
<1>0. req'[r] = t /\ (\A s \in Requests \ {r} : req'[s] = req[s]) /\ RequestInv(r) /\ LinksTypeOK
  BY Zenon DEF Put, IInv, LinksTypeOK, TypeOK
<1>1. Gone \subseteq Requests \ {r} /\ \A p \in Gone : req'[p] = req[p] /\ req[p].pc = "done"
  BY Zenon, <1>0 DEF Gone
<1>2. History(r)'
  <2>1. \A x \in Ids : minted[x].iat <= clock \div TicksPerSecond
    BY Zenon, <1>0, Types, DivBound, ClockAssumption DEF IInv, TokenInv
  <2>2. Gone \cup {Earlier} \subseteq Ids /\ clock \in Nat
    BY Zenon, <1>0, <1>1, Types
  <2> QED  BY <1>0, <1>1, <2>1, <2>2 DEF History, Tables
<1>3. Revokes(r)' /\ Retires(r)' /\ Cools(r)' /\ Redeems(r)'
  BY ZenonT(60), <1>0 DEF Revokes, Retires, Cools, Redeems, Asking, Following, Redeeming, Tables
<1>4. Sends(r)' /\ Mints(r)'
  BY <1>0 DEF Sends, RequestInv, History, Tables, Mints
<1> QED  BY <1>2, <1>3, <1>4, QuietStep DEF RequestInv

-----------------------------------------------------------------------------
(* The steps of the sessions.                                              *)

LEMMA Here ==
    ASSUME IInv, NEW r \in Requests
    PROVE  /\ LinksTypeOK /\ RequestInv(r) /\ req[r] \in Call
           /\ \A t : Put(r, t) => req'[r] = t /\ \A s \in Requests \ {r} : req'[s] = req[s]
BY Zenon, Types DEF IInv, Put, LinksTypeOK, TypeOK

LEMMA authenticateKeeps == ASSUME IInv, NEW r \in Requests, authenticate(r), UNCHANGED linkVars PROVE IInv'
<1> DEFINE x == Opened("login", r)
           t == [x EXCEPT !.pc = "checked", !.secret = account.secret]
<1>1. req[r].pc = "idle" /\ "login" \in Kinds /\ UNCHANGED Tables /\ (Put(r, t) \/ Put(r, Refused))
  BY DEF authenticate, Starts, Tables, linkVars
<1>2. clock \in Time /\ r \in Ids /\ account.secret \in Ids /\ "checked" \in Pcs
  BY Zenon, Types DEF IInv, Pcs
<1>3. /\ t \in Call /\ t.pc = "checked" /\ t.secret = account.secret
      /\ t.kind = "login" /\ t.now = clock /\ t.before = Gone /\ ~t.ok /\ t.spent = {}
  <2>1. x \in Call /\ x.kind = "login" /\ x.now = clock /\ x.before = Gone /\ ~x.ok /\ x.spent = {}
    BY Zenon, <1>1, <1>2, OpenedTyped
  <2> HIDE DEF x
  <2> QED  BY Zenon, <1>2, <2>1 DEF Call
<1> HIDE DEF t
<1>4. CASE Put(r, t)
  <2>1. LogsOut(r)' /\ Knows(r)' /\ Finds(r)'
    BY <1>1, <1>3, <1>4, Here DEF LogsOut, Knows, Finds, Following, Tables
  <2> QED  BY ZenonT(60), <1>1, <1>3, <1>4, <2>1, Begins DEF Following
<1> QED  BY Zenon, <1>1, <1>4, Refuses

LEMMA refreshKeeps == ASSUME IInv, NEW r \in Requests, refresh(r), UNCHANGED linkVars PROVE IInv'
<1>1. req[r].pc = "idle" /\ "refresh" \in Kinds /\ UNCHANGED Tables
  BY DEF refresh, Starts, Tables, linkVars
<1>2. PICK k \in Ids : \/ Live(k) /\ Put(r, [Opened("refresh", k) EXCEPT !.pc = "checked", !.secret = sessions[k].secret])
                       \/ Put(r, Refused)
  BY Zenon DEF refresh, get_active
<1> DEFINE x == Opened("refresh", k)
           t == [x EXCEPT !.pc = "checked", !.secret = sessions[k].secret]
<1>3. clock \in Time /\ sessions[k].secret \in Ids /\ "checked" \in Pcs
  BY Types DEF IInv, Pcs, LinksTypeOK, TypeOK
<1>4. /\ t \in Call /\ t.pc = "checked" /\ t.secret = sessions[k].secret /\ t.token = k
      /\ t.kind = "refresh" /\ t.now = clock /\ t.before = Gone /\ ~t.ok /\ t.spent = {}
  <2>1. x \in Call /\ x.kind = "refresh" /\ x.now = clock /\ x.before = Gone /\ ~x.ok /\ x.spent = {} /\ x.token = k
    BY Zenon, <1>1, <1>3, OpenedTyped
  <2> HIDE DEF x
  <2> QED  BY Zenon, <1>3, <2>1 DEF Call
<1>5. Put(r, t) \/ Put(r, Refused)
  BY Zenon, <1>2
<1> HIDE DEF t
<1>6. CASE Live(k) /\ Put(r, t)
  <2>0. req'[r] = t /\ \A p \in Gone : p \in Requests /\ req'[p] = req[p] /\ req[p].pc = "done"
    BY <1>1, <1>6, Here DEF Gone
  <2>1. LogsOut(r)'
    BY Zenon, <1>4, <2>0 DEF LogsOut
  <2>2. Knows(r)'
    BY ZenonT(60), <1>1, <1>4, <1>6, <2>0 DEF Knows, Tables, IInv, PasswordInv, Precedes
  <2>3. Finds(r)'
    BY <1>4, <1>6, <2>0 DEF Finds, Following, Precedes, IInv, RequestInv, LogsOut
  <2>4. account.secret = Earlier => t.secret = Earlier
    BY Zenon, <1>4 DEF IInv, PasswordInv
  <2> QED  BY ZenonT(60), <1>1, <1>4, <1>6, <2>1, <2>2, <2>3, <2>4, Begins DEF Following
<1> QED  BY <1>1, <1>2, <1>6, Refuses DEF t

LEMMA logoutKeeps == ASSUME IInv, NEW r \in Requests, logout(r), UNCHANGED linkVars PROVE IInv'
<1>1. req[r].pc = "idle" /\ "logout" \in Kinds /\ UNCHANGED Tables
  BY DEF logout, Starts, Tables, linkVars
<1>2. PICK k \in Ids : Put(r, [Opened("logout", k) EXCEPT !.pc = "written", !.aim = IF Live(k) THEN {k} ELSE {}])
  BY Zenon DEF logout
<1> DEFINE x == Opened("logout", k)
           a == IF Live(k) THEN {k} ELSE {}
           t == [x EXCEPT !.pc = "written", !.aim = a]
<1>3. clock \in Time /\ a \in SUBSET Ids /\ "written" \in Pcs
  BY Types DEF IInv, Pcs
<1>4. /\ t \in Call /\ t.pc = "written" /\ t.aim = a /\ t.token = k
      /\ t.kind = "logout" /\ t.now = clock /\ t.before = Gone /\ ~t.ok /\ t.spent = {} /\ t.secret = Earlier
  <2>1. /\ x \in Call /\ x.kind = "logout" /\ x.now = clock /\ x.before = Gone /\ ~x.ok /\ x.spent = {}
        /\ x.token = k /\ x.secret = Earlier
    BY <1>1, <1>3, OpenedTyped
  <2> HIDE DEF x, a
  <2> QED  BY Zenon, <1>3, <2>1 DEF Call
<1>5. Put(r, t)
  BY Zenon, <1>2
<1> HIDE DEF t
<1>6. LogsOut(r)' /\ Knows(r)' /\ Finds(r)'
  BY <1>1, <1>4, <1>5, Here DEF LogsOut, Knows, Finds, Following, Tables, Live
<1> QED  BY <1>1, <1>4, <1>5, <1>6, Begins DEF Following

LEMMA change_passwordKeeps == ASSUME IInv, NEW r \in Requests, change_password(r), UNCHANGED linkVars PROVE IInv'
<1>1. req[r].pc = "idle" /\ "change" \in Kinds /\ UNCHANGED Tables
  BY DEF change_password, Starts, Tables, linkVars
<1>2. PICK k \in Ids : Put(r, [Opened("change", k) EXCEPT !.pc = "checked"]) \/ Put(r, Refused)
  BY Zenon DEF change_password
<1> DEFINE x == Opened("change", k)
           t == [x EXCEPT !.pc = "checked"]
<1>3. clock \in Time /\ "checked" \in Pcs
  BY Types DEF IInv, Pcs
<1>4. /\ t \in Call /\ t.pc = "checked" /\ t.kind = "change" /\ t.now = clock /\ t.before = Gone
      /\ ~t.ok /\ t.spent = {} /\ t.secret = Earlier
  <2>1. /\ x \in Call /\ x.kind = "change" /\ x.now = clock /\ x.before = Gone /\ ~x.ok /\ x.spent = {}
        /\ x.secret = Earlier
    BY <1>1, <1>3, OpenedTyped
  <2> HIDE DEF x
  <2> QED  BY Zenon, <1>3, <2>1 DEF Call
<1>5. Put(r, t) \/ Put(r, Refused)
  BY <1>2
<1> HIDE DEF t
<1>6. CASE Put(r, t)
  <2>1. LogsOut(r)' /\ Knows(r)' /\ Finds(r)'
    BY Zenon, <1>4, <1>6, Here DEF LogsOut, Knows, Finds, Following
  <2> QED  BY Zenon, <1>1, <1>4, <1>6, <2>1, Begins DEF Following
<1> QED  BY <1>1, <1>5, <1>6, Refuses

LEMMA change_stampKeeps == ASSUME IInv, NEW r \in Requests, change_stamp(r), UNCHANGED linkVars PROVE IInv'
<1> DEFINE x == req[r]
           t == [x EXCEPT !.pc = "stamped", !.now = clock]
<1>1. x \in Call /\ RequestInv(r) /\ clock \in Time /\ "stamped" \in Pcs
  BY Here, Types DEF Pcs, IInv
<1>2. Put(r, t) /\ UNCHANGED Tables /\ x.kind = "change" /\ x.pc = "checked"
  BY DEF change_stamp, At, Tables, linkVars
<1>3. /\ t \in Call /\ t.pc = "stamped" /\ t.now = clock
      /\ t.kind = x.kind /\ t.token = x.token /\ t.before = x.before /\ t.secret = x.secret /\ t.ok = x.ok
  <2> HIDE DEF x
  <2> QED  BY Zenon, <1>1 DEF Call
<1> HIDE DEF t
<1>4. req'[r] = t /\ ~t.ok
  BY ZenonT(60), <1>1, <1>2, <1>3, Here DEF RequestInv, History
<1>5. Revokes(r)' /\ LogsOut(r)' /\ Redeems(r)' /\ Retires(r)' /\ Cools(r)'
  BY <1>2, <1>3, <1>4 DEF Revokes, LogsOut, Redeems, Retires, Cools, Asking, Following
<1> QED  BY Zenon, <1>2, <1>3, <1>4, <1>5, Advance

LEMMA saveKeeps == ASSUME IInv, NEW r \in Requests, save(r), UNCHANGED linkVars PROVE IInv'
<1> DEFINE x == req[r]
           t == [x EXCEPT !.pc = "saved", !.holds = TRUE]
<1>1. x \in Call /\ RequestInv(r) /\ "saved" \in Pcs
  BY Here DEF Pcs
<1>2. Put(r, t) /\ UNCHANGED Tables /\ x.kind \in {"change", "reset"} /\ x.pc = "stamped"
  BY DEF save, At, Tables, linkVars
<1>3. /\ t \in Call /\ t.pc = "saved" /\ t.now = x.now
      /\ t.kind = x.kind /\ t.token = x.token /\ t.before = x.before /\ t.secret = x.secret /\ t.ok = x.ok
  <2> HIDE DEF x
  <2> QED  BY Zenon, <1>1 DEF Call
<1> HIDE DEF t
<1>4. req'[r] = t /\ ~t.ok /\ Redeems(r)
  BY Zenon, <1>1, <1>2, <1>3, Here DEF RequestInv, History
<1>5. Revokes(r)' /\ LogsOut(r)' /\ Retires(r)' /\ Cools(r)'
  BY Zenon, <1>2, <1>3, <1>4 DEF Revokes, LogsOut, Retires, Cools, Asking
<1>6. Redeems(r)'
  BY Zenon, <1>2, <1>3, <1>4 DEF Redeems, Redeeming, Tables
<1> QED  BY ZenonT(60), <1>2, <1>3, <1>4, <1>5, <1>6, Advance

LEMMA revoke_all_for_userKeeps ==
    ASSUME IInv, NEW r \in Requests, revoke_all_for_user(r), UNCHANGED linkVars PROVE IInv'
<1> DEFINE x == req[r]
           rows == {k \in Ids : Live(k)}
           t == [x EXCEPT !.pc = "revoking", !.scan = rows]
<1>1. x \in Call /\ RequestInv(r) /\ "revoking" \in Pcs /\ rows \in SUBSET Ids
  BY Here DEF Pcs
<1>2. Put(r, t) /\ UNCHANGED Tables /\ ((x.kind = "change" /\ x.pc = "saved") \/ (x.kind = "reset" /\ x.pc = "spent"))
  BY DEF revoke_all_for_user, At, Tables, linkVars
<1>3. /\ t \in Call /\ t.pc = "revoking" /\ t.now = x.now /\ t.scan = rows /\ t.spent = x.spent
      /\ t.kind = x.kind /\ t.token = x.token /\ t.before = x.before /\ t.secret = x.secret /\ t.ok = x.ok
  <2> HIDE DEF x, rows
  <2> QED  BY ZenonT(60), <1>1 DEF Call
<1> HIDE DEF t
<1>4. req'[r] = t /\ ~t.ok /\ Redeems(r) /\ Retires(r) /\ Revokes(r)
  BY <1>1, <1>2, <1>3, Here DEF RequestInv, History
<1>5. LogsOut(r)' /\ Cools(r)'
  BY Zenon, <1>2, <1>3, <1>4 DEF LogsOut, Cools, Asking
<1>6. Redeems(r)'
  BY Zenon, <1>2, <1>3, <1>4 DEF Redeems, Redeeming, Following, Tables
<1>7. Retires(r)'
  BY ZenonT(60), <1>2, <1>3, <1>4 DEF Retires, Asking, Tables, Precedes, LiveLink
<1>8. Revokes(r)'
  BY <1>2, <1>3, <1>4 DEF Revokes, Tables, Live, Precedes
<1> QED  BY ZenonT(60), <1>2, <1>3, <1>4, <1>5, <1>6, <1>7, <1>8, Advance

LEMMA revokedKeeps == ASSUME IInv, NEW r \in Requests, revoked(r), UNCHANGED linkVars PROVE IInv'
<1> DEFINE x == req[r]
           t == [x EXCEPT !.pc = "written", !.aim = x.scan, !.scan = {}]
<1>1. x \in Call /\ RequestInv(r) /\ "written" \in Pcs /\ {} \in SUBSET Ids
  BY Here DEF Pcs
<1>2. Put(r, t) /\ UNCHANGED Tables /\ x.kind \in {"change", "reset"} /\ x.pc = "revoking"
  BY DEF revoked, At, Tables, linkVars
<1>3. /\ t \in Call /\ t.pc = "written" /\ t.now = x.now /\ t.aim = x.scan /\ t.spent = x.spent
      /\ t.kind = x.kind /\ t.token = x.token /\ t.before = x.before /\ t.secret = x.secret /\ t.ok = x.ok
  <2> HIDE DEF x
  <2> QED  BY Zenon, <1>1 DEF Call
<1> HIDE DEF t
<1>4. req'[r] = t /\ ~t.ok /\ Redeems(r) /\ Retires(r) /\ Revokes(r)
  BY Zenon, <1>1, <1>2, <1>3, Here DEF RequestInv, History
<1>5. LogsOut(r)' /\ Cools(r)'
  BY Zenon, <1>2, <1>3, <1>4 DEF LogsOut, Cools, Asking
<1>6. Redeems(r)'
  BY Zenon, <1>2, <1>3, <1>4 DEF Redeems, Redeeming, Following, Tables
<1>7. Retires(r)'
  BY ZenonT(60), <1>2, <1>3, <1>4 DEF Retires, Asking, Tables, Precedes, LiveLink
<1>8. Revokes(r)'
  BY <1>2, <1>3, <1>4 DEF Revokes, Tables, Live, Precedes
<1> QED  BY ZenonT(60), <1>2, <1>3, <1>4, <1>5, <1>6, <1>7, <1>8, Advance

LEMMA RollbackKeeps == ASSUME IInv, NEW r \in Requests, Rollback(r), UNCHANGED linkVars PROVE IInv'
BY Zenon, GivesUp DEF Rollback, Tables, linkVars

-----------------------------------------------------------------------------
(* The steps of the links.                                                 *)

\* Asking for a link.
LEMMA AsksKeeps ==
    ASSUME IInv, NEW r \in Requests, NEW kind \in Asking, Starts(r, kind), UNCHANGED Tables,
           Put(r, [Opened(kind, r) EXCEPT !.pc = "found"]) \/ Put(r, Refused)
    PROVE  IInv'
<1> DEFINE x == Opened(kind, r)
           t == [x EXCEPT !.pc = "found"]
<1>1. clock \in Time /\ r \in Ids /\ "found" \in Pcs /\ req[r].pc = "idle" /\ kind \in Kinds
  BY Types DEF IInv, Pcs, Starts
<1>2. /\ t \in Call /\ t.pc = "found" /\ t.kind = kind /\ t.now = clock /\ t.before = Gone /\ ~t.ok
      /\ t.spent = {} /\ t.secret = Earlier
  <2>1. x \in Call /\ x.kind = kind /\ x.now = clock /\ x.before = Gone /\ ~x.ok /\ x.spent = {} /\ x.secret = Earlier
    BY <1>1, OpenedTyped
  <2> HIDE DEF x
  <2> QED  BY <1>1, <2>1 DEF Call
<1>3. Put(r, t) \/ Put(r, Refused)
  OBVIOUS
<1> HIDE DEF t
<1>4. CASE Put(r, t)
  <2>1. LogsOut(r)' /\ Knows(r)' /\ Finds(r)'
    BY <1>2, <1>4, Here DEF LogsOut, Knows, Finds, Following, Asking
  <2> QED  BY <1>1, <1>2, <1>4, <2>1, Begins DEF Following, Asking
<1> QED  BY <1>1, <1>3, <1>4, Refuses

LEMMA request_resetKeeps == ASSUME IInv, NEW r \in Requests, request_reset(r) PROVE IInv'
<1>1. Starts(r, "forgot") /\ UNCHANGED Tables /\ "forgot" \in Asking
  BY DEF request_reset, Tables, Kept, Asking
<1>2. Put(r, [Opened("forgot", r) EXCEPT !.pc = "found"]) \/ Put(r, Refused)
  BY Zenon DEF request_reset
<1> QED  BY <1>1, <1>2, AsksKeeps, Zenon

LEMMA request_verificationKeeps == ASSUME IInv, NEW r \in Requests, request_verification(r) PROVE IInv'
<1>1. Starts(r, "resend") /\ UNCHANGED Tables /\ "resend" \in Asking
  BY DEF request_verification, Tables, Kept, Asking
<1>2. Put(r, [Opened("resend", r) EXCEPT !.pc = "found"]) \/ Put(r, Refused)
  BY Zenon DEF request_verification
<1> QED  BY <1>1, <1>2, AsksKeeps, Zenon

\* Following one: no link is live that was redeemed before.
LEMMA redeemKeeps == ASSUME IInv, NEW r \in Requests, NEW kind \in Following, redeem(r, kind) PROVE IInv'
<1>1. req[r].pc = "idle" /\ kind \in Kinds /\ UNCHANGED Tables
  BY DEF redeem, Starts, Tables, Kept
<1>2. PICK k \in Ids : \/ LiveLink(k) /\ Put(r, [Opened(kind, k) EXCEPT !.pc = "found"])
                       \/ Put(r, Refused)
  BY Zenon DEF redeem, get_active_link
<1> DEFINE x == Opened(kind, k)
           t == [x EXCEPT !.pc = "found"]
<1>3. clock \in Time /\ "found" \in Pcs
  BY Types DEF IInv, Pcs
<1>4. /\ t \in Call /\ t.pc = "found" /\ t.token = k /\ t.kind = kind /\ t.now = clock /\ t.before = Gone
      /\ ~t.ok /\ t.spent = {} /\ t.secret = Earlier
  <2>1. /\ x \in Call /\ x.kind = kind /\ x.now = clock /\ x.before = Gone /\ ~x.ok /\ x.spent = {}
        /\ x.token = k /\ x.secret = Earlier
    BY <1>1, <1>3, OpenedTyped
  <2> HIDE DEF x
  <2> QED  BY Zenon, <1>3, <2>1 DEF Call
<1>5. (LiveLink(k) /\ Put(r, t)) \/ Put(r, Refused)
  BY Zenon, <1>2
<1> HIDE DEF t
<1>6. CASE LiveLink(k) /\ Put(r, t)
  <2>0. req'[r] = t /\ \A p \in Gone : p \in Requests /\ req'[p] = req[p] /\ req[p].pc = "done"
    BY Zenon, <1>1, <1>6, Here DEF Gone
  <2>1. LogsOut(r)' /\ Knows(r)'
    BY ZenonT(60), <1>4, <2>0 DEF LogsOut, Knows, Following
  <2>2. Finds(r)'
    BY SMTT(60), <1>4, <1>6, <2>0 DEF Finds, Following, IInv, RequestInv, Redeems
  <2>3. links[k].state # "none"
    BY <1>6 DEF LiveLink
  <2> QED  BY Zenon, <1>1, <1>4, <1>6, <2>1, <2>2, <2>3, Begins DEF Following
<1> QED  BY <1>1, <1>5, <1>6, Refuses

\* A link that was looked up and found old is; one that was deleted is older.
LEMMA _sent_recentlyKeeps == ASSUME IInv, NEW r \in Requests, _sent_recently(r) PROVE IInv'
<1> DEFINE x == req[r]
           t == [x EXCEPT !.pc = "cool"]
           P == Purpose(x.kind)
<1>1. x \in Call /\ RequestInv(r) /\ LinksTypeOK /\ "cool" \in Pcs
  BY Here DEF Pcs
<1>2. /\ UNCHANGED Tables /\ x.kind \in Asking /\ x.pc = "found"
      /\ Put(r, Ended(r, FALSE)) \/ (Put(r, t) /\ ~issued_within(P, x.now))
  BY Zenon DEF _sent_recently, At, Tables, Kept
<1>3. /\ t \in Call /\ t.pc = "cool" /\ t.now = x.now
      /\ t.kind = x.kind /\ t.token = x.token /\ t.before = x.before /\ t.secret = x.secret /\ t.ok = x.ok
  <2> HIDE DEF x
  <2> QED  BY Zenon, <1>1 DEF Call
<1> HIDE DEF t
<1>4. CASE Put(r, t) /\ ~issued_within(P, x.now)
  <2>1. ~t.ok /\ Revokes(r)' /\ LogsOut(r)' /\ Redeems(r)' /\ Retires(r)'
    BY ZenonT(60), <1>1, <1>2, <1>3, <1>4, Here DEF Revokes, LogsOut, Redeems, Retires, RequestInv, History,
       Asking, Following
  <2>2. ASSUME NEW k \in Ids, links[k].state # "none", links[k].purpose = P
        PROVE  clock - links[k].created >= Cooldown
    <3> DEFINE c == links[k].created
    <3>0. c \in Time /\ c \in Nat /\ clock \in Nat /\ x.now \in Nat /\ x.now <= clock
          /\ LinkLife \in Nat /\ Cooldown \in Nat /\ Cooldown <= LinkLife
      BY <1>1, Types, CooldownAssumption DEF RequestInv, History
    <3>1. CASE links[k].state = "gone"
      BY <3>0, <3>1 DEF IInv, TokenInv, Expires
    <3>2. CASE links[k].state \in {"live", "used"}
      <4> DEFINE S == latest_for(P)
      <4>1. S \in SUBSET Time /\ c \in S
        BY ZenonT(60), <1>1, <2>2, <3>2, Types DEF latest_for
      <4>2. Max(S) \in Nat /\ c <= Max(S)
        <5> HIDE DEF S
        <5>1. Max(S) \in Time /\ c <= Max(S)
          BY ZenonT(60), <4>1, MaxOfTimes
        <5> QED  BY <5>1, ClockAssumption DEF Time
      <4>3. ~(x.now - Max(S) < Cooldown)
        BY <1>4, <4>1 DEF issued_within
      <4> HIDE DEF S, c, x
      <4>4. clock - c >= Cooldown
        BY SMTT(60), <3>0, <4>2, <4>3
      <4> QED  BY Zenon, <4>4 DEF c
    <3> QED  BY Zenon, <1>1, <2>2, <3>1, <3>2 DEF LinksTypeOK
  <2>3. Cools(r)'
    BY <1>3, <1>4, <1>2, <2>2, Here DEF Cools, Tables
  <2> QED  BY <1>2, <1>3, <1>4, <2>1, <2>3, Advance
<1> QED  BY Zenon, <1>2, <1>4, GivesUp

LEMMA revoke_all_forKeeps == ASSUME IInv, NEW r \in Requests, revoke_all_for(r) PROVE IInv'
<1> DEFINE x == req[r]
           rows == {l \in Ids : LiveLink(l) /\ links[l].purpose = Purpose(x.kind)}
           t == [x EXCEPT !.pc = "spending", !.scan = rows]
<1>1. x \in Call /\ RequestInv(r) /\ "spending" \in Pcs /\ rows \in SUBSET Ids
  BY Here DEF Pcs
<1>2. Put(r, t) /\ UNCHANGED Tables /\ ((x.kind \in Asking /\ x.pc = "cool") \/ (x.kind = "reset" /\ x.pc = "marked"))
  BY DEF revoke_all_for, At, Tables, Kept
<1>3. /\ t \in Call /\ t.pc = "spending" /\ t.now = x.now /\ t.scan = rows /\ t.spent = x.spent
      /\ t.kind = x.kind /\ t.token = x.token /\ t.before = x.before /\ t.secret = x.secret /\ t.ok = x.ok
  <2> HIDE DEF x, rows
  <2> QED  BY Zenon, <1>1 DEF Call
<1> HIDE DEF t
<1>4. req'[r] = t /\ ~t.ok /\ Redeems(r) /\ Cools(r)
  BY ZenonT(60), <1>1, <1>2, <1>3, Here DEF RequestInv, History
<1>5. Revokes(r)' /\ LogsOut(r)'
  BY <1>2, <1>3, <1>4 DEF LogsOut, Revokes, Asking
<1>6. Redeems(r)'
  BY Zenon, <1>2, <1>3, <1>4 DEF Redeems, Redeeming, Asking, Following, Tables
<1>7. Cools(r)'
  BY ZenonT(60), <1>2, <1>3, <1>4 DEF Cools, Tables, Precedes, Asking
<1>8. Retires(r)'
  BY <1>2, <1>3, <1>4 DEF Retires, Tables, LiveLink
<1> QED  BY ZenonT(60), <1>2, <1>3, <1>4, <1>5, <1>6, <1>7, <1>8, Advance DEF Asking

LEMMA revoked_forKeeps == ASSUME IInv, NEW r \in Requests, revoked_for(r) PROVE IInv'
<1> DEFINE x == req[r]
           rows == x.spent \cup x.scan
           t == [x EXCEPT !.pc = "spent", !.spent = rows, !.scan = {}]
<1>1. x \in Call /\ RequestInv(r) /\ "spent" \in Pcs /\ {} \in SUBSET Ids /\ rows \in SUBSET Ids
  BY Here DEF Pcs, Call
<1>2. Put(r, t) /\ UNCHANGED Tables /\ x.kind \in Asking \cup {"reset"} /\ x.pc = "spending"
  BY DEF revoked_for, At, Tables, Kept
<1>3. /\ t \in Call /\ t.pc = "spent" /\ t.now = x.now /\ t.spent = rows
      /\ t.kind = x.kind /\ t.token = x.token /\ t.before = x.before /\ t.secret = x.secret /\ t.ok = x.ok
  <2> HIDE DEF x, rows
  <2> QED  BY Zenon, <1>1 DEF Call
<1> HIDE DEF t
<1>4. req'[r] = t /\ ~t.ok /\ Redeems(r) /\ Retires(r) /\ Cools(r)
  BY ZenonT(60), <1>1, <1>2, <1>3, Here DEF RequestInv, History
<1>5. Revokes(r)' /\ LogsOut(r)'
  BY Zenon, <1>2, <1>3, <1>4 DEF LogsOut, Revokes, Asking
<1>6. Redeems(r)'
  BY Zenon, <1>2, <1>3, <1>4 DEF Redeems, Redeeming, Tables
<1>7. Cools(r)'
  BY ZenonT(60), <1>2, <1>3, <1>4 DEF Cools, Tables, Precedes, Asking
<1>8. Retires(r)'
  BY <1>2, <1>3, <1>4 DEF Retires, Tables, LiveLink, Precedes
<1> QED  BY ZenonT(60), <1>2, <1>3, <1>4, <1>5, <1>6, <1>7, <1>8, Advance DEF Asking

LEMMA redeem_userKeeps == ASSUME IInv, NEW r \in Requests, redeem_user(r) PROVE IInv'
<1> DEFINE x == req[r]
           pc == IF x.kind = "reset" THEN "stamped" ELSE "saved"
           v == account.verified
           t == [x EXCEPT !.pc = pc, !.verified = v]
<1>1. x \in Call /\ RequestInv(r) /\ pc \in Pcs /\ v \in BOOLEAN
  BY Here, Zenon DEF Pcs, LinksTypeOK, TypeOK
<1>2. (Put(r, t) \/ Put(r, Ended(r, FALSE))) /\ UNCHANGED Tables /\ x.kind \in Following /\ x.pc = "found"
  BY Zenon DEF redeem_user, At, Tables, Kept
<1>3. /\ t \in Call /\ t.pc = pc /\ t.now = x.now
      /\ t.kind = x.kind /\ t.token = x.token /\ t.before = x.before /\ t.secret = x.secret /\ t.ok = x.ok
  <2> HIDE DEF x, pc, v
  <2> QED  BY Zenon, <1>1 DEF Call
<1>4. pc \in {"stamped", "saved"}
  OBVIOUS
<1> HIDE DEF t, pc
<1>5. CASE Put(r, t)
  <2>1. req'[r] = t /\ ~t.ok /\ Redeems(r)
    BY Zenon, <1>1, <1>2, <1>3, <1>5, Here DEF RequestInv, History
  <2>2. Revokes(r)' /\ LogsOut(r)' /\ Retires(r)' /\ Cools(r)'
    BY ZenonT(60), <1>2, <1>3, <1>4, <2>1 DEF Revokes, LogsOut, Retires, Cools, Asking, Following
  <2>3. Redeems(r)'
    BY <1>2, <1>3, <1>4, <2>1 DEF Redeems, Redeeming, Tables
  <2> QED  BY Zenon, <1>2, <1>3, <1>4, <1>5, <2>1, <2>2, <2>3, Advance
<1> QED  BY Zenon, <1>2, <1>5, GivesUp

LEMMA mark_usedKeeps == ASSUME IInv, NEW r \in Requests, mark_used(r) PROVE IInv'
<1> DEFINE x == req[r]
           rows == {x.token}
           t == [x EXCEPT !.pc = "marked", !.spent = rows]
<1>1. x \in Call /\ RequestInv(r) /\ "marked" \in Pcs /\ rows \in SUBSET Ids
  BY Here DEF Pcs, Call
<1>2. (Put(r, t) \/ Put(r, Ended(r, FALSE))) /\ UNCHANGED Tables /\ x.kind \in Following /\ x.pc = "saved"
  BY Zenon DEF mark_used, At, Tables, Kept
<1>3. /\ t \in Call /\ t.pc = "marked" /\ t.now = x.now /\ t.spent = rows
      /\ t.kind = x.kind /\ t.token = x.token /\ t.before = x.before /\ t.secret = x.secret /\ t.ok = x.ok
  <2> HIDE DEF x, rows
  <2> QED  BY Zenon, <1>1 DEF Call
<1> HIDE DEF t
<1>4. CASE Put(r, t)
  <2>1. ~t.ok /\ Revokes(r)' /\ LogsOut(r)' /\ Retires(r)' /\ Cools(r)'
    BY ZenonT(60), <1>1, <1>2, <1>3, <1>4, Here DEF Revokes, LogsOut, Retires, Cools, RequestInv, History,
       Asking, Following
  <2>2. Redeems(r)'
    BY ZenonT(60), <1>1, <1>2, <1>3, <1>4, <2>1, Here DEF Redeems, RequestInv, Tables
  <2> QED  BY Zenon, <1>2, <1>3, <1>4, <2>1, <2>2, Advance
<1> QED  BY ZenonT(60), <1>2, <1>4, GivesUp

LEMMA stamp_verifiedKeeps == ASSUME IInv, NEW r \in Requests, stamp_verified(r) PROVE IInv'
<1> DEFINE x == req[r]
           h == ~x.verified
           t == [x EXCEPT !.pc = "written", !.holds = h]
<1>1. x \in Call /\ RequestInv(r) /\ "written" \in Pcs /\ h \in BOOLEAN
  BY Here DEF Pcs
<1>2. Put(r, t) /\ UNCHANGED Tables /\ x.kind = "verify" /\ x.pc = "marked"
  BY DEF stamp_verified, At, Tables, Kept
<1>3. /\ t \in Call /\ t.pc = "written" /\ t.now = x.now /\ t.spent = x.spent
      /\ t.kind = x.kind /\ t.token = x.token /\ t.before = x.before /\ t.secret = x.secret /\ t.ok = x.ok
  <2> HIDE DEF x, h
  <2> QED  BY Zenon, <1>1 DEF Call
<1> HIDE DEF t
<1>4. ~t.ok /\ Revokes(r)' /\ LogsOut(r)' /\ Retires(r)' /\ Cools(r)'
  <2>1. ~x.ok
    BY Zenon, <1>1, <1>2 DEF RequestInv, History
  <2>2. req'[r] = t
    BY Zenon, <1>2, <1>3, Here
  <2> QED  BY Zenon, <1>2, <1>3, <2>1, <2>2 DEF Revokes, LogsOut, Retires, Cools, Asking
<1>5. Redeems(r)'
  BY ZenonT(60), <1>1, <1>2, <1>3, <1>4, Here DEF Redeems, RequestInv, Redeeming, Following, Tables
<1> QED  BY Zenon, <1>2, <1>3, <1>4, <1>5, Advance

-----------------------------------------------------------------------------
(* The steps that change a table.                                          *)

\* A login or a refresh hands out an access token.
LEMMA Issues ==
    ASSUME IInv, NEW r \in Requests, NEW t \in Call, Put(r, t), NEW root \in Ids,
           req[r].pc = "checked", t.pc = "written", t.kind \in {"login", "refresh"},
           t.kind = req[r].kind, t.token = req[r].token, t.before = req[r].before, t.secret = req[r].secret,
           t.ok = req[r].ok, t.now \in {req[r].now, clock},
           minted' = [minted EXCEPT ![r] = _create_token(req[r].secret, root)],
           UNCHANGED <<clock, account, sessions, links, mailed>>,
           account.secret \in req[r].before => req[r].secret = account.secret \/ ~Precedes(root, account.secret)
    PROVE  IInv'
<1> DEFINE c == _create_token(req[r].secret, root)
<1>0. /\ LinksTypeOK /\ RequestInv(r) /\ req'[r] = t /\ \A s \in Requests \ {r} : req'[s] = req[s]
      /\ r \in Ids /\ r # Earlier /\ req[r].before \subseteq Requests /\ ~t.ok
  BY Zenon, Here, Types DEF IInv, RequestInv, History
<1>1. clock \div TicksPerSecond \in Nat /\ (clock \div TicksPerSecond) * TicksPerSecond <= clock
      /\ (clock + AccessLife) \div TicksPerSecond \in Nat
  BY Zenon, <1>0, Types, Stamps
<1>2. clock \div TicksPerSecond \in Time
  BY Zenon, <1>0, Types, Stamps
<1>3. /\ c \in [iat : Time \cup {Never}, exp : Nat, secret : Ids, root : Ids]
      /\ c.iat = clock \div TicksPerSecond /\ c.secret = req[r].secret /\ c.root = root
  <2>1. req[r].secret \in Ids
    BY Zenon, Here DEF Call
  <2> QED  BY Zenon, <1>1, <1>2, <2>1 DEF _create_token
<1>4. minted' = [minted EXCEPT ![r] = c]
  BY Zenon
<1> HIDE DEF c
<1>5. minted'[r] = c /\ \A x \in Ids \ {r} : minted'[x] = minted[x]
  BY Zenon, <1>0, <1>4 DEF LinksTypeOK, TypeOK
<1>6. LinksTypeOK'
  BY ZenonT(60), <1>0, <1>3, <1>4, <1>5 DEF LinksTypeOK, TypeOK, Call, Put
<1>7. \A x \in Ids \ {r} : Fades(x)
  BY Zenon, <1>5 DEF Fades, Live, LiveLink
<1>8. \A s \in Requests \ {r} : RequestInv(s)'
  <2> SUFFICES ASSUME NEW s \in Requests \ {r} PROVE RequestInv(s)'
    BY Zenon
  <2>1. Steady(s)
    BY Zenon, <1>0, <1>7, ClockStays, Types DEF Steady
  <2> QED  BY Zenon, <2>1, OthersKeep
<1>9. PasswordInv'
  <2>1. \A x \in Ids : (x = Earlier \/ req[x].pc = "done") => Fades(x)
    BY Zenon, <1>0, <1>7
  <2>2. account.secret = Earlier =>
            /\ \A x \in Ids : sessions'[x].secret = Earlier /\ minted'[x].secret = Earlier
            /\ \A s \in Requests : req'[s].secret = Earlier
    <3> SUFFICES ASSUME account.secret = Earlier
                 PROVE  /\ \A x \in Ids : sessions'[x].secret = Earlier /\ minted'[x].secret = Earlier
                        /\ \A s \in Requests : req'[s].secret = Earlier
      OBVIOUS
    <3>1. /\ \A x \in Ids : sessions[x].secret = Earlier /\ minted[x].secret = Earlier
          /\ \A s \in Requests : req[s].secret = Earlier
      BY Zenon DEF IInv, PasswordInv
    <3>2. minted'[r].secret = Earlier /\ req'[r].secret = Earlier
      BY Zenon, <1>0, <1>3, <1>5, <3>1
    <3>3. \A x \in Ids \ {r} : minted'[x].secret = Earlier
      BY Zenon, <1>5, <3>1
    <3>4. \A s \in Requests \ {r} : req'[s].secret = Earlier
      BY Zenon, <1>0, <3>1
    <3> QED  BY ZenonT(60), <3>1, <3>2, <3>3, <3>4
  <2> QED  BY Zenon, <1>0, <2>1, <2>2, PasswordKeeps
<1>10. TokenInv'
  BY ZenonT(60), <1>1, <1>3, <1>5 DEF IInv, TokenInv, Expires
<1>11. \A p \in req[r].before : p \in Requests /\ p # r /\ p \in Ids /\ req'[p] = req[p] /\ req[p].pc = "done"
  BY Zenon, <1>0, Types DEF RequestInv, History
<1>12. History(r)'
  <2>1. t.now \in Nat /\ req[r].now \in Nat /\ req[r].now <= t.now /\ t.now <= clock
    BY Zenon, <1>0, Types, Between DEF RequestInv, History
  <2>2. req[r].now \div TicksPerSecond <= t.now \div TicksPerSecond /\ req[r].now \div TicksPerSecond \in Nat
        /\ t.now \div TicksPerSecond \in Nat
    BY Zenon, <2>1, DivMono, DivDef, ClockAssumption
  <2>3. \A x \in req[r].before \cup {Earlier} : minted[x].iat <= req[r].now \div TicksPerSecond /\ minted[x].iat \in Int
    BY Zenon, <1>0, <1>11, Types DEF RequestInv, History
  <2>4. \A x \in req[r].before \cup {Earlier} : minted'[x].iat <= t.now \div TicksPerSecond
    <3> TAKE x \in req[r].before \cup {Earlier}
    <3>1. minted'[x] = minted[x]
      BY ZenonT(60), <1>0, <1>5, <1>11, Types
    <3>2. /\ minted[x].iat \in Int /\ minted[x].iat <= req[r].now \div TicksPerSecond
          /\ req[r].now \div TicksPerSecond \in Int /\ t.now \div TicksPerSecond \in Int
          /\ req[r].now \div TicksPerSecond <= t.now \div TicksPerSecond
      BY <2>2, <2>3
    <3> QED  BY Zenon, <3>1, <3>2, Transitive
  <2>5. req'[r] = t /\ clock' = clock /\ ~t.ok /\ t.before = req[r].before
    BY Zenon, <1>0
  <2>6. \A p \in req[r].before : req'[p].pc = "done" /\ p # r
    BY Zenon, <1>11
  <2> QED  BY Zenon, <2>1, <2>4, <2>5, <2>6 DEF History
<1>13. Revokes(r)' /\ LogsOut(r)' /\ Knows(r)' /\ Redeems(r)' /\ Retires(r)' /\ Cools(r)'
  BY Zenon, <1>0 DEF Revokes, LogsOut, Knows, Redeems, Retires, Cools, Asking, Following
<1>14. Finds(r)'
  <2>1. Finds(r)
    BY Zenon, <1>0 DEF RequestInv
  <2>2. req'[r].before = req[r].before /\ req'[r].kind = req[r].kind /\ req'[r].token = req[r].token
    BY Zenon, <1>0
  <2> QED  BY Zenon, <1>11, <2>1, <2>2, FindsKeeps
<1>15. Sends(r)'
  BY Zenon, <1>0 DEF Sends, RequestInv, History
<1>16. Mints(r)'
  BY ZenonT(60), <1>0, <1>3, <1>5, <1>11 DEF Mints, Precedes
<1> QED  BY Zenon, <1>6, <1>8, <1>9, <1>10, <1>12, <1>13, <1>14, <1>15, <1>16 DEF IInv, RequestInv

LEMMA _issueKeeps == ASSUME IInv, NEW r \in Requests, _issue(r), UNCHANGED linkVars PROVE IInv'
<1> DEFINE x == req[r]
           t == [x EXCEPT !.pc = "written", !.now = clock]
<1>1. x \in Call /\ RequestInv(r) /\ clock \in Time /\ "written" \in Pcs /\ r \in Ids
  BY Here, Types DEF Pcs, IInv
<1>2. /\ Put(r, t) /\ UNCHANGED <<clock, account, sessions, links, mailed>> /\ x.kind = "login" /\ x.pc = "checked"
      /\ minted' = [minted EXCEPT ![r] = _create_token(x.secret, r)]
  BY DEF _issue, At, linkVars
<1>3. /\ t \in Call /\ t.pc = "written" /\ t.now = clock
      /\ t.kind = x.kind /\ t.token = x.token /\ t.before = x.before /\ t.secret = x.secret /\ t.ok = x.ok
  <2> HIDE DEF x
  <2> QED  BY Zenon, <1>1 DEF Call
<1> HIDE DEF t
<1>4. account.secret \in x.before => x.secret = account.secret
  BY Zenon, <1>1, <1>2 DEF RequestInv, Knows
<1> QED  BY Zenon, <1>1, <1>2, <1>3, <1>4, Issues

LEMMA refresh_userKeeps == ASSUME IInv, NEW r \in Requests, refresh_user(r), UNCHANGED linkVars PROVE IInv'
<1> DEFINE x == req[r]
           t == [x EXCEPT !.pc = "written"]
<1>1. x \in Call /\ RequestInv(r) /\ "written" \in Pcs /\ x.token \in Ids
  BY Here, Types DEF Pcs, IInv
<1>2. /\ UNCHANGED <<clock, account, sessions, links, mailed>> /\ x.kind = "refresh" /\ x.pc = "checked"
      /\ \/ Put(r, t) /\ minted' = [minted EXCEPT ![r] = _create_token(x.secret, x.token)]
         \/ Put(r, Refused) /\ UNCHANGED minted
  BY DEF refresh_user, At, linkVars
<1>3. /\ t \in Call /\ t.pc = "written" /\ t.now = x.now
      /\ t.kind = x.kind /\ t.token = x.token /\ t.before = x.before /\ t.secret = x.secret /\ t.ok = x.ok
  <2> HIDE DEF x
  <2> QED  BY Zenon, <1>1 DEF Call
<1> HIDE DEF t
<1>4. account.secret \in x.before => ~Precedes(x.token, account.secret)
  BY Zenon, <1>1, <1>2 DEF RequestInv, Knows
<1>5. CASE Put(r, t) /\ minted' = [minted EXCEPT ![r] = _create_token(x.secret, x.token)]
  BY ZenonT(60), <1>1, <1>2, <1>3, <1>4, <1>5, Issues
<1>6. CASE Put(r, Refused) /\ UNCHANGED minted
  BY <1>2, <1>6, Refuses DEF Tables
<1> QED  BY Zenon, <1>2, <1>5, <1>6

\* The mail leaves: it keeps the distance the request has been held to.
LEMMA _sendKeeps == ASSUME IInv, NEW r \in Requests, _send(r) PROVE IInv'
<1> DEFINE x == req[r]
           t == [x EXCEPT !.pc = "written"]
<1>1. x \in Call /\ RequestInv(r) /\ LinksTypeOK /\ "written" \in Pcs /\ r \in Ids /\ r # Earlier
      /\ clock \in Time /\ clock \in Nat /\ x.before \subseteq Requests
  BY Zenon, Here, Types DEF Pcs, IInv
<1>2. /\ UNCHANGED <<clock, account, sessions, minted, links>> /\ x.kind \in Asking /\ x.pc = "spent"
      /\ \/ Put(r, t) /\ mailed' = [mailed EXCEPT ![r] = clock]
         \/ Put(r, Ended(r, FALSE)) /\ UNCHANGED mailed
  BY Zenon DEF _send, At, Kept
<1>3. /\ t \in Call /\ t.pc = "written" /\ t.now = x.now /\ t.spent = x.spent
      /\ t.kind = x.kind /\ t.token = x.token /\ t.before = x.before /\ t.secret = x.secret /\ t.ok = x.ok
  <2> HIDE DEF x
  <2> QED  BY Zenon, <1>1 DEF Call
<1> HIDE DEF t
<1>4. CASE Put(r, t) /\ mailed' = [mailed EXCEPT ![r] = clock]
  <2>0. req'[r] = t /\ ~t.ok /\ \A s \in Requests \ {r} : req'[s] = req[s]
    BY Zenon, <1>1, <1>2, <1>3, <1>4, Here DEF RequestInv, History
  <2>1. mailed'[r] = clock /\ \A y \in Ids \ {r} : mailed'[y] = mailed[y]
    BY Zenon, <1>1, <1>4 DEF LinksTypeOK
  <2>2. LinksTypeOK'
    BY ZenonT(60), <1>1, <1>2, <1>3, <1>4 DEF LinksTypeOK, TypeOK, Call, Put
  <2>3. \A y \in Ids \ {r} : Fades(y)
    BY <1>2, <2>1 DEF Fades, Live, LiveLink
  <2>4. \A s \in Requests \ {r} : RequestInv(s)'
    <3> SUFFICES ASSUME NEW s \in Requests \ {r} PROVE RequestInv(s)'
      BY Zenon
    <3>1. Steady(s)
      BY ZenonT(60), <1>1, <1>2, <2>0, <2>3, ClockStays DEF Steady
    <3> QED  BY <3>1, OthersKeep
  <2>5. PasswordInv'
    <3>1. \A y \in Ids : (y = Earlier \/ req[y].pc = "done") => Fades(y)
      BY Zenon, <1>1, <1>2, <2>3
    <3>2. account.secret = Earlier =>
              /\ \A y \in Ids : sessions'[y].secret = Earlier /\ minted'[y].secret = Earlier
              /\ \A s \in Requests : req'[s].secret = Earlier
      BY ZenonT(60), <1>2, <1>3, <2>0 DEF IInv, PasswordInv
    <3> QED  BY <1>2, <2>0, <3>1, <3>2, PasswordKeeps
  <2>6. TokenInv'
    BY Zenon, <1>2 DEF IInv, TokenInv, Expires
  <2>7. \A p \in x.before : p \in Requests /\ p # r /\ req'[p] = req[p] /\ req[p].pc = "done"
    BY Zenon, <1>1, <2>0, Types DEF RequestInv, History
  <2>8. History(r)'
    <3>1. History(r)
      BY Zenon, <1>1 DEF RequestInv
    <3>2. /\ req'[r].before = x.before /\ req'[r].now = x.now /\ ~req'[r].ok /\ clock' = clock /\ minted' = minted
          /\ x.pc # "done"
      BY Zenon, <1>2, <1>3, <2>0
    <3> QED  BY Zenon, <2>7, <3>1, <3>2 DEF History
  <2>9. Revokes(r)' /\ LogsOut(r)' /\ Knows(r)' /\ Redeems(r)' /\ Finds(r)'
    BY Zenon, <1>2, <1>3, <2>0 DEF Revokes, LogsOut, Knows, Redeems, Finds, Asking, Following
  <2>10. Retires(r)' /\ Cools(r)'
    <3>1. Retires(r) /\ Cools(r)
      BY Zenon, <1>1 DEF RequestInv
    <3> QED  BY Zenon, <1>2, <1>3, <2>0, <3>1 DEF Retires, Cools, Precedes, LiveLink, Asking
  <2>11. Sends(r)'
    <3>1. Sends(r) /\ Cools(r) /\ ~x.ok
      BY <1>1, <1>2 DEF RequestInv, History
    <3> QED  BY ZenonT(60), <1>2, <1>3, <2>0, <2>1, <3>1 DEF Sends, Cools, Precedes
  <2>12. Mints(r)'
    BY Zenon, <1>1, <1>2, <1>3, <2>0, <2>7 DEF Mints, RequestInv, Precedes
  <2> QED  BY SMTT(60), <2>2, <2>4, <2>5, <2>6, <2>8, <2>9, <2>10, <2>11, <2>12 DEF IInv, RequestInv
<1>5. CASE Put(r, Ended(r, FALSE)) /\ UNCHANGED mailed
  BY Zenon, <1>2, <1>5, GivesUp DEF Tables
<1> QED  BY Zenon, <1>2, <1>4, <1>5

\* What a commit does to the rows.
LEMMA Publishes ==
    ASSUME LinksTypeOK, NEW r \in Requests, CommitLinks(r), ~LiveLink(r)
    PROVE  /\ LinksTypeOK'
           /\ \A x \in Ids : /\ x # r /\ Live(x)' => Live(x) /\ x \notin req[r].aim
                             /\ x # r => sessions'[x].secret = sessions[x].secret
           /\ sessions'[r].secret \in {sessions[r].secret, req[r].secret}
           /\ \A x \in Ids : x # r \/ req[r].kind \notin Asking =>
                /\ LiveLink(x)' => LiveLink(x) /\ x \notin req[r].spent
                /\ links'[x].state = "none" <=> links[x].state = "none"
                /\ links'[x].state = "gone" <=> links[x].state = "gone"
                /\ links'[x].purpose = links[x].purpose /\ links'[x].created = links[x].created
           /\ req[r].kind \in Asking => links'[r].state = "live" /\ links'[r].purpose = Purpose(req[r].kind)
           /\ IF req[r].kind \in {"change", "reset"}
              THEN account'.secret = r /\ account'.changed = req[r].now
              ELSE account'.secret = account.secret /\ account'.changed = account.changed
<1> DEFINE x == req[r]
           Sess == [state : {"none", "live", "revoked", "gone"}, secret : Ids, expires : Nat]
           Link == [state : {"none", "live", "used", "gone"},
                    purpose : {"none", "password-reset", "email-verification"}, created : Time]
           Acct == [secret : Ids, changed : Time \cup {Never}, verified : BOOLEAN, open : BOOLEAN]
<1>1. /\ x \in Call /\ x.secret \in Ids /\ x.now \in Time /\ r \in Ids /\ x.now + RefreshLife \in Nat
      /\ sessions \in [Ids -> Sess] /\ links \in [Ids -> Link] /\ account \in Acct
      /\ Purpose(x.kind) \in {"none", "password-reset", "email-verification"}
  <2>1. x \in Call /\ x.now \in Nat /\ r \in Ids
    BY Zenon, Types
  <2>2. RefreshLife \in Nat
    BY ClockAssumption
  <2> QED  BY <2>1, <2>2 DEF LinksTypeOK, TypeOK, Call, Purpose
<1>2. /\ sessions' = SessionsAfter(r) /\ account' = AccountAfter(r) /\ Put(r, Ended(r, TRUE))
      /\ UNCHANGED <<clock, minted, mailed>> /\ links' = LinksAfter(r)
  BY Zenon DEF CommitLinks, Commit
<1>3. req' \in [Requests -> Call]
  <2>1. Ended(r, TRUE) \in Call
    BY ZenonT(60), <1>1, EndedTyped
  <2> QED  BY Zenon, <1>2, <2>1 DEF Put, LinksTypeOK, TypeOK, Call
<1> HIDE DEF x
<1>4. ASSUME NEW y \in Ids
      PROVE  /\ sessions'[y] \in Sess
             /\ y # r => /\ Live(y)' => Live(y) /\ y \notin x.aim
                         /\ sessions'[y].secret = sessions[y].secret
             /\ sessions'[y].secret \in {sessions[y].secret, x.secret}
  <2> DEFINE q == sessions[y]
             new == [state |-> "live", secret |-> x.secret, expires |-> x.now + RefreshLife]
             out == [q EXCEPT !.state = "revoked"]
  <2>1. q \in Sess
    BY Zenon, <1>1
  <2>2. new \in Sess /\ new.secret = x.secret
    BY <1>1
  <2>3. out \in Sess /\ out.secret = q.secret /\ out.state = "revoked"
    <3> HIDE DEF q
    <3> QED  BY <2>1
  <2>4. sessions'[y] = CASE y = r /\ x.kind = "login" -> new
                         [] y \in x.aim /\ q.state = "live" -> out
                         [] OTHER -> q
    BY <1>2 DEF SessionsAfter, x
  <2>5. \/ y = r /\ sessions'[y] = new
        \/ sessions'[y] = out
        \/ sessions'[y] = q /\ ~(y \in x.aim /\ q.state = "live")
    <3> HIDE DEF new, out, q
    <3> QED  BY ZenonT(60), <2>4
  <2> HIDE DEF new, out
  <2> QED  BY <2>1, <2>2, <2>3, <2>5 DEF Live
<1>5. ASSUME NEW y \in Ids
      PROVE  /\ links'[y] \in Link
             /\ y # r \/ x.kind \notin Asking =>
                /\ LiveLink(y)' => LiveLink(y) /\ y \notin x.spent
                /\ links'[y].state = "none" <=> links[y].state = "none"
                /\ links'[y].state = "gone" <=> links[y].state = "gone"
                /\ links'[y].purpose = links[y].purpose /\ links'[y].created = links[y].created
             /\ y = r /\ x.kind \in Asking => links'[y].state = "live" /\ links'[y].purpose = Purpose(x.kind)
  <2> DEFINE q == links[y]
             new == [state |-> "live", purpose |-> Purpose(x.kind), created |-> x.now]
             out == [q EXCEPT !.state = "used"]
  <2>1. q \in Link
    BY Zenon, <1>1
  <2>2. new \in Link /\ new.state = "live" /\ new.purpose = Purpose(x.kind)
    BY <1>1
  <2>3. out \in Link /\ out.purpose = q.purpose /\ out.created = q.created /\ out.state = "used"
    <3> HIDE DEF q
    <3> QED  BY <2>1
  <2>4. links'[y] = CASE y = r /\ x.kind \in Asking -> new
                      [] y \in x.spent /\ q.state = "live" -> out
                      [] OTHER -> q
    BY Zenon, <1>2 DEF LinksAfter, x
  <2>5. \/ y = r /\ x.kind \in Asking /\ links'[y] = new
        \/ ~(y = r /\ x.kind \in Asking) /\ q.state = "live" /\ links'[y] = out
        \/ ~(y = r /\ x.kind \in Asking) /\ links'[y] = q /\ ~(y \in x.spent /\ q.state = "live")
    <3> HIDE DEF new, out, q
    <3>1. CASE y = r /\ x.kind \in Asking
      BY <2>4, <3>1 DEF LiveLink, q
    <3>2. CASE ~(y = r /\ x.kind \in Asking)
      BY ZenonT(60), <2>4, <3>2
    <3> QED  BY <3>1, <3>2
  <2> HIDE DEF new, out
  <2> QED  BY <2>1, <2>2, <2>3, <2>5 DEF LiveLink
<1>6. /\ account' \in Acct
      /\ IF x.kind \in {"change", "reset"}
         THEN account'.secret = r /\ account'.changed = x.now
         ELSE account'.secret = account.secret /\ account'.changed = account.changed
  <2> DEFINE a == account
             set == [a EXCEPT !.secret = r, !.changed = x.now]
             ver == [a EXCEPT !.verified = TRUE]
  <2>1. set \in Acct /\ set.secret = r /\ set.changed = x.now
    <3> HIDE DEF a
    <3> QED  BY Zenon, <1>1 DEF a
  <2>2. ver \in Acct /\ ver.secret = a.secret /\ ver.changed = a.changed
    <3> HIDE DEF a
    <3> QED  BY Zenon, <1>1 DEF a
  <2>3. \/ x.kind \in {"change", "reset"} /\ account' = set
        \/ x.kind \notin {"change", "reset"} /\ account' \in {ver, a}
    <3> HIDE DEF set, ver
    <3>1. account' = CASE x.kind \in {"change", "reset"} -> set
                       [] x.kind = "verify" /\ x.holds -> ver
                       [] OTHER -> a
      BY Zenon, <1>2 DEF AccountAfter, x, set, ver
    <3> QED  BY <3>1
  <2> HIDE DEF set, ver
  <2> QED  BY <1>1, <2>1, <2>2, <2>3
<1>7. LinksTypeOK'
  <2>1. sessions' \in [Ids -> Sess]
    BY Zenon, <1>2, <1>4 DEF SessionsAfter
  <2>2. links' \in [Ids -> Link]
    BY Zenon, <1>2, <1>5 DEF LinksAfter
  <2> QED  BY Zenon, <1>2, <1>3, <1>6, <2>1, <2>2 DEF LinksTypeOK, TypeOK, Call
<1> QED  BY ZenonT(60), <1>1, <1>4, <1>5, <1>6, <1>7 DEF x

\* The commit: what the request has its eyes on ends, and a change of the
\* password makes the request the password of the account.
LEMMA CommitLinksKeeps == ASSUME IInv, NEW r \in Requests, CommitLinks(r) PROVE IInv'
<1> DEFINE x == req[r]
           t == Ended(r, TRUE)
<1>1. /\ LinksTypeOK /\ RequestInv(r) /\ x \in Call /\ x.pc = "written" /\ r \in Ids /\ r # Earlier
      /\ UNCHANGED <<clock, minted, mailed>> /\ Put(r, t) /\ ~x.ok /\ links[r].state = "none" /\ ~LiveLink(r)
  BY Zenon, Here, Types DEF CommitLinks, Commit, IInv, RequestInv, History, Sends, LiveLink
<1>2. /\ t \in Call /\ t.pc = "done" /\ t.ok /\ t.kind = x.kind /\ t.before = x.before
      /\ (t.kind # "change" => t.token = x.token) /\ t.secret = Earlier /\ t.now = 0
  BY Zenon, <1>1, EndedTyped
<1> HIDE DEF t
<1>3. req'[r] = t /\ \A s \in Requests \ {r} : req'[s] = req[s]
  BY Zenon, <1>1, Here
<1>4. /\ \A p \in x.before : p \in Requests /\ p \in Ids /\ p # r /\ req'[p] = req[p] /\ req[p].pc = "done"
      /\ \A k \in Ids : Precedes(k, r)' <=> Precedes(k, r)
      /\ \A k \in Ids : Precedes(k, r) => k # r
  <2>1. \A p \in x.before : p \in Requests /\ p \in Ids /\ p # r /\ req'[p] = req[p] /\ req[p].pc = "done"
    BY Zenon, <1>1, <1>3, Types DEF RequestInv, History
  <2> QED  BY Zenon, <1>1, <1>2, <1>3, <2>1 DEF Precedes
<1> DEFINE Rows == /\ \A y \in Ids : /\ y # r /\ Live(y)' => Live(y) /\ y \notin x.aim
                                     /\ y # r => sessions'[y].secret = sessions[y].secret
                   /\ sessions'[r].secret \in {sessions[r].secret, x.secret}
           LinkRows == /\ \A y \in Ids : y # r \/ x.kind \notin Asking =>
                            /\ LiveLink(y)' => LiveLink(y) /\ y \notin x.spent
                            /\ links'[y].state = "none" <=> links[y].state = "none"
                            /\ links'[y].state = "gone" <=> links[y].state = "gone"
                            /\ links'[y].purpose = links[y].purpose /\ links'[y].created = links[y].created
                       /\ x.kind \in Asking => links'[r].state = "live" /\ links'[r].purpose = Purpose(x.kind)
           Password == IF x.kind \in {"change", "reset"}
                       THEN account'.secret = r /\ account'.changed = x.now
                       ELSE account'.secret = account.secret /\ account'.changed = account.changed
<1>5. LinksTypeOK' /\ Rows /\ LinkRows /\ Password
  BY Zenon, <1>1, Publishes
<1>6. \A y \in Ids \ {r} : Fades(y)
  BY Zenon, <1>1, <1>5 DEF Fades
<1>7. \A s \in Requests \ {r} : RequestInv(s)'
  <2> SUFFICES ASSUME NEW s \in Requests \ {r} PROVE RequestInv(s)'
    BY ZenonT(60)
  <2>1. clock \in Int /\ clock' \in Int /\ clock <= clock'
    BY SMTT(60), <1>1, Types
  <2>2. account'.secret = account.secret \/ account'.secret = r
    BY Zenon, <1>5
  <2>3. \A y \in Ids : (y \in {s, Earlier} \/ req[y].pc = "done") => Fades(y)
    BY ZenonT(60), <1>1, <1>6
  <2> HIDE DEF Rows, LinkRows, Password
  <2>4. Steady(s)
    BY <1>1, <1>3, <2>1, <2>2, <2>3 DEF Steady
  <2> QED  BY <2>4, OthersKeep
<1> HIDE DEF Rows, LinkRows, Password
<1>8. PasswordInv'
  <2>1. CASE x.kind \in {"change", "reset"}
    <3>1. account'.secret = r /\ account'.changed = x.now /\ x.now # Never
      BY <1>1, <1>5, <2>1, Types DEF Password, Never
    <3>2. ASSUME NEW k \in Ids, Precedes(k, r)
          PROVE  ~Live(k)' /\ minted'[k].iat <= x.now \div TicksPerSecond
      <4>1. k # r /\ k \in x.before \cup {Earlier}
        BY Zenon, <1>1, <1>4, <3>2 DEF Precedes
      <4>2. ~Live(k)'
        BY ZenonT(60), <1>1, <1>5, <2>1, <3>2, <4>1 DEF Rows, Revokes, RequestInv
      <4> QED  BY Zenon, <1>1, <4>1, <4>2 DEF RequestInv, History
    <3> QED  BY ZenonT(60), <1>1, <1>2, <1>3, <1>4, <3>1, <3>2 DEF PasswordInv
  <2>2. CASE x.kind \notin {"change", "reset"}
    <3>1. account'.secret = account.secret /\ account'.changed = account.changed
      BY Zenon, <1>5, <2>2 DEF Password
    <3>2. \A y \in Ids : (y = Earlier \/ req[y].pc = "done") => Fades(y)
      BY Zenon, <1>1, <1>6
    <3>3. account.secret = Earlier =>
              /\ \A y \in Ids : sessions'[y].secret = Earlier /\ minted'[y].secret = Earlier
              /\ \A s \in Requests : req'[s].secret = Earlier
      <4> SUFFICES ASSUME account.secret = Earlier
                   PROVE  /\ \A y \in Ids : sessions'[y].secret = Earlier /\ minted'[y].secret = Earlier
                          /\ \A s \in Requests : req'[s].secret = Earlier
        OBVIOUS
      <4>1. /\ \A y \in Ids : sessions[y].secret = Earlier /\ minted[y].secret = Earlier
            /\ \A s \in Requests : req[s].secret = Earlier
        BY Zenon DEF IInv, PasswordInv
      <4>2. sessions'[r].secret = Earlier /\ \A y \in Ids \ {r} : sessions'[y].secret = Earlier
        BY Zenon, <1>1, <1>5, <4>1 DEF Rows
      <4> QED  BY ZenonT(60), <1>1, <1>2, <1>3, <4>1, <4>2
    <3> QED  BY SMTT(60), <1>1, <1>3, <3>1, <3>2, <3>3, PasswordKeeps
  <2> QED  BY Zenon, <2>1, <2>2
<1>9. TokenInv'
  <2>1. \A l \in Ids : links'[l].state = "gone" => links[l].state = "gone" /\ links'[l].created = links[l].created
    BY Zenon, <1>1, <1>5 DEF LinkRows
  <2> QED  BY Zenon, <1>1, <2>1 DEF IInv, TokenInv, Expires
<1>10. History(r)' /\ Revokes(r)' /\ Knows(r)' /\ Cools(r)'
  <2>1. 0 <= clock
    BY SMTT(60), <1>1, Types
  <2>2. req'[r] = t /\ clock' = clock
    BY Zenon, <1>1, <1>2, <1>3
  <2>3. \A p \in t.before : req'[p].pc = "done" /\ p # r
    BY Zenon, <1>2, <1>4
  <2> QED  BY ZenonT(60), <1>2, <2>1, <2>2, <2>3 DEF History, Revokes, Knows, Cools
<1>11. LogsOut(r)'
  <2>1. LogsOut(r) /\ x.token \in Ids
    BY Zenon, <1>1, Types DEF RequestInv
  <2> QED  BY Zenon, <1>1, <1>2, <1>3, <1>4, <1>5, <2>1 DEF LogsOut, Rows
<1>12. Finds(r)'
  <2>1. Finds(r)
    BY Zenon, <1>1 DEF RequestInv
  <2> QED  BY ZenonT(60), <1>2, <1>3, <1>4, <2>1 DEF Finds, Following, Precedes
<1>13. Redeems(r)'
  <2>1. Redeems(r) /\ x.token \in Ids
    BY Zenon, <1>1, Types DEF RequestInv
  <2>2. req'[r] = t /\ (x.kind \in Following => x.kind \notin Asking /\ x.kind # "change")
    BY Zenon, <1>1, <1>2, <1>3 DEF Following, Asking
  <2>3. ASSUME x.kind \in Following
        PROVE  x.token \in x.spent /\ links[x.token].state # "none" /\ links'[x.token].state # "none" /\ ~LiveLink(x.token)'
    <3>1. x.token \in x.spent /\ links[x.token].state # "none"
      BY Zenon, <1>1, <2>1, <2>3 DEF Redeems, Redeeming
    <3>2. x.kind \notin Asking /\ x.token \in Ids
      BY Zenon, <2>1, <2>2, <2>3
    <3>3. \A k \in Ids : LiveLink(k)' => k \notin x.spent
      BY Zenon, <1>5, <3>2 DEF LinkRows
    <3>4. links'[x.token].state # "none" /\ req'[r].token = x.token
      BY ZenonT(60), <1>2, <1>5, <2>2, <2>3, <3>1, <3>2 DEF LinkRows
    <3> QED  BY Zenon, <3>1, <3>2, <3>3, <3>4
  <2> QED  BY Zenon, <1>2, <2>2, <2>3 DEF Redeems, Redeeming
<1>14. Retires(r)'
  <2>1. Retires(r)
    BY Zenon, <1>1 DEF RequestInv
  <2>2. req'[r].kind = x.kind /\ \A k \in Ids : Precedes(k, r)' => k # r /\ Precedes(k, r)
    BY Zenon, <1>1, <1>2, <1>3, <1>4 DEF Precedes
  <2>3. \A k \in Ids \ {r} : LiveLink(k)' => LiveLink(k) /\ k \notin x.spent /\ links'[k].purpose = links[k].purpose
    BY Zenon, <1>5 DEF LinkRows
  <2> QED  BY Zenon, <1>1, <1>2, <1>3, <2>1, <2>2, <2>3 DEF Retires
<1>15. Sends(r)'
  <2>1. Sends(r)
    BY Zenon, <1>1 DEF RequestInv
  <2> QED  BY ZenonT(60), <1>1, <1>2, <1>3, <1>4, <1>5, <2>1 DEF Sends, LinkRows
<1>16. Mints(r)'
  <2>1. Mints(r) /\ (account'.secret \in x.before => account'.secret = account.secret)
    BY Zenon, <1>1, <1>4, <1>5 DEF RequestInv, Password
  <2>2. req'[r] = t /\ minted' = minted
    BY Zenon, <1>1, <1>2, <1>3
  <2>3. req'[r].before = x.before /\ req'[r].pc = "done"
    BY Zenon, <1>2, <2>2
  <2>4. account'.secret \in x.before =>
            account'.secret = account.secret /\ req'[account.secret].before = req[account.secret].before
    BY Zenon, <1>4, <2>1
  <2> QED  BY SMTT(60), <1>1, <2>1, <2>2, <2>3, <2>4 DEF Mints, Precedes
<1> QED  BY SMTT(60), <1>5, <1>7, <1>8, <1>9, <1>10, <1>11, <1>12, <1>13, <1>14, <1>15, <1>16 DEF IInv, RequestInv

-----------------------------------------------------------------------------
(* The steps of nobody's request.                                          *)

\* Rows fade and time passes.
LEMMA Passes ==
    ASSUME IInv, LinksTypeOK', TokenInv', UNCHANGED <<req, minted, mailed>>, clock <= clock',
           account'.secret = account.secret, account'.changed = account.changed,
           \A x \in Ids : Fades(x) /\ sessions'[x].secret = sessions[x].secret
    PROVE  IInv'
<1>1. clock \in Int /\ clock' \in Int
  BY Types DEF IInv, LinksTypeOK, TypeOK, Time
<1>2. \A s \in Requests : RequestInv(s)'
  <2> SUFFICES ASSUME NEW s \in Requests PROVE RequestInv(s)'
    BY Zenon
  <2>1. Steady(s)
    BY Zenon, <1>1 DEF Steady
  <2> QED  BY Zenon, <2>1, OthersKeep
<1>3. account.secret = Earlier =>
          /\ \A x \in Ids : sessions'[x].secret = Earlier /\ minted'[x].secret = Earlier
          /\ \A s \in Requests : req'[s].secret = Earlier
  BY Zenon DEF IInv, PasswordInv
<1>4. PasswordInv'
  BY Zenon, <1>3, PasswordKeeps
<1> QED  BY ZenonT(60), <1>2, <1>4 DEF IInv

LEMMA AccountKeeps ==
    ASSUME IInv, (Close /\ UNCHANGED linkVars) \/ verify_email
    PROVE  IInv'
<1> DEFINE a == account
           shut == [a EXCEPT !.open = FALSE]
           ver == [a EXCEPT !.verified = TRUE]
           Acct == [secret : Ids, changed : Time \cup {Never}, verified : BOOLEAN, open : BOOLEAN]
<1>1. LinksTypeOK /\ a \in Acct /\ clock \in Nat
  BY Zenon, Types DEF IInv, LinksTypeOK, TypeOK
<1>2. UNCHANGED <<clock, sessions, minted, req, links, mailed>> /\ account' \in {shut, ver}
  BY DEF Close, verify_email, linkVars
<1>3. \A b \in {shut, ver} : b \in Acct /\ b.secret = a.secret /\ b.changed = a.changed
  <2> HIDE DEF a
  <2> QED  BY Zenon, <1>1
<1> HIDE DEF shut, ver
<1>4. account' \in Acct /\ account'.secret = account.secret /\ account'.changed = account.changed
  BY Zenon, <1>2, <1>3
<1>5. LinksTypeOK'
  BY ZenonT(60), <1>1, <1>2, <1>4 DEF LinksTypeOK, TypeOK
<1>6. TokenInv' /\ clock <= clock' /\ \A x \in Ids : Fades(x) /\ sessions'[x].secret = sessions[x].secret
  BY <1>1, <1>2 DEF IInv, TokenInv, Expires, Fades, Live, LiveLink
<1> QED  BY Zenon, <1>2, <1>4, <1>5, <1>6, Passes

LEMMA TickKeeps == ASSUME IInv, Tick, UNCHANGED linkVars PROVE IInv'
<1>1. LinksTypeOK /\ clock \in Nat /\ clock' = clock + 1 /\ UNCHANGED <<account, sessions, minted, req, links, mailed>>
  BY Zenon, Types DEF IInv, Tick, linkVars
<1>2. clock' \in Time
  BY <1>1, ClockAssumption DEF Tick, Time
<1>3. LinksTypeOK'
  BY Zenon, <1>1, <1>2 DEF LinksTypeOK, TypeOK
<1>4. TokenInv'
  <2>1. TicksPerSecond \in Nat /\ LinkLife \in Nat
    BY Zenon, ClockAssumption, CooldownAssumption
  <2>2. \A x \in Ids : minted[x].iat * TicksPerSecond \in Int /\ Expires(x) \in Int
    BY <1>1, <2>1, Types DEF Expires
  <2> QED  BY <1>1, <2>2 DEF IInv, TokenInv, Expires
<1>5. \A x \in Ids : Fades(x) /\ sessions'[x].secret = sessions[x].secret
  BY Zenon, <1>1 DEF Fades, Live, LiveLink
<1> QED  BY <1>1, <1>3, <1>4, <1>5, Passes

LEMMA delete_expiredKeeps == ASSUME IInv, delete_expired, UNCHANGED linkVars PROVE IInv'
<1> DEFINE Sess == [state : {"none", "live", "revoked", "gone"}, secret : Ids, expires : Nat]
<1>1. LinksTypeOK /\ clock \in Nat /\ UNCHANGED <<clock, account, minted, req, links, mailed>>
  BY Zenon, Types DEF IInv, delete_expired, linkVars
<1>2. ASSUME NEW y \in Ids
      PROVE  sessions'[y] \in Sess /\ (Live(y)' => Live(y)) /\ sessions'[y].secret = sessions[y].secret
  <2> DEFINE q == sessions[y]
             out == [q EXCEPT !.state = "gone"]
  <2>1. q \in Sess
    BY <1>1 DEF LinksTypeOK, TypeOK
  <2>2. out \in Sess /\ out.secret = q.secret /\ out.state = "gone"
    <3> HIDE DEF q
    <3> QED  BY <2>1
  <2>3. sessions'[y] \in {q, out}
    BY Zenon DEF delete_expired
  <2> HIDE DEF out
  <2> QED  BY ZenonT(60), <2>1, <2>2, <2>3 DEF Live
<1>3. LinksTypeOK'
  <2>1. sessions' \in [Ids -> Sess]
    BY ZenonT(60), <1>2 DEF delete_expired
  <2> QED  BY <1>1, <2>1 DEF LinksTypeOK, TypeOK
<1>4. TokenInv' /\ clock <= clock' /\ \A x \in Ids : Fades(x)
  BY <1>1, <1>2 DEF IInv, TokenInv, Expires, Fades, LiveLink
<1> QED  BY SMTT(60), <1>1, <1>2, <1>3, <1>4, Passes

LEMMA delete_expired_linksKeeps == ASSUME IInv, delete_expired_links PROVE IInv'
<1> DEFINE Link == [state : {"none", "live", "used", "gone"},
                    purpose : {"none", "password-reset", "email-verification"}, created : Time]
<1>1. LinksTypeOK /\ clock \in Nat /\ UNCHANGED <<clock, account, sessions, minted, req, mailed>>
  BY Zenon, Types DEF IInv, delete_expired_links
<1>2. ASSUME NEW y \in Ids
      PROVE  /\ links'[y] \in Link /\ (LiveLink(y)' => LiveLink(y))
             /\ links'[y].purpose = links[y].purpose /\ links'[y].created = links[y].created
             /\ links'[y].state = "none" <=> links[y].state = "none"
             /\ links'[y].state = "gone" => links[y].state = "gone" \/ Expires(y) < clock
  <2> DEFINE q == links[y]
             out == [q EXCEPT !.state = "gone"]
  <2>1. q \in Link
    BY <1>1 DEF LinksTypeOK
  <2>2. out \in Link /\ out.purpose = q.purpose /\ out.created = q.created /\ out.state = "gone"
    <3> HIDE DEF q
    <3> QED  BY <2>1
  <2>3. \/ links'[y] = q
        \/ links'[y] = out /\ q.state \in {"live", "used"} /\ Expires(y) < clock
    BY Zenon DEF delete_expired_links
  <2> HIDE DEF out
  <2> QED  BY Zenon, <2>1, <2>2, <2>3 DEF LiveLink
<1>3. LinksTypeOK'
  <2>1. links' \in [Ids -> Link]
    BY Zenon, <1>2 DEF delete_expired_links
  <2> QED  BY <1>1, <2>1 DEF LinksTypeOK, TypeOK
<1>4. TokenInv'
  BY Zenon, <1>1, <1>2 DEF IInv, TokenInv, Expires
<1>5. clock <= clock' /\ \A x \in Ids : Fades(x) /\ sessions'[x].secret = sessions[x].secret
  BY <1>1, <1>2 DEF Fades, Live
<1> QED  BY Zenon, <1>1, <1>3, <1>4, <1>5, Passes

-----------------------------------------------------------------------------
(* The theorems.                                                           *)

LEMMA Starting == LinksInit => IInv
<1> SUFFICES ASSUME LinksInit PROVE IInv
  BY Zenon
<1>0. /\ 0 \in Time /\ AccessLife \in Nat /\ TicksPerSecond \in Nat \ {0} /\ RefreshLife \in Nat
      /\ AccessLife \div TicksPerSecond \in Nat /\ 0 \div TicksPerSecond = 0 /\ Earlier \notin Requests
  BY ClockAssumption, RequestsAssumption, DivDef DEF Time
<1>1. /\ clock = 0 /\ req = [r \in Requests |-> Idle]
      /\ account \in [secret : {Earlier}, changed : {Never}, verified : BOOLEAN, open : {TRUE}]
      /\ sessions = [i \in Ids |-> IF i = Earlier
                                   THEN [state |-> "live", secret |-> Earlier, expires |-> RefreshLife]
                                   ELSE NoSession]
      /\ minted = [i \in Ids |-> IF i = Earlier
                                 THEN [iat |-> 0, exp |-> AccessLife \div TicksPerSecond,
                                       secret |-> Earlier, root |-> Earlier]
                                 ELSE NoToken]
      /\ mailed = [i \in Ids |-> IF i = Earlier THEN 0 ELSE Never]
  BY Zenon DEF LinksInit, SessionsInit
<1> DEFINE Link == [state : {"none", "live", "used", "gone"},
                    purpose : {"none", "password-reset", "email-verification"}, created : Time]
<1>2. /\ links \in [Ids -> Link]
      /\ \A i \in Ids : links[i].state \in {"none", "live"} /\ (i # Earlier => links[i].state = "none")
  <2>1. PICK first \in [state : {"live"}, purpose : {Purpose(k) : k \in Kinds \cap Following}, created : {0}]
                        \cup {NoLink} : links = [i \in Ids |-> IF i = Earlier THEN first ELSE NoLink]
    BY SMTT(60) DEF LinksInit
  <2>2. NoLink \in Link /\ NoLink.state = "none"
    BY <1>0 DEF NoLink
  <2>3. first \in Link /\ first.state \in {"none", "live"}
    BY Zenon, <1>0, <2>1, <2>2 DEF Purpose
  <2> QED  BY Zenon, <2>1, <2>2, <2>3
<1>3. LinksTypeOK
  <2>1. Earlier \in Ids /\ Idle \in Call
    BY IdleTyped DEF Ids
  <2>2. account \in [secret : Ids, changed : Time \cup {Never}, verified : BOOLEAN, open : BOOLEAN]
    BY <1>1, <2>1, Zenon
  <2>3. sessions \in [Ids -> [state : {"none", "live", "revoked", "gone"}, secret : Ids, expires : Nat]]
    BY Zenon, <1>0, <1>1, <2>1 DEF NoSession
  <2>4. minted \in [Ids -> [iat : Time \cup {Never}, exp : Nat, secret : Ids, root : Ids]]
    BY Zenon, <1>0, <1>1, <2>1 DEF NoToken
  <2> QED  BY ZenonT(60), <1>0, <1>1, <1>2, <2>1, <2>2, <2>3, <2>4 DEF LinksTypeOK, TypeOK, Call
<1>4. \A t \in Ids : /\ minted[t].secret = Earlier /\ sessions[t].secret = Earlier
                     /\ minted[t].iat \in {0, Never} /\ (t # Earlier => minted[t].iat = Never)
  BY ZenonT(60), <1>1 DEF NoToken, NoSession
<1>5. \A r \in Requests : req[r] = Idle /\ links[r].state = "none" /\ mailed[r] = Never /\ r \in Ids /\ r # Earlier
  BY <1>0, <1>1, <1>2 DEF Ids
<1>6. PasswordInv
  BY ZenonT(60), <1>0, <1>1, <1>4, <1>5, IdleTyped DEF PasswordInv
<1>7. TokenInv
  BY <1>0, <1>1, <1>2, <1>4 DEF TokenInv, Never
<1>8. ASSUME NEW r \in Requests PROVE RequestInv(r)
  <2>1. /\ req[r].kind = "none" /\ req[r].pc = "idle" /\ req[r].before = {} /\ ~req[r].ok /\ req[r].now = 0
        /\ minted[Earlier].iat = 0 /\ minted[r].iat = Never /\ links[r].state = "none" /\ mailed[r] = Never
    BY ZenonT(60), <1>1, <1>4, <1>5 DEF Idle, Ids
  <2>2. History(r)
    BY SMTT(60), <1>0, <1>1, <2>1 DEF History
  <2> QED  BY Zenon, <2>1, <2>2 DEF RequestInv, Revokes, LogsOut, Knows, Finds, Redeems, Retires, Cools, Sends, Mints,
                             Asking, Following
<1> QED  BY <1>3, <1>6, <1>7, <1>8 DEF IInv

\* Every step of the specification keeps the invariant.
LEMMA Stepping == IInv /\ [LinksNext]_allVars => IInv'
<1> SUFFICES ASSUME IInv, [LinksNext]_allVars PROVE IInv'
  BY Zenon
<1>1. ASSUME NEW r \in Requests, LinkStep(r) PROVE IInv'
  BY ZenonT(60), <1>1, request_resetKeeps, request_verificationKeeps, _sent_recentlyKeeps, revoke_all_forKeeps,
     revoked_forKeeps, _sendKeeps, redeem_userKeeps, mark_usedKeeps, stamp_verifiedKeeps, redeemKeeps
     DEF LinkStep
<1>2. ASSUME NEW r \in Requests, SessionStep(r), UNCHANGED linkVars PROVE IInv'
  BY ZenonT(60), <1>2, authenticateKeeps, _issueKeeps, refreshKeeps, refresh_userKeeps, logoutKeeps,
     change_passwordKeeps,
     change_stampKeeps, saveKeeps, revoke_all_for_userKeeps, revokedKeeps, RollbackKeeps DEF SessionStep
<1>3. CASE UNCHANGED allVars
  <2>1. UNCHANGED <<clock, account, sessions, minted, req, links, mailed>> /\ LinksTypeOK /\ clock \in Nat
    BY Zenon, <1>3, Types DEF allVars, IInv
  <2>2. LinksTypeOK'
    BY Zenon, <2>1 DEF LinksTypeOK, TypeOK
  <2>3. TokenInv' /\ clock <= clock'
    BY SMTT(60), <2>1 DEF IInv, TokenInv, Expires
  <2>4. \A x \in Ids : Fades(x) /\ sessions'[x].secret = sessions[x].secret
    BY <2>1 DEF Fades, Live, LiveLink
  <2> QED  BY Zenon, <2>1, <2>2, <2>3, <2>4, Passes
<1> QED  BY SMTT(60), <1>1, <1>2, <1>3, CommitLinksKeeps, AccountKeeps, TickKeeps, delete_expiredKeeps,
            delete_expired_linksKeeps DEF LinksNext

\* IInv holds in every reachable state of the requests of AuthService,
\* EmailVerificationService and PasswordResetService.
THEOREM LinksInvariant == LinksSpec => []IInv
BY Starting, Stepping, PTL DEF LinksSpec

\* Every reachable state of an account, its sessions and its links is well
\* typed, whatever its requests do.
THEOREM LinksTyped == LinksSpec => []LinksTypeOK
<1>1. IInv => LinksTypeOK
  BY DEF IInv
<1> QED  BY <1>1, LinksInvariant, PTL

\* A password change ends every refresh token of the requests before it
\* (revoke_all_for_user), however many requests there are.
THEOREM OldSessionsEndHolds == LinksSpec => []OldSessionsEnd
<1>1. IInv => OldSessionsEnd
  BY DEF IInv, PasswordInv, OldSessionsEnd, LinksTypeOK, TypeOK, Ids
<1> QED  BY <1>1, LinksInvariant, PTL

\* get_actor accepts an access token of an older password only within the
\* second of the change or through a race with it.
THEOREM OldTokensEndHolds == LinksSpec => []OldTokensEnd
<1>1. ASSUME IInv, NEW t \in Ids, get_actor(t), minted[t].secret # account.secret
      PROVE  \/ minted[t].iat = account.changed \div TicksPerSecond
             \/ ~Precedes(t, account.secret) /\ ~Precedes(account.secret, t)
             \/ ~Precedes(minted[t].root, account.secret)
  <2>1. account.secret \in Requests /\ minted[t].iat # Never /\ account.changed # Never /\ LinksTypeOK
    BY ZenonT(60), <1>1, Types DEF IInv, PasswordInv, Ids, get_actor, decode_access_token
  <2>2. minted[t].iat \in Int /\ account.changed \div TicksPerSecond \in Int
    BY <2>1, Types, DivDef, ClockAssumption DEF LinksTypeOK, TypeOK, Time
  <2>3. ~(account.changed \div TicksPerSecond > minted[t].iat)
    BY ZenonT(60), <1>1, <2>1 DEF get_actor, _password_moved_after
  <2>4. CASE Precedes(t, account.secret)
    BY SMTT(60), <1>1, <2>1, <2>2, <2>3, <2>4 DEF IInv, PasswordInv
  <2>5. CASE Precedes(account.secret, t)
    <3>1. t \in Requests /\ account.secret \in req[t].before
      BY Zenon, <2>1, <2>5, Types DEF Precedes, Ids
    <3> QED  BY Zenon, <1>1, <2>1, <3>1 DEF IInv, RequestInv, Mints
  <2> QED  BY Zenon, <2>4, <2>5
<1>2. IInv => OldTokensEnd
  BY Zenon, <1>1 DEF OldTokensEnd
<1> QED  BY <1>2, LinksInvariant, PTL

\* After a logout, refresh turns that refresh token away for good.
THEOREM LogoutIsFinalHolds == LinksSpec => []LogoutIsFinal
<1>1. IInv => LogoutIsFinal
  BY Zenon, RequestsAssumption DEF IInv, RequestInv, Finds, LogoutIsFinal, Precedes
<1> QED  BY <1>1, LinksInvariant, PTL

\* A link that was redeemed is redeemed by no later request (mark_used,
\* get_active).
THEOREM RedeemedOnceHolds == LinksSpec => []RedeemedOnce
<1>1. IInv => RedeemedOnce
  BY Zenon, RequestsAssumption DEF IInv, RequestInv, Finds, RedeemedOnce, Precedes
<1> QED  BY <1>1, LinksInvariant, PTL

\* Asking for a link (revoke_all_for) and a reset leave no live link of
\* before, for any number of requests.
THEOREM OneLiveLinkHolds == LinksSpec => []OneLiveLink
<1>1. ASSUME IInv, NEW k \in Ids, NEW l \in Ids, k # l, LiveLink(k), LiveLink(l), links[k].purpose = links[l].purpose
      PROVE  ~Precedes(k, l)
  <2>1. CASE l = Earlier
    BY Zenon, <1>1, <2>1 DEF Precedes
  <2>2. CASE l \in Requests
    <3>1. Sends(l) /\ Retires(l)
      BY Zenon, <1>1, <2>2 DEF IInv, RequestInv
    <3> QED  BY Zenon, <1>1, <3>1 DEF Sends, Retires, LiveLink
  <2> QED  BY <2>1, <2>2 DEF Ids
<1>2. ASSUME IInv, NEW l \in Ids, NEW r \in Requests, LiveLink(l), links[l].purpose = "password-reset",
             req[r].kind = "reset", req[r].ok
      PROVE  ~Precedes(l, r)
  BY Zenon, <1>2 DEF IInv, RequestInv, Retires, Purpose
<1>3. IInv => OneLiveLink
  BY Zenon, <1>1, <1>2 DEF OneLiveLink
<1> QED  BY <1>3, LinksInvariant, PTL

\* No mail leaves sooner than the cooldown after a link of before
\* (_sent_recently), not even when the sweep deleted that link.
THEOREM MailKeepsItsDistanceHolds == LinksSpec => []MailKeepsItsDistance
<1>1. IInv => MailKeepsItsDistance
  BY DEF IInv, RequestInv, Sends, MailKeepsItsDistance
<1> QED  BY <1>1, LinksInvariant, PTL

=============================================================================
