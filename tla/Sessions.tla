------------------------------- MODULE Sessions -------------------------------
(***************************************************************************)
(* The tokens of one account: AuthService, get_actor, the refresh token    *)
(* rows and the password that a login checks.                              *)
(*                                                                         *)
(* One account is enough: every statement names one user or one token, so  *)
(* requests of two accounts touch disjoint rows.  A request runs in one    *)
(* READ COMMITTED transaction.  It sees what is committed, its own writes  *)
(* are seen by nobody until get_session commits, which happens after the   *)
(* answer has left.  An UPDATE waits for a rival that wrote the row.       *)
(*                                                                         *)
(* A request makes at most one token of each sort, so a token is named by  *)
(* the request that made it; so is a password.  Earlier stands for what    *)
(* was there before.                                                       *)
(***************************************************************************)
EXTENDS Integers, FiniteSets

CONSTANTS
    Requests,          \* requests served
    Earlier,           \* the login and the password of before
    Kinds,             \* the endpoints that are called
    MaxClock,          \* bound: the last instant
    TicksPerSecond,    \* instants in a second; "iat" is a whole second
    AccessLife,        \* access_token_expire_minutes, in instants
    RefreshLife,       \* refresh_token_expire_days, in instants
    RequireVerified    \* require_verified_email

ASSUME RequestsAssumption == Earlier \notin Requests
ASSUME ClockAssumption == {MaxClock, AccessLife, RefreshLife} \subseteq Nat /\ TicksPerSecond \in Nat \ {0}

VARIABLES
    clock,      \* datetime.now
    account,    \* the users row, as committed
    sessions,   \* refresh_tokens, as committed
    minted,     \* access tokens handed out
    req         \* what each request is doing

Ids == Requests \cup {Earlier}
Time == 0..MaxClock
Never == -1

NoSession == [state |-> "none", secret |-> Earlier, expires |-> 0]
NoToken == [iat |-> Never, exp |-> 0, secret |-> Earlier, root |-> Earlier]

Idle == [pc |-> "idle", kind |-> "none", token |-> Earlier, now |-> 0, secret |-> Earlier,
         verified |-> FALSE, holds |-> FALSE, scan |-> {}, aim |-> {}, spent |-> {},
         ok |-> FALSE, before |-> {}]

Pcs == {"idle", "checked", "stamped", "saved", "marked", "spending", "spent", "revoking", "found",
        "cool", "written", "done"}

TypeOK ==
    /\ clock \in Time
    /\ account \in [secret : Ids, changed : Time \cup {Never}, verified : BOOLEAN, open : BOOLEAN]
    /\ sessions \in [Ids -> [state : {"none", "live", "revoked", "gone"}, secret : Ids, expires : Nat]]
    /\ minted \in [Ids -> [iat : Time \cup {Never}, exp : Nat, secret : Ids, root : Ids]]
    /\ req \in [Requests -> [pc : Pcs, kind : Kinds \cup {"none"}, token : Ids, now : Time, secret : Ids,
                             verified : BOOLEAN, holds : BOOLEAN, scan : SUBSET Ids, aim : SUBSET Ids,
                             spent : SUBSET Ids, ok : BOOLEAN, before : SUBSET Requests]]

\* The account logged in once, in the first second, and may have been verified.
SessionsInit ==
    /\ clock = 0
    /\ account \in [secret : {Earlier}, changed : {Never}, verified : BOOLEAN, open : {TRUE}]
    /\ sessions = [i \in Ids |-> IF i = Earlier
                                 THEN [state |-> "live", secret |-> Earlier, expires |-> RefreshLife]
                                 ELSE NoSession]
    /\ minted = [i \in Ids |-> IF i = Earlier
                               THEN [iat |-> 0, exp |-> AccessLife \div TicksPerSecond,
                                     secret |-> Earlier, root |-> Earlier]
                               ELSE NoToken]
    /\ req = [r \in Requests |-> Idle]

-----------------------------------------------------------------------------
Put(r, fields) == req' = [req EXCEPT ![r] = fields]
At(r, kinds, label) == req[r].kind \in kinds /\ req[r].pc = label

\* The request as it starts; before is the real-time order of the history.
Opened(kind, token) ==
    [Idle EXCEPT !.kind = kind, !.token = token, !.now = clock,
                 !.before = {s \in Requests : req[s].pc = "done" /\ req[s].kind # "none"}]

Starts(r, kind) == req[r].pc = "idle" /\ kind \in Kinds

\* Turned away before it did anything: it leaves no trace.
Refused == [Idle EXCEPT !.pc = "done"]

\* The session is closed; what the history keeps of the request.
Ended(r, ok) == [Idle EXCEPT !.pc = "done", !.ok = ok, !.kind = req[r].kind, !.before = req[r].before,
                             !.token = IF req[r].kind = "change" THEN Earlier ELSE req[r].token]

Precedes(r, s) == r = Earlier \/ (s # Earlier /\ r \in req[s].before)

Live(t) == sessions[t].state = "live"

\* hash_password and verify_password: a password matches its own hash only.
verify_password(secret, hashed) == secret = hashed

\* RefreshTokenRepository.get_active
get_active(t) == Live(t) /\ sessions[t].expires > clock

\* _create_token: the claims are cut to whole seconds when they are encoded.
_create_token(secret, root) ==
    [iat |-> clock \div TicksPerSecond, exp |-> (clock + AccessLife) \div TicksPerSecond,
     secret |-> secret, root |-> root]

\* decode_access_token: a token that was minted and has not expired.
decode_access_token(t) == minted[t].iat # Never /\ minted[t].exp * TicksPerSecond > clock

\* decode_refresh_token: "exp" is the whole second in which the row expires.
decode_refresh_token(t) == (sessions[t].expires \div TicksPerSecond) * TicksPerSecond > clock

NeverMoved(iat) == FALSE

\* _password_moved_after: the stamp, cut to its second, against "iat".
_password_moved_after(iat) ==
    account.changed # Never /\ account.changed \div TicksPerSecond > iat

\* get_actor through _load: the account is open and the token is no older
\* than its password.
get_actor(t) == decode_access_token(t) /\ account.open /\ ~_password_moved_after(minted[t].iat)

-----------------------------------------------------------------------------
\* AuthService.authenticate, as far as the checks.
authenticate(r) ==
    /\ Starts(r, "login")
    /\ \E typed \in Ids :
        IF account.open /\ verify_password(typed, account.secret) /\ (RequireVerified => account.verified)
        THEN Put(r, [Opened("login", r) EXCEPT !.pc = "checked", !.secret = account.secret])
        ELSE Put(r, Refused)
    /\ UNCHANGED <<clock, account, sessions, minted>>

\* AuthService._issue: both tokens, and the INSERT.
_issue(r) ==
    /\ At(r, {"login"}, "checked")
    /\ minted' = [minted EXCEPT ![r] = _create_token(req[r].secret, r)]
    /\ Put(r, [req[r] EXCEPT !.pc = "written", !.now = clock])
    /\ UNCHANGED <<clock, account, sessions>>

\* AuthService.refresh: the stored row is looked up by the token's digest.
refresh(r) ==
    /\ Starts(r, "refresh")
    /\ \E t \in Ids :
        IF decode_refresh_token(t) /\ get_active(t)
        THEN Put(r, [Opened("refresh", t) EXCEPT !.pc = "checked", !.secret = sessions[t].secret])
        ELSE Put(r, Refused)
    /\ UNCHANGED <<clock, account, sessions, minted>>

\* Then the account, and a new access token; the refresh token stays.
refresh_user(r) ==
    /\ At(r, {"refresh"}, "checked")
    /\ IF account.open
       THEN /\ minted' = [minted EXCEPT ![r] = _create_token(req[r].secret, req[r].token)]
            /\ Put(r, [req[r] EXCEPT !.pc = "written"])
       ELSE Put(r, Refused) /\ UNCHANGED minted
    /\ UNCHANGED <<clock, account, sessions>>

\* Row locks: what rivals have written and not committed.
UserLocked(r) == \E s \in Requests \ {r} : req[s].holds
SessionsLocked(r, rows) == \E s \in Requests \ {r} : rows \cap req[s].aim # {}

LogoutForgets(r) ==
    /\ Starts(r, "logout")
    /\ \E t \in Ids : Put(r, [Opened("logout", t) EXCEPT !.pc = "written"])
    /\ UNCHANGED <<clock, account, sessions, minted>>

\* AuthService.logout: one UPDATE by digest, of a row not revoked yet.
logout(r) ==
    /\ Starts(r, "logout")
    /\ \E t \in Ids :
        /\ ~SessionsLocked(r, {t})
        /\ Put(r, [Opened("logout", t) EXCEPT !.pc = "written", !.aim = IF Live(t) THEN {t} ELSE {}])
    /\ UNCHANGED <<clock, account, sessions, minted>>

\* AuthService.change_password: the caller is admitted by an access token,
\* types the current password, and the moment is taken.
change_password(r) ==
    /\ Starts(r, "change")
    /\ \E t \in Ids, typed \in Ids :
        IF get_actor(t) /\ verify_password(typed, account.secret)
        THEN Put(r, [Opened("change", t) EXCEPT !.pc = "checked"])
        ELSE Put(r, Refused)
    /\ UNCHANGED <<clock, account, sessions, minted>>

\* hash_password has run off the loop: password_changed_at = now.
change_stamp(r) ==
    /\ At(r, {"change"}, "checked")
    /\ Put(r, [req[r] EXCEPT !.pc = "stamped", !.now = clock])
    /\ UNCHANGED <<clock, account, sessions, minted>>

\* UserRepository.save: UPDATE users, which waits for a rival's.
save(r) ==
    /\ At(r, {"change", "reset"}, "stamped")
    /\ ~UserLocked(r)
    /\ Put(r, [req[r] EXCEPT !.pc = "saved", !.holds = TRUE])
    /\ UNCHANGED <<clock, account, sessions, minted>>

RevokeOwnOnly(r) ==
    /\ At(r, {"change"}, "saved") \/ At(r, {"reset"}, "spent")
    /\ Put(r, [req[r] EXCEPT !.pc = "revoking", !.scan = {t \in {minted[req[r].token].root} : Live(t)}])
    /\ UNCHANGED <<clock, account, sessions, minted>>

\* RefreshTokenRepository.revoke_all_for_user: the rows its snapshot shows.
revoke_all_for_user(r) ==
    /\ At(r, {"change"}, "saved") \/ At(r, {"reset"}, "spent")
    /\ Put(r, [req[r] EXCEPT !.pc = "revoking", !.scan = {t \in Ids : Live(t)}])
    /\ UNCHANGED <<clock, account, sessions, minted>>

\* The UPDATE goes through once no rival holds one of them.
revoked(r) ==
    /\ At(r, {"change", "reset"}, "revoking")
    /\ ~SessionsLocked(r, req[r].scan)
    /\ Put(r, [req[r] EXCEPT !.pc = "written", !.aim = req[r].scan, !.scan = {}])
    /\ UNCHANGED <<clock, account, sessions, minted>>

-----------------------------------------------------------------------------
\* What get_session's commit publishes of the request's writes.
SessionsAfter(r) ==
    [t \in Ids |->
        CASE t = r /\ req[r].kind = "login" ->
                [state |-> "live", secret |-> req[r].secret, expires |-> req[r].now + RefreshLife]
          [] t \in req[r].aim /\ sessions[t].state = "live" -> [sessions[t] EXCEPT !.state = "revoked"]
          [] OTHER -> sessions[t]]

AccountAfter(r) ==
    CASE req[r].kind \in {"change", "reset"} -> [account EXCEPT !.secret = r, !.changed = req[r].now]
      [] req[r].kind = "verify" /\ req[r].holds -> [account EXCEPT !.verified = TRUE]
      [] OTHER -> account

Commit(r) ==
    /\ req[r].pc = "written"
    /\ sessions' = SessionsAfter(r)
    /\ account' = AccountAfter(r)
    /\ Put(r, Ended(r, TRUE))
    /\ UNCHANGED <<clock, minted>>

\* The commit fails after the answer has left: the client holds tokens whose
\* rows do not exist.  A transaction lost earlier leaves nothing at all and is
\* left out: what it did was only to make others wait.
Rollback(r) ==
    /\ req[r].pc = "written"
    /\ Put(r, Ended(r, FALSE))
    /\ UNCHANGED <<clock, account, sessions, minted>>

\* UserService._close: the account is no longer found; its tokens are kept.
Close ==
    /\ account.open
    /\ \A r \in Requests : ~req[r].holds
    /\ account' = [account EXCEPT !.open = FALSE]
    /\ UNCHANGED <<clock, sessions, minted, req>>

\* RefreshTokenRepository.delete_expired, run by the expire_tokens job.
delete_expired ==
    /\ \E t \in Ids : sessions[t].state \in {"live", "revoked"} /\ sessions[t].expires <= clock
    /\ ~SessionsLocked(Earlier, {t \in Ids : sessions[t].expires <= clock})
    /\ sessions' = [t \in Ids |-> IF sessions[t].state \in {"live", "revoked"} /\ sessions[t].expires <= clock
                                  THEN [sessions[t] EXCEPT !.state = "gone"]
                                  ELSE sessions[t]]
    /\ UNCHANGED <<clock, account, minted, req>>

Tick ==
    /\ clock < MaxClock
    /\ clock' = clock + 1
    /\ UNCHANGED <<account, sessions, minted, req>>

SessionStep(r) ==
    \/ authenticate(r) \/ _issue(r) \/ refresh(r) \/ refresh_user(r) \/ logout(r)
    \/ change_password(r) \/ change_stamp(r) \/ save(r) \/ revoke_all_for_user(r) \/ revoked(r)
    \/ Rollback(r)

vars == <<clock, account, sessions, minted, req>>

Init == SessionsInit
Next == (\E r \in Requests : SessionStep(r) \/ Commit(r)) \/ Close \/ delete_expired \/ Tick
Spec == Init /\ [][Next]_vars

-----------------------------------------------------------------------------
\* A password change takes every refresh token of the old password with it.
\* Only a login that ran at the same time as the change may leave one alive:
\* it read the old password before the change committed, and its row was not
\* committed when revoke_all_for_user looked.
OldSessionsEnd ==
    \A t \in Ids :
        Live(t) /\ sessions[t].secret # account.secret => ~Precedes(t, account.secret)

\* Access tokens stop with the password too, up to the second: get_actor
\* accepts one that was minted under an older password only if it was minted
\* in the second of the change, or by a request that ran at the same time as
\* the change, or from a login that did (or that came later).
OldTokensEnd ==
    \A t \in Ids :
        get_actor(t) /\ minted[t].secret # account.secret =>
            \/ minted[t].iat = account.changed \div TicksPerSecond
            \/ ~Precedes(t, account.secret) /\ ~Precedes(account.secret, t)
            \/ ~Precedes(minted[t].root, account.secret)

\* A logout is final: no request that starts after it gets an access token
\* out of that refresh token.  A logout that overtakes the commit of its own
\* login finds no row, and is the exception.
LogoutIsFinal ==
    \A r, s \in Requests :
        /\ req[r].kind = "logout" /\ req[r].ok
        /\ req[s].kind = "refresh" /\ req[s].ok
        /\ req[r].token = req[s].token
        /\ Precedes(req[r].token, r)
        => ~Precedes(r, s)

=============================================================================
