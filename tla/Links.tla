--------------------------------- MODULE Links ---------------------------------
(***************************************************************************)
(* The links an account is mailed, composed with its sessions:             *)
(* SingleUseTokenIssuer, EmailVerificationService, PasswordResetService,   *)
(* AccountMailer and the background task that mails a reset.               *)
(*                                                                         *)
(* Asking for a link ("forgot", "resend") looks at the latest one, retires *)
(* those not used, inserts a row and sends the mail, all before the        *)
(* commit.  Following a link ("reset", "verify") reads the row, then the   *)
(* account, then marks the row by its primary key.                         *)
(***************************************************************************)
EXTENDS Sessions, FiniteSetsExt

CONSTANTS
    LinkLife,    \* *_expire_hours / minutes, in instants
    Cooldown     \* mail_resend_cooldown_seconds, in instants

\* The row a cooldown looks for is not swept before the cooldown is over.
ASSUME CooldownAssumption == LinkLife \in Nat /\ Cooldown \in 0..LinkLife

VARIABLES
    links,    \* single_use_tokens, as committed
    mailed    \* when the mail of each request was delivered

linkVars == <<links, mailed>>
allVars == <<clock, account, sessions, minted, req, links, mailed>>

Asking == {"forgot", "resend"}
Following == {"reset", "verify"}
Purpose(kind) == IF kind \in {"forgot", "reset"} THEN "password-reset" ELSE "email-verification"

NoLink == [state |-> "none", purpose |-> "none", created |-> 0]

LinksTypeOK ==
    /\ TypeOK
    /\ links \in [Ids -> [state : {"none", "live", "used", "gone"},
                          purpose : {"none", "password-reset", "email-verification"}, created : Time]]
    /\ mailed \in [Ids -> Time \cup {Never}]

\* A link may be on its way from before.
LinksInit ==
    /\ SessionsInit
    /\ \E first \in [state : {"live"}, purpose : {Purpose(k) : k \in Kinds \cap Following}, created : {0}]
                    \cup {NoLink} :
        links = [i \in Ids |-> IF i = Earlier THEN first ELSE NoLink]
    /\ mailed = [i \in Ids |-> IF i = Earlier THEN 0 ELSE Never]

Kept(r) == UNCHANGED <<clock, account, sessions, minted, links>>

-----------------------------------------------------------------------------
Expires(l) == links[l].created + LinkLife
LiveLink(l) == links[l].state = "live"
LinksLocked(r, rows) == \E s \in Requests \ {r} : rows \cap req[s].spent # {}

\* SingleUseTokenRepository.get_active
get_active_link(l, purpose, now) == LiveLink(l) /\ links[l].purpose = purpose /\ Expires(l) > now

\* SingleUseTokenRepository.latest_for: the rows still in the table.
latest_for(purpose) == {links[l].created : l \in {i \in Ids : links[i].state \in {"live", "used"}
                                                               /\ links[i].purpose = purpose}}

\* issued_within, on the latest row
issued_within(purpose, now) == latest_for(purpose) # {} /\ now - Max(latest_for(purpose)) < Cooldown

\* send_password_reset, PasswordResetService.request: the address is looked up.
request_reset(r) ==
    /\ Starts(r, "forgot")
    /\ IF account.open
       THEN Put(r, [Opened("forgot", r) EXCEPT !.pc = "found"])
       ELSE Put(r, Refused)
    /\ UNCHANGED mailed /\ Kept(r)

\* resend_email_verification: the caller is admitted and not verified yet.
request_verification(r) ==
    /\ Starts(r, "resend")
    /\ \E t \in Ids :
        IF get_actor(t) /\ ~account.verified
        THEN Put(r, [Opened("resend", r) EXCEPT !.pc = "found"])
        ELSE Put(r, Refused)
    /\ UNCHANGED mailed /\ Kept(r)

NotRecently(r) ==
    /\ At(r, Asking, "found")
    /\ Put(r, [req[r] EXCEPT !.pc = "cool"])
    /\ UNCHANGED mailed /\ Kept(r)

\* SingleUseTokenIssuer._sent_recently: a link was sent, nothing is done.
_sent_recently(r) ==
    /\ At(r, Asking, "found")
    /\ IF issued_within(Purpose(req[r].kind), req[r].now)
       THEN Put(r, Ended(r, FALSE))
       ELSE Put(r, [req[r] EXCEPT !.pc = "cool"])
    /\ UNCHANGED mailed /\ Kept(r)

RetireNone(r) ==
    /\ At(r, Asking, "cool") \/ At(r, {"reset"}, "marked")
    /\ Put(r, [req[r] EXCEPT !.pc = "spending", !.scan = {}])
    /\ UNCHANGED mailed /\ Kept(r)

\* SingleUseTokenRepository.revoke_all_for: the unused rows of its snapshot.
revoke_all_for(r) ==
    /\ At(r, Asking, "cool") \/ At(r, {"reset"}, "marked")
    /\ Put(r, [req[r] EXCEPT !.pc = "spending",
                             !.scan = {l \in Ids : LiveLink(l) /\ links[l].purpose = Purpose(req[r].kind)}])
    /\ UNCHANGED mailed /\ Kept(r)

\* It goes through once no rival holds one of them.
revoked_for(r) ==
    /\ At(r, Asking \cup {"reset"}, "spending")
    /\ ~LinksLocked(r, req[r].scan)
    /\ Put(r, [req[r] EXCEPT !.pc = "spent", !.spent = req[r].spent \cup req[r].scan, !.scan = {}])
    /\ UNCHANGED mailed /\ Kept(r)

\* The INSERT, then AccountMailer._send: a mail that cannot be delivered
\* raises, and the link is rolled back with it.
_send(r) ==
    /\ At(r, Asking, "spent")
    /\ \/ Put(r, [req[r] EXCEPT !.pc = "written"]) /\ mailed' = [mailed EXCEPT ![r] = clock]
       \/ Put(r, Ended(r, FALSE)) /\ UNCHANGED mailed
    /\ Kept(r)

\* redeem: the row of the link that was followed.
redeem(r, kind) ==
    /\ Starts(r, kind)
    /\ \E l \in {i \in Ids : mailed[i] # Never} :
        IF get_active_link(l, Purpose(kind), clock)
        THEN Put(r, [Opened(kind, l) EXCEPT !.pc = "found"])
        ELSE Put(r, Refused)
    /\ UNCHANGED mailed /\ Kept(r)

\* Then its account.  A reset stamps the moment it started at; a
\* verification goes on to mark the link.
redeem_user(r) ==
    /\ At(r, Following, "found")
    /\ IF account.open
       THEN Put(r, [req[r] EXCEPT !.pc = IF req[r].kind = "reset" THEN "stamped" ELSE "saved",
                                  !.verified = account.verified])
       ELSE Put(r, Ended(r, FALSE))
    /\ UNCHANGED mailed /\ Kept(r)

MarkNothing(r) ==
    /\ At(r, Following, "saved")
    /\ Put(r, [req[r] EXCEPT !.pc = "marked"])
    /\ UNCHANGED mailed /\ Kept(r)

\* SingleUseTokenRepository.mark_used: UPDATE by primary key.  It waits for a
\* rival that marked the row, and marks it again; a row that was swept in
\* between matches nothing, which is an error.
mark_used(r) ==
    /\ At(r, Following, "saved")
    /\ ~LinksLocked(r, {req[r].token})
    /\ IF links[req[r].token].state = "gone"
       THEN Put(r, Ended(r, FALSE))
       ELSE Put(r, [req[r] EXCEPT !.pc = "marked", !.spent = {req[r].token}])
    /\ UNCHANGED mailed /\ Kept(r)

\* EmailVerificationService.confirm: email_verified_at, unless it was set.
stamp_verified(r) ==
    /\ At(r, {"verify"}, "marked")
    /\ req[r].verified \/ ~UserLocked(r)
    /\ Put(r, [req[r] EXCEPT !.pc = "written", !.holds = ~req[r].verified])
    /\ UNCHANGED mailed /\ Kept(r)

\* The operator's verify_email command, in a transaction of its own.
verify_email ==
    /\ account.open /\ ~account.verified
    /\ ~UserLocked(Earlier)
    /\ account' = [account EXCEPT !.verified = TRUE]
    /\ UNCHANGED <<clock, sessions, minted, req, links, mailed>>

-----------------------------------------------------------------------------
LinksAfter(r) ==
    [l \in Ids |->
        CASE l = r /\ req[r].kind \in Asking ->
                [state |-> "live", purpose |-> Purpose(req[r].kind), created |-> req[r].now]
          [] l \in req[r].spent /\ links[l].state = "live" -> [links[l] EXCEPT !.state = "used"]
          [] OTHER -> links[l]]

CommitLinks(r) == Commit(r) /\ links' = LinksAfter(r) /\ UNCHANGED mailed

\* SingleUseTokenRepository.delete_expired
delete_expired_links ==
    LET old == {l \in Ids : links[l].state \in {"live", "used"} /\ Expires(l) < clock} IN
    /\ old # {}
    /\ ~LinksLocked(Earlier, old)
    /\ links' = [l \in Ids |-> IF l \in old THEN [links[l] EXCEPT !.state = "gone"] ELSE links[l]]
    /\ UNCHANGED <<clock, account, sessions, minted, req, mailed>>

LinkStep(r) ==
    \/ request_reset(r) \/ request_verification(r) \/ _sent_recently(r) \/ revoke_all_for(r)
    \/ revoked_for(r) \/ _send(r) \/ redeem_user(r) \/ mark_used(r) \/ stamp_verified(r)
    \/ \E kind \in Following : redeem(r, kind)

LinksNext ==
    \/ \E r \in Requests : LinkStep(r) \/ CommitLinks(r)
    \/ (\E r \in Requests : SessionStep(r)) /\ UNCHANGED linkVars
    \/ (Close \/ delete_expired \/ Tick) /\ UNCHANGED linkVars
    \/ delete_expired_links \/ verify_email

LinksSpec == LinksInit /\ [][LinksNext]_allVars

-----------------------------------------------------------------------------
\* A link works once.  Two requests both succeed with it only if they ran at
\* the same time: redeem reads the row before mark_used writes it, and the
\* write does not ask whether it was used.
RedeemedOnce ==
    \A r, s \in Requests :
        /\ req[r].kind \in Following /\ req[r].ok
        /\ req[s].kind \in Following /\ req[s].ok
        /\ req[r].token = req[s].token
        => ~Precedes(r, s)

\* "A fresh token invalidates the ones before it": two links of one purpose
\* are alive together only if they were asked for at the same time.  A reset
\* leaves none alive that was sent before it.
OneLiveLink ==
    /\ \A k, l \in Ids :
        k # l /\ LiveLink(k) /\ LiveLink(l) /\ links[k].purpose = links[l].purpose => ~Precedes(k, l)
    /\ \A l \in Ids, r \in Requests :
        /\ LiveLink(l) /\ links[l].purpose = "password-reset"
        /\ req[r].kind = "reset" /\ req[r].ok
        => ~Precedes(l, r)

\* The cooldown bounds the mail an account gets: a mail whose request came
\* after a link was committed goes out at least the cooldown later than it.
MailKeepsItsDistance ==
    \A k \in Ids, l \in Requests :
        /\ links[k].state # "none" /\ mailed[l] # Never
        /\ links[k].purpose = Purpose(req[l].kind)
        /\ Precedes(k, l)
        => mailed[l] - links[k].created >= Cooldown

=============================================================================
