------------------------------ MODULE Preferences ------------------------------
(***************************************************************************)
(* The preferences of the accounts: PreferencesService, reached by the     *)
(* account itself, by whoever borrows its session, and by those who may    *)
(* set the features of others.                                             *)
(*                                                                         *)
(* The row is written on the first change.  Two fields stand for the five: *)
(* theme for those that null leaves alone, features for the one null sets. *)
(***************************************************************************)
EXTENDS Accounts

VARIABLES
    prefs,    \* user_preferences by account, as committed
    draft     \* what each request was sent, and the row it loaded

prefVars == <<prefs, draft>>
allVars == <<roles, users, member, tokens, req, prefs, draft>>

Fields == {"theme", "features"}
Saving == {"update_preferences", "update_features"}

\* The columns' defaults, which PreferencesService.get also answers.
Defaults == [stored |-> FALSE, theme |-> "system", features |-> "null"]
NoDraft == [sent |-> [f \in Fields |-> "unset"], loaded |-> Defaults]

Row == [stored : BOOLEAN, theme : {"system", "dark"}, features : {"null", "none"}]

PrefTypeOK ==
    /\ TypeOK
    /\ prefs \in [UserIds -> Row]
    /\ \A r \in Requests : draft[r].loaded \in Row
                           /\ draft[r].sent \in [Fields -> {"unset", "null", "dark", "none"}]

\* The bodies of the two routes; an unset field was not sent.
Bodies(kind) ==
    IF kind = "update_features" THEN [theme : {"unset"}, features : {"null", "none"}]
                                ELSE [theme : {"null", "dark"}, features : {"unset", "null", "none"}]

\* PreferencesService.update: what is left of the body, NULLABLE_FIELDS apart.
fields(r) == {f \in Fields : draft[r].sent[f] # "unset" /\ (draft[r].sent[f] # "null" \/ f = "features")}

\* PreferencesService._user, for the features of somebody.
_user(r) ==
    /\ At(r, {"update_features"}, "named")
    /\ IF Found(req[r].user) THEN Put(r, [req[r] EXCEPT !.pc = "free"]) ELSE Refuse(r)
    /\ Reads /\ UNCHANGED prefVars

\* PreferencesRepository.get_for_user
get_for_user(r) ==
    LET u == IF req[r].kind = "update_features" THEN req[r].user ELSE req[r].actor IN
    /\ At(r, {"update_preferences"}, "named") \/ At(r, {"update_features"}, "free")
    /\ \E sent \in Bodies(req[r].kind) : draft' = [draft EXCEPT ![r] = [sent |-> sent, loaded |-> prefs[u]]]
    /\ Put(r, [req[r] EXCEPT !.pc = "known", !.user = u])
    /\ Reads /\ UNCHANGED prefs

AllColumns(r) == Fields

\* The columns the statement writes: an INSERT those it was given, an UPDATE
\* those that differ from the row that was loaded.
Columns(r) ==
    {f \in fields(r) : draft[r].loaded.stored => draft[r].sent[f] # draft[r].loaded[f]}

Writes(r) == ~draft[r].loaded.stored \/ Columns(r) # {}

\* _insert or _save: it waits for a rival that wrote the row.  Of two first
\* saves the second breaks the unique user_id, which nobody catches.
save_preferences(r) ==
    /\ At(r, Saving, "known")
    /\ Writes(r) => ~\E s \in Writing(Saving) \ {r} : req[s].user = req[r].user /\ Writes(s)
    /\ IF ~draft[r].loaded.stored /\ prefs[req[r].user].stored
       THEN Refuse(r) /\ draft' = [draft EXCEPT ![r] = NoDraft]
       ELSE Put(r, [req[r] EXCEPT !.pc = "written"]) /\ UNCHANGED draft
    /\ Reads /\ UNCHANGED prefs

\* What the commit publishes.
RowAfter(r) ==
    LET row == prefs[req[r].user]
        Value(f) == CASE f \notin Columns(r) -> row[f]
                      [] f \in Columns(r) \cap fields(r) -> draft[r].sent[f]
                      [] OTHER -> draft[r].loaded[f] IN
    [stored |-> row.stored \/ Writes(r), theme |-> Value("theme"), features |-> Value("features")]

CommitPreferences(r) ==
    /\ Commit(r)
    /\ prefs' = IF req[r].kind \in Saving THEN [prefs EXCEPT ![req[r].user] = RowAfter(r)] ELSE prefs
    /\ draft' = [draft EXCEPT ![r] = NoDraft]

\* Member has saved before, Root has not.
PrefInit ==
    /\ Init
    /\ prefs = [u \in UserIds |-> [Defaults EXCEPT !.stored = u = Member /\ users[u] # NoUser]]
    /\ draft = [r \in Requests |-> NoDraft]

PrefNext ==
    \E r \in Requests :
        \/ Step(r) /\ UNCHANGED prefVars
        \/ _user(r) \/ get_for_user(r) \/ save_preferences(r) \/ CommitPreferences(r)

PrefSpec == PrefInit /\ [][PrefNext]_allVars

-----------------------------------------------------------------------------
\* A save changes the fields it was sent and no other, whatever was saved to
\* the same row since it was loaded: two requests that save different fields
\* at once both keep what they saved.
SaveKeepsTheOthers ==
    [][\A u \in UserIds, f \in Fields : prefs'[u][f] # prefs[u][f] =>
        \E r \in Requests : /\ req[r].pc = "written" /\ req'[r].pc = "done"
                             /\ req[r].user = u /\ f \in fields(r) /\ prefs'[u][f] = draft[r].sent[f]]_allVars

=============================================================================
