# A TLA+ development for fastapi-template

This directory models the parts of the service whose correctness depends on the
order in which things happen: HTTP requests whose SQL statements interleave under
PostgreSQL's READ COMMITTED, transactions that commit after the answer has gone
out, files written next to rows, retries, timeouts, crashes, sweeps and migrations.
TLC checks the models on small instances; TLAPS proves the main invariants for every
value of the constants. Paths below are relative to the repository root.

## 1. The system

One FastAPI process (or several replicas of it) over one PostgreSQL database and
one storage directory. A request passes the middleware, opens one `AsyncSession`
through `get_session` (`app/db/session.py`), runs a service and is answered; the
session commits when the dependency is left, which the framework does *after* the
answer was sent. Nothing else is shared between requests: every interaction is
through rows, locks and files.

| Part | State | What makes it hard | Modules |
| --- | --- | --- | --- |
| Idempotency keys (`core/http/idempotency.py`, `services/idempotency_service.py`) | the row of (user, key): hash, created_at, stored answer | three transactions per request, a takeover timeout, crashes between commit and completion | `Idempotency`, `IdempotencyProofs` |
| Items (`services/item_service.py`, `repositories/item_repo.py`, `db/mixins.py`) | rows with owner, fields, version, deleted_at | lost updates, row locks, ETags sent before the commit | `ItemRows`, `VersionedStore`, `Items`, `ItemsProofs` |
| Attachments (`services/attachment_service.py`, `core/storage/local.py`) | rows, files, clean-up tasks | two systems without a common transaction | `Attachments`, `AttachmentsProofs` |
| Transactional hooks (`db/transactional_hooks.py`) | listeners on a session | savepoints fire the same events; removal is deferred | `TransactionalHooks`, `UnitOfWorkProofs` |
| Audit log (`core/audit/`) | pending events on a session, audit rows | several flushes and savepoints in one transaction, flushes that fail | `UnitOfWork` (extends the hooks), `UnitOfWorkProofs` |
| Sessions (`services/auth_service.py`, `core/security.py`, `api/deps.py`) | refresh tokens, password, password_changed_at | a login racing a password change, a comparison in whole seconds | `Sessions`, `LinksProofs` |
| Single-use tokens and mail (`services/single_use_tokens.py` and its users) | tokens with purpose, expiry, used_at | two redemptions or two issues at once, mail before commit | `Links` (extends `Sessions`), `LinksProofs` |
| Accounts, roles, impersonation (`services/user_service.py`, `services/role_service.py`, `core/authorization.py`, `api/deps.py`) | users, roles, user_roles, tokens | first registration, a role renamed or deleted while it is given, rights read earlier | `Authorization`, `Accounts`, `AccountsProofs` |
| Preferences (`services/preferences_service.py`) | one row an account | two first saves, two saves of one row | `Preferences` (extends `Accounts`), `AccountsProofs` |
| Jobs (`jobs/`, `core/jobs/scheduler.py`) | advisory locks, connections, tasks | replicas, a pool two connections deep, connections that are lost | `Jobs`, `JobsProofs` |
| Request log, pagination, body limit (`core/observability/request_logging.py`, `repositories/request_log_repo.py`, `schemas/pagination.py`, `core/http/body_limit.py`) | append-only rows, cursors | rows that commit out of order and are pruned under a reader | `RequestLog` (extends `Jobs`), `JobsProofs` |
| Migrations (`alembic/versions/`) | revision, schema, accounts and roles | 25 revisions, up and down, over rows of two releases | `Migrations` (extends `Authorization`), `MigrationsProofs` |

A module extends the one it is composed with, adds its own variables and takes the
other's steps into its next-state relation: a reset ends sessions (`Links`), a flush is
decided over by savepoints whose events the hooks hear (`UnitOfWork`), a borrowed
session saves preferences (`Preferences`), a prune deletes under a reader
(`RequestLog`), the migrations must end with the roles that the code seeds
(`Migrations`).

Everywhere one action is one SQL statement with the Python around it, or one step that
the event loop runs to its next await. A row that a request inserts is named by the
request, which makes keys, tokens and passwords members of a small set. `before`, in
the records of `Sessions` and `Accounts`, is the real-time order of the history: the
requests that were over when this one started. Properties use it to say *which* races
they except, instead of being silent about races. The operators that stand before an
action or a helper and are used nowhere (`LoadUnchecked` before `Load`) are the
plausible bugs `PROJECT.json` puts in its place, to show that the property notices.

## 2. Idempotency

`Idempotency.tla` follows `IdempotencyMiddleware.__call__` and `_run`,
`IdempotencyService` and its repository. `keys` is the table by its unique
(user_id, key); a request's `pc` is the statement it is about to send; `seen` is the
row its session loaded, `started` the `created_at` it will stamp. One action is one
statement with the Python behind it: `Get` (first SELECT and `_resolve`), `Insert` (the
savepoint), `Raced` (the second SELECT), `Restart` (takeover), `RouteAnswers`,
`RouteFails`, `CommitRoute` (the answer, the exception, the commit of `get_session`),
`RememberGet`/`Complete`, `ForgetGet`/`Release`, `StoreFails`, `Crash` and the sweep
`Prune`. `Retaken` writes the columns SQLAlchemy would send: those that differ from
the loaded row. `givenUp` is a history variable: how a claim on the key has been
given up (taken over, swept, or forgotten although its run committed).

Runs (`MCIdempotency`): `idempotency` checks the type invariant, `SoleHolderWhileHeld`,
`DoneOnceWhileHeld`, `ReplayIsCommitted`, `ReplayMatchesWhileHeld` and
`FinishedStaysFinished` with three requests, two bodies, a timeout of one tick and a
retention of two within four instants: enough for a takeover of a takeover and for a
sweep under a running request. `idempotency_ends` checks `EveryRequestEnds`.
`idempotency_done_twice` shows where README.md promises more than the code keeps: a
process that dies after the route committed leaves a claim whose takeover commits the
work again.

Proofs (`IdempotencyProofs`): the safety properties for all constants. The inductive
invariant adds to them: a request past its claim has arrived (`Arrived`) and works on the slot it claimed (`Attempting`), only committed runs reach
`complete` (`StoresAfterCommit`), while a key is held its row is owned by whoever holds
it (`Owned`) or by the run that committed (`CommittedOwns`), and stored answers are
committed ones (`AnswersCommitted`) for the row's body (`AnswersMatch`).

## 3. Items

`ItemRows.tla` holds the rows and what one operation makes of a row; `VersionedStore.tla`
is the promise: each write takes effect at one instant over the version its `If-Match`
named. `Items.tla` is the code: `Admit` (`get_actor`), `Create`, `Load` (`get_for_owner`
and `_at_version`), `LoadOwned` (`soft_delete_for_owner`), `Flush` (one UPDATE ...
WHERE version = loaded, lowest key first, waiting for a rival's row lock), `Respond`
(refresh and answer), `Commit`, `Abort`. `held` is what a transaction wrote and has
locked.

Runs (`MCItems`): `items` (two accounts, one item, three requests), `items_end` (one
account and two items, so that two closes lock two rows each: the refinement of
`VersionedStore` by `Items`, and liveness).

Proofs (`ItemsProofs`): type correctness, `OneWritePerVersion` and the refinement
`Spec => Store!Spec`, for all constants. The invariant says that a row a session has
written is still the row it loaded (`HeldRows`), no two sessions hold one row
(`Exclusive`), a version loaded and still current names an unchanged row
(`VersionNamesRow`), and a write that landed left a version beyond the one it named
(`LandedBeyond`). `EtagNamesOneContent` compares answers, which leave before the commit and
so describe rows that may never exist; `EtagInv` says what each answer is worth. What a
write told its client is what its commit is to write (`Announced`), an answer about a
committed row tells no version to come and at the current one the current row
(`ToldOfThePast`), and so any two agree (`ToldAlike`).

## 4. Transactional hooks and the audit trail

`TransactionalHooks.tla` is `run_after_outcome` on one session: `Register` puts the
pair of listeners on it, `Dispatch` is what `_on_commit` and `_on_rollback` do when
SQLAlchemy delivers an event, `RemoveListeners` is the callback `_deregister` leaves
on the loop. The session itself (`Begin`, `Savepoint`, `EndSavepoint`, `End`, `Close`)
is SQLAlchemy, modelled from how `get_session` and the services use it: a savepoint
delivers the same events as a transaction, with `in_nested_transaction()` true, and a
session that is closed with its transaction open delivers none.

`UnitOfWork.tla` puts a session's objects and the audit listeners on top: `stack` is the
database as committed, in the transaction and in each savepoint, with `told`, what a
reader who replays the audit entries in order knows of each row. `change`, `relate` and
`refuse_silent_bulk` are what services do, `flush` is `_collect`, the SQL and `_write`,
`Undo` is a rollback, that of a failing flush included, with `_discard`.

Run `unit_of_work`: a role, one membership and a row of an excluded table, over two
transactions with a savepoint and one hook. `TrailTellsAll` says that at every level the
entries explain exactly the rows; `FiresForItsOutcome` that no hook answers to a
savepoint or to a later transaction, `FiresOnceResolved` that each is called exactly once
when its session commits or rolls back.

Proofs (`UnitOfWorkProofs`): the three properties for any number of hooks, rows,
transactions and savepoints. For the hooks the invariant adds that the open transaction
is numbered (`Numbered`), that a hook listens until it is retired (`Registered`) and that
the hooks of the open transaction have not fired (`Waiting`); `HooksRefined` shows that a
step of the unit of work is one of the hooks or leaves them alone, which carries the two
properties over. `TrailTellsAll` is not inductive: a flush writes the entries of what it
collected, and must have collected all of it. `UnitInv` adds that every level of the stack
is one the trail tells exactly (`Exact`), that a link is there only with its owner
(`Whole`), and that no flush leaves entries pending for the next; `FlushTells` is then one
row's argument about `_collect` and what a reader makes of the entries.

## 5. Attachments

`Attachments.tla` follows `AttachmentService`, `LocalStorage` and the routes over two
stores without a common transaction: `rows` (committed) and `files`. A key is fresh, so
an attachment, its key and its file are named by the upload that made them. An upload
is `Open`, `Save` (the file is whole and its deletion on rollback registered), `Insert`,
then `Commit` or `Rollback`; a removal is `FindToRemove`, `Remove` (the DELETE, and the
file's deletion on commit registered), then the same ends; a download is
`FindToDownload` (200 is answered) and `Download` (the file is opened). `Commit` has
three outcomes: acknowledged; landed but unacknowledged, which `get_session` takes for a
failure; or the process dies behind it. `Vanish` is a crash, a cancelled task or a
ROLLBACK that raises. `DeleteQuietly` and `DeleteFails` are the clean-up task. What a
hook does when is taken from the module before: `hook` is the outcome it waits for.
`doubtful` and `stranded` are history: the keys whose COMMIT was not acknowledged, and
those whose deletion was lost with the process or to a failing disk.

Run `attachments` (`MCAttachments`): two items and three requests, enough for an upload
with two rival removals of it, or with a removal and a download, in any interleaving;
the invariants, and `OrphansCollected` under fairness.

Proofs (`AttachmentsProofs`): `RowHasFile`, `NoSilentOrphan` and `BrokenOnlyIfRemoved`
for any items and requests. The invariant says what a request has done by where it
stands (`Stages`), that rows and scheduled deletions belong to uploads that are over
(`Over`), that a request's target does too (`Targets`), and that a file about to be
deleted has no row unless its COMMIT was not acknowledged (`Doomed`).

## 6. Sessions and links

`Sessions.tla` is one account: the `users` row (`account`), the refresh token rows
(`sessions`), the access tokens handed out (`minted`) and the requests. One account is
enough because every statement names one user or one token. `authenticate`, `_issue`,
`refresh`, `refresh_user`, `logout`, `change_password`, `change_stamp`, `save`,
`revoke_all_for_user` and `revoked` are the statements of `AuthService`; `get_actor` is
what a request is admitted on; `delete_expired` is the sweep. Time has two resolutions:
instants, and whole seconds (`TicksPerSecond`), because a JWT's `iat` and `exp` are cut to
seconds and `_password_moved_after` cuts the stamp before it compares. A commit comes
after the answer and may fail (`Rollback`).

`Links.tla` composes it with the mailed links: `request_reset`, `request_verification`,
`_sent_recently`, `revoke_all_for`, `_send` (the mail leaves before the commit; one that
fails rolls the link back), `redeem`, `redeem_user`, `mark_used`, `stamp_verified`,
`verify_email` (the command line) and the sweep. A reset goes on with the `save` and
`revoke_all_for_user` of `Sessions`.

Run `links`: two requests out of eight kinds with four instants, two of them to a
second. `OldSessionsEnd`, `OldTokensEnd`, `LogoutIsFinal`, `RedeemedOnce`, `OneLiveLink`
and `MailKeepsItsDistance` each hold up to the race they name, and up to nothing else:
a login that ran at the same time as a password change may leave a live session; a token
minted in the very second of the change stays good; two requests that follow one link at
the same time both succeed, and two that ask for one at the same time leave two alive. Two
requests are enough for these: each property is about a pair. `LinkLife`, `Cooldown` and
`RefreshLife` are short against `MaxClock` so that expiry and the sweeps happen under a
running request.

Proofs (`LinksProofs`): the six properties and the types, for any number of requests and
any lives, cooldown and clock. All rest on one invariant, `IInv`, because a password change
reaches sessions, tokens and links at once. `RequestInv` says of each request what it has
its eyes on by where it stands: a change or a reset on every refresh token of before
(`Revokes`), a logout on its own (`LogsOut`), a login or refresh on the password it saw
(`Knows`), a redemption on its link (`Redeems`), an issue on the links it retires
(`Retires`) and on the distance it keeps (`Cools`, `Sends`); that no later request finds
what was ended (`Finds`); what a token says of its login (`Mints`); and `History`, that
what is `before` a request is over, with every token of it minted no later than the second
the request stamps. `PasswordInv` says what the present password has ended, `TokenInv` that
no token is from the future and no link is swept early. `OthersKeep` covers the requests
that do not step, whatever does; then there is a lemma for each statement. Assumed are
that the ids of new rows are not in use (`RequestsAssumption`), and that lives, cooldown and
clock are natural numbers (`ClockAssumption`, `CooldownAssumption`). `MaxOfTimes`, that the
latest of a set of instants is one of them, is the one place where an order is needed.

## 7. Accounts, roles, impersonation and preferences

`Authorization.tla` is `core/authorization.py` as operators. `Accounts.tla` has the tables
`roles`, `users` and `user_roles` (`member`), the impersonation tokens, and requests that
are admitted (`Admit`, or `Borrow` with a lent session), read, write and commit.
The waits are those PostgreSQL imposes: a row that a rival has written
(`RoleLocked`, `UserHeld`), a foreign key that shares a lock (`RoleShared`), a unique index
that waits for a rival's uncommitted entry (`EmailHeld`, `NameHeld`) and decides when it is
over (`EmailClash`). The commands `create_superuser`, `grant_role`, `seed` and `demo_seed`
write the same rows without a caller. `Preferences.tla` adds the preferences row:
loaded, then inserted or updated by the columns that differ from what was loaded.

Run `accounts`: two requests out of eighteen kinds, from an empty database, from one that
only has its roles, or from a deployment in use in which either account may be closed.
Two requests are the bound; four accounts, five roles and two addresses are what they can
name or make. `FirstIsSuperadmin` follows who runs the place, `AdministratorRoleStands`
and `NobodyDropsOwnRank` what becomes of the role, `OneOpenAccountPerEmail` the address
through registration, profile and closing, `BorrowedTouchesNothing` what a lent session
may not do, `RoleLeavesNobody` and `ClosedByTheirEquals` rights that were read earlier and
are used later, `SaveKeepsTheOthers` two saves of one row.

Proved in `AccountsProofs`: `OneAddressEach`, that is
`OneOpenAccountPerEmail` of the accounts with their preferences, for any number of requests
and addresses. It is not inductive: a request that has written an address and not committed
is not yet in the table. `EmailInv` adds that such an address is nobody else's (unless the
account it is for is closed), that no two of them are equal, and that an open account, and
one whose profile is being changed, is no request's still to create; otherwise a profile
change could name an account before it exists and so escape the comparison with open accounts. `QuietStep` covers every
step that writes no address, `ClaimStep` the write past the index, `Commits` the commit.
The assumption, `RequestsAssumption`, says that the id of a new row is not one of those
in use. Of `Authorization`, for any roles: `ToldIsAllowed`, the rights an account is
shown are those the routes grant it, and `RolesOnlyAdd`, a further role narrows nothing.

Also proved there, for any number of requests and addresses: all the other properties
of the run. The invariant, `RankInv`, says that there is one role of the administrators or nothing at all
(`Seeded`, `Bare`: a database is never caught with accounts and without that role), that an
open account exists and an account that does not has no role, that no two requests are about
to give one account one role, and of each request that it is `Sound`. What a request read
earlier and uses later is kept with the one exception there is: `Deletes` and `Closes` say that
whoever holds the role now was given it by a request that was not over when this one began
(`Later`), and `Registers` that an account that is there beside the first was created by such
a request (`First`). `Acts`, `Lent` and `StartsBare` say who can be making the call at all.
`QuietRank` covers every step that changes no table; the commit, which changes them all, is
taken apart by table (`CommitRoles`, `CommitUsers`, `CommitMembers`). `EmailsAssumption`
says that no address is the mark of an account that does not exist. The saves of the
preferences need `RowWritten`, what `RowAfter` makes of a row, column by column.

## 8. Jobs

`Jobs.tla` is the `Scheduler` of each replica with one task per job: `held_by_one_replica`
(try the advisory lock), `_delete_batch_before` and `_affected` (a statement's snapshot,
and what it still finds), `_drain`, `unlock`, `pool_timeout`, `run_once_failed`, and
`start`, `stop`, `crash`, `lose_connection`; `prune` is the operator's command, which takes
no lock. A run holds one connection for the lock while it asks for another, so `InUse`
counts both.

Run `jobs`: two replicas, the operator, two jobs and a pool of two, the smallest in which
two runs can each hold the connection the other wants; two rows in batches of one, so that
a drain loops; one fault anywhere. `SoleRunner`, `LockIsInUse`, `DrainedWhenDone`, and
`EveryRunEnds` under fairness.

Proofs (`JobsProofs`): type correctness, `LockIsInUse` and `SoleRunner` for any replicas,
jobs, pool, rows and faults. `SoleRunner` is not inductive: the invariant `LockInv` says that
the lock and the runs agree in both directions, a lock is held by a run that is going and has
its connection (`LockIsInUse`), and a run that works and has its connection holds the lock
(`RunnerHolds`). One lemma, `KeepsLock`, covers every step in which a run goes on or ends its
work; the others have a step each. `DrainedWhenDone` rests on `DrainInv`: tables are finite,
and a statement that did not fill its batch has doomed all that aged out (`DoomsAll`), which
rivals, who only take rows away, keep true while it waits for them. That `Oldest` with fewer
than n members is everything (`ShortBatchIsAll`) comes from the well-order of the ids.

## 9. Request log and pagination

`RequestLog.tla` extends `Jobs`, which prunes the log: `__call__` is the middleware with the
body limit behind it, `record` and `commit_record` the recorder's own transaction (the stamp
is its start, the id comes with the INSERT, so both orders differ from the order of commits),
`_persist` its failure; `first_page` and `next_page` are a reader with the filters of
`_where`, `cursor_condition` and `cursor_slice`. A page is the set of its rows: the order,
stamp before id, is total, so ORDER BY ... LIMIT n is the rows with fewer than n above them
(`Newest`), and the row a cursor is made from is the one with none below it (`Bottom`).

Run `request_log`: three requests, pages of one row, the operator's prune under the walk.
`WalkIsExact` is about the cursor, `ShownAsAsked` about the filters at the edges of their
ranges and the scope of the viewer. The replicas' scheduler is left to the run `jobs`.

Proofs (in `JobsProofs`, because the jobs take part): both properties for any requests, jobs,
rows and faults and any size of page. `LogInv` adds to the types that an id is dealt
once (`IdsDealt`) and that a row in the log is of a request that is over (`LogWritten`), so
that what an entry says does not change under the reader; and that the cursor parts the rows
(`Ready`): those shown are not below it, those that were there and have not been shown are.
`SliceFacts` is the argument about one page: without a next page it holds all that qualifies,
with one it ends with the cursor and what it leaves out is below. `PageStep` carries it from
page to page; a row that is committed late joins above or below the cursor and harms neither
half. Assumed are a page of at least one row and that the log is one of the tables the jobs
prune (`LogAssumption`), and that the outcomes are those of the schema and "no filter" is
nobody's id (`FilterAssumption`).

## 10. Migrations

`Migrations.tla` has the 25 revisions as the chain `Chain`: what each creates and drops, up
and down, and what some do to rows (`lower`, `roles_from_names`, `names_from_roles`, `rename`,
`one_role`, `grant`, `revoke`). `upgrade` and `downgrade` are one revision in one transaction,
refused as a whole if a constraint in force is violated. `earlier_release` and `this_release`
leave the rows that the service can leave at the revision it belongs to.

Run `migrations`: two accounts, two addresses in either spelling, three names a role may be
given (one too long for the column it comes back to). `SchemaFollowsRevision`,
`BaseRolesAsSeeded` (the grants, spread over six revisions, are those of `BASE_ROLES`),
`NobodyGainsRank` and `UpgradeRefusedForCause`.

All four are proved in `MigrationsProofs`, for any accounts, addresses and names of roles; the
25 revisions are the ones there are. For the schema, `Steps` lists what each revision creates
and drops, `CreatedOnce` and `DroppedWasThere` say that nothing is created twice and that what
is dropped was there, and from these `UpStep` and `DownStep` take `SchemaAt` one revision up or
down. What the code says in two places, the upgrade and the downgrade of a file, is compared
once in `DownUndoesUp`. For the rows the invariant, `MigInv`, has to say more than any of the
properties, since the fate of an account depends on where its role was kept at each revision
before: in `users.role` from the second to the eighth, in `users.role_id` at the ninth and
tenth, then in `user_roles` (`UsersAt`); what the first two roles are called and granted, the
gates applied so far counted in (`RolesAt`); and that the constraints hold (`Fits`, which
`FitsIsAllowed` shows to be `Allowed` under the schema of the revision). There is one lemma a
direction for each revision that touches rows (`Up2` to `DownGate`) and one for all those that
do not (`UpPlain`, `DownPlain`). The same lemmas give the two other results: `Up8` and `Up9` are
the only upgrades whose outcome the constraints may refuse, and say when; `AdminIn`, who is an
administrator, is equal on both sides of each upgrade, and of every downgrade but two: the
second, where the column goes, and the eleventh, which leaves an account one of its roles. `NamesAssumption` says that no address and no name of a role is the
mark of an absent one.

## 11. Known exceptions

What the models show to be possible, and the text that reads otherwise. The first is a run
of its own (`idempotency_done_twice`); for the others the property that holds names the
exception.

- A crash after the route committed makes the takeover do the work again (README.md:197
  "instead of doing the work twice"): `DoneOnceWhileHeld` holds while no claim was given up.
- Two retries that find one abandoned claim both run the route (README.md:199), for the same
  reason outside `SoleHolderWhileHeld`.
- A slow original completes a row that was taken over with another body (README.md:197),
  outside `ReplayMatchesWhileHeld`.
- An item inserted while its owner's account is being closed stays active (README.md:160).
- An update that changes no column sends no UPDATE and is answered with a rival's fields
  (README.md:189); `EtagNamesOneContent` still holds.
- A cancelled request closes its session without an event, and its hooks are not called
  (`app/db/transactional_hooks.py:9`): `FiresOnceResolved` speaks of sessions that commit or
  roll back, and `NoSilentOrphan` counts such a file as stranded.
- The comment at `app/services/auth_service.py:143` says that access tokens already minted keep
  working after a password change; `app/api/deps.py:208` refuses them, and `OldTokensEnd` says
  which are left.
- Two superadmins may take each other's role at once; nothing promises that one is left.

## 12. Fairness and bounds

Liveness assumes weak fairness of each request's own statements: the event loop
resumes every ready task and PostgreSQL answers every statement that is not waiting
for a lock. A run of a job is fair in the same sense, and the pool's checkout timeout
fires. Clients, crashes, aborts, failing stores, clocks and sweeps owe nothing. A
scheduled deletion is a task of the loop and is fair; its failure is a rival action that
owes nothing.

Bounds are the sets in the .cfg files, and `MaxClock` (the last instant), `MaxVersion` (the
highest version a client may name in `If-Match`), `MaxTx` and `MaxDepth` (the transactions and
the nested savepoints of one session), `MaxFaults` (faults in one behaviour), `MaxBytes` and
`Limit` (the body limit and the page). Symmetry is declared for requests and addresses, which
the specifications do not name, in runs without liveness. Deadlock is checked where the system
cannot stop by itself (`jobs`, `migrations`); elsewhere requests are finitely many and end.

## 13. Proved, and only model-checked

Proved by TLAPS for all constants: type correctness and the safety properties of `Idempotency`,
`Items` with its refinement of `VersionedStore`, `Attachments`, `TransactionalHooks` and
`UnitOfWork`, `Sessions` and `Links`, `Accounts` and `Preferences`, `Jobs` and `RequestLog`,
and `Migrations`; and the two laws of `Authorization`. The proofs use only the named
assumptions on the constants (distinct names, natural numbers); TLC evaluates them in the
runs. Where a run does not check `TypeOK` it is left to the proofs.

Only model-checked: liveness (the prover does not treat fairness).

## 14. Not modelled, and why

- Rate limits: the counting is the slowapi library's; the repository names the limits.
- Metrics, tracing, logging, error bodies, headers, CORS, translations, configuration and the
  OpenAPI surface: input and output without shared state.
- The text of mails and SMTP itself; encoding of tokens, cursors and passwords: they are
  inverted exactly or not at all, and enter as such (`verify_password`, `decode_access_token`).
- Redaction and truncation of values in the audit trail, file names and media types of
  attachments: formatting of data that no step depends on.
- Offset pages of items, accounts and roles: they promise nothing under concurrent change.
- The flags of a deployment and what a role's list of features adds: functions of the
  configuration, read only.
- The demo's items and the command line's parsing.

`PROJECT.json` lists every part with its sources, the hazards at their lines, the map
from definitions to the code, the runs with the mutants that break each property, and
the theorems.
