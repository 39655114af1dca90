------------------------------ MODULE Idempotency ------------------------------
(***************************************************************************)
(* Idempotent writes: IdempotencyMiddleware (core/http/idempotency.py),    *)
(* IdempotencyService, its repository and DatabaseIdempotencyStore.        *)
(*                                                                         *)
(* A request that carries an Idempotency-Key claims the row of (user, key) *)
(* in a transaction of its own, runs the route in another one, and then    *)
(* completes or releases the row in a third.  Requests interleave at every *)
(* statement sent to PostgreSQL (READ COMMITTED), so one action is one     *)
(* statement with the Python that follows it; a flush and the commit right *)
(* behind it are one step, since the row lock or the unique index makes    *)
(* any rival wait for that commit.                                         *)
(***************************************************************************)
EXTENDS Naturals, FiniteSets

CONSTANTS
    Users,            \* accounts, the user_id of an Attempt
    Keys,             \* values of the Idempotency-Key header
    Bodies,           \* fingerprints of method, path and body
    Requests,         \* HTTP requests; a retry is another request
    InFlightTimeout,  \* idempotency_in_flight_timeout_seconds
    Retention,        \* idempotency_retention_hours, in the clock's unit
    MaxClock,         \* bound of the model: the last instant of the clock
    None

ASSUME TimesAssumption ==
    /\ InFlightTimeout \in Nat \ {0}
    /\ Retention \in Nat \ {0}
    /\ MaxClock \in Nat

ASSUME NoneAssumption ==
    /\ None \notin Requests
    /\ None \notin Bodies
    /\ None \notin Users \X Keys

VARIABLES
    clock,      \* the time both the database and the API read
    keys,       \* the table idempotency_keys, by its unique (user_id, key)
    pc,         \* where each request stands
    slot,       \* the (user_id, key) of its Attempt
    hash,       \* the fingerprint of its Attempt
    seen,       \* the row its session loaded with the last SELECT
    started,    \* the created_at it stamps on a row
    reply,      \* what the client was answered
    replayed,   \* the run whose stored answer it was given
    committed,  \* runs whose route transaction is committed
    givenUp     \* how the code has given up a claim on each key (history)

storeVars   == <<clock, keys>>
requestVars == <<slot, hash, seen, started>>
answerVars  == <<reply, replayed>>
vars == <<clock, keys, pc, slot, hash, seen, started, reply, replayed,
          committed, givenUp>>

Slots == Users \X Keys

\* A row is identified by the request that inserted it: a request inserts
\* at most one.  The stored answer is the run that produced it, and is None
\* while completed_at and status_code are null.
NoRow == [id |-> None, request_hash |-> None, created_at |-> 0, answer |-> None]

Row == [id : Requests \cup {None}, request_hash : Bodies \cup {None},
        created_at : Nat, answer : Requests \cup {None}]

Holding == {"route", "sent", "remember", "complete", "forget", "release"}
Pcs == Holding \cup {"idle", "insert", "raced", "restart", "done"}

Replies == {"none", "own", "replay", "mismatch", "in_flight", "refused", "failed"}
Causes == {"taken", "swept", "forgotten"}

TypeOK ==
    /\ clock \in Nat
    /\ keys \in [Slots -> Row]
    /\ pc \in [Requests -> Pcs]
    /\ slot \in [Requests -> Slots \cup {None}]
    /\ hash \in [Requests -> Bodies \cup {None}]
    /\ seen \in [Requests -> Row]
    /\ started \in [Requests -> Nat]
    /\ reply \in [Requests -> Replies]
    /\ replayed \in [Requests -> Requests \cup {None}]
    /\ committed \in SUBSET Requests
    /\ givenUp \in [Slots -> SUBSET Causes]

Init ==
    /\ clock = 0
    /\ keys = [s \in Slots |-> NoRow]
    /\ pc = [r \in Requests |-> "idle"]
    /\ slot = [r \in Requests |-> None]
    /\ hash = [r \in Requests |-> None]
    /\ seen = [r \in Requests |-> NoRow]
    /\ started = [r \in Requests |-> 0]
    /\ reply = [r \in Requests |-> "none"]
    /\ replayed = [r \in Requests |-> None]
    /\ committed = {}
    /\ givenUp = [s \in Slots |-> {}]

Goto(r, label) == pc' = [pc EXCEPT ![r] = label]

\* The request is over: its sessions are closed and its locals are gone.
Leave(r) ==
    /\ Goto(r, "done")
    /\ seen' = [seen EXCEPT ![r] = NoRow]
    /\ started' = [started EXCEPT ![r] = 0]

Answer(r, kind) == reply' = [reply EXCEPT ![r] = kind]
GiveUp(s, cause) == givenUp' = [givenUp EXCEPT ![s] = @ \cup {cause}]
Present(row) == row.id # None
Running(row) == row.answer = None
Mine(r) == keys[slot[r]]

-----------------------------------------------------------------------------
(* The middleware before a claim.                                          *)

\* No key, another method, no bearer token or a borrowed session: the app
\* runs without a claim, and its transaction commits or does not.
Bypass(r) ==
    /\ pc[r] = "idle"
    /\ Goto(r, "done")
    /\ \/ Answer(r, "own") /\ committed' = committed \cup {r}
       \/ Answer(r, "refused") /\ UNCHANGED committed
    /\ UNCHANGED <<storeVars, requestVars, replayed, givenUp>>

\* A key that will not be stored (400) or a body over the limit (413).
RefuseEarly(r) ==
    /\ pc[r] = "idle"
    /\ Goto(r, "done")
    /\ Answer(r, "refused")
    /\ UNCHANGED <<storeVars, requestVars, replayed, committed, givenUp>>

-----------------------------------------------------------------------------
(* IdempotencyService.claim, one transaction.                              *)

Abandoned(row) == clock > row.created_at + InFlightTimeout

ResolveAnyBody(r, row, b) ==
    \/ /\ Running(row) /\ Abandoned(row)
       /\ seen' = [seen EXCEPT ![r] = row]
       /\ started' = [started EXCEPT ![r] = clock]
       /\ Goto(r, "restart")
       /\ UNCHANGED answerVars
    \/ /\ Running(row) /\ ~Abandoned(row)
       /\ Answer(r, "in_flight")
       /\ Leave(r)
       /\ UNCHANGED replayed
    \/ /\ ~Running(row)
       /\ Answer(r, "replay")
       /\ replayed' = [replayed EXCEPT ![r] = row.answer]
       /\ Leave(r)

\* _resolve, on the row just read: an abandoned claim is going to be taken
\* over, stamped with the time of this decision; otherwise the request is
\* answered 409 (another body), 409 (still running) or the stored answer.
Resolve(r, row, b) ==
    \/ /\ Running(row) /\ Abandoned(row)
       /\ seen' = [seen EXCEPT ![r] = row]
       /\ started' = [started EXCEPT ![r] = clock]
       /\ Goto(r, "restart")
       /\ UNCHANGED answerVars
    \/ /\ ~(Running(row) /\ Abandoned(row))
       /\ row.request_hash # b
       /\ Answer(r, "mismatch")
       /\ Leave(r)
       /\ UNCHANGED replayed
    \/ /\ Running(row) /\ ~Abandoned(row)
       /\ row.request_hash = b
       /\ Answer(r, "in_flight")
       /\ Leave(r)
       /\ UNCHANGED replayed
    \/ /\ ~Running(row)
       /\ row.request_hash = b
       /\ Answer(r, "replay")
       /\ replayed' = [replayed EXCEPT ![r] = row.answer]
       /\ Leave(r)

\* The first SELECT opens the transaction, whose start is what the server
\* default of created_at will read.
Get(r, s, b) ==
    /\ pc[r] = "idle"
    /\ slot' = [slot EXCEPT ![r] = s]
    /\ hash' = [hash EXCEPT ![r] = b]
    /\ \/ Present(keys[s]) /\ Resolve(r, keys[s], b)
       \/ /\ ~Present(keys[s])
          /\ started' = [started EXCEPT ![r] = clock]
          /\ Goto(r, "insert")
          /\ UNCHANGED <<seen, answerVars>>
    /\ UNCHANGED <<storeVars, committed, givenUp>>

NewRow(r) == [id |-> r, request_hash |-> hash[r], created_at |-> started[r],
              answer |-> None]

InsertOverwrites(r) ==
    /\ pc[r] = "insert"
    /\ keys' = [keys EXCEPT ![slot[r]] = NewRow(r)]
    /\ Goto(r, "route")
    /\ UNCHANGED <<clock, requestVars, answerVars, committed, givenUp>>

\* The INSERT inside a savepoint: the unique constraint lets one rival win.
Insert(r) ==
    /\ pc[r] = "insert"
    /\ \/ /\ ~Present(Mine(r))
          /\ keys' = [keys EXCEPT ![slot[r]] = NewRow(r)]
          /\ Goto(r, "route")
       \/ Present(Mine(r)) /\ Goto(r, "raced") /\ UNCHANGED keys
    /\ UNCHANGED <<clock, requestVars, answerVars, committed, givenUp>>

RacedWaits(r) ==
    /\ pc[r] = "raced"
    /\ Present(Mine(r))
    /\ Resolve(r, Mine(r), hash[r])
    /\ UNCHANGED <<storeVars, slot, hash, committed, givenUp>>

\* The insert lost: look again.  The winner may be gone already.
Raced(r) ==
    /\ pc[r] = "raced"
    /\ \/ Present(Mine(r)) /\ Resolve(r, Mine(r), hash[r])
       \/ /\ ~Present(Mine(r))
          /\ Answer(r, "in_flight")
          /\ Leave(r)
          /\ UNCHANGED replayed
    /\ UNCHANGED <<storeVars, slot, hash, committed, givenUp>>

\* The columns restart writes on the row now in the table: those that differ
\* from the loaded row.  That is created_at always, request_hash if the body
\* differs, and never the answer columns, loaded as null and assigned null.
Retaken(row, loaded, b, now) ==
    [row EXCEPT !.request_hash = IF b = loaded.request_hash THEN @ ELSE b,
                !.created_at = now]

\* The UPDATE of restart, which names the row by its primary key.  A row that
\* is gone raises StaleDataError.
Restart(r) ==
    /\ pc[r] = "restart"
    /\ \/ /\ Mine(r).id = seen[r].id
          /\ keys' = [keys EXCEPT ![slot[r]] = Retaken(@, seen[r], hash[r], started[r])]
          /\ seen' = [seen EXCEPT ![r] = NoRow]
          /\ GiveUp(slot[r], "taken")
          /\ Goto(r, "route")
          /\ UNCHANGED <<started, reply>>
       \/ /\ Mine(r).id # seen[r].id
          /\ Answer(r, "failed")
          /\ Leave(r)
          /\ UNCHANGED <<keys, givenUp>>
    /\ UNCHANGED <<clock, slot, hash, replayed, committed>>

-----------------------------------------------------------------------------
(* _run: the route, then _remember or _forget.                             *)

\* The handler returned and its 2xx answer went out; get_session has not
\* committed yet (the framework leaves a yield dependency after the answer).
RouteAnswers(r) ==
    /\ pc[r] = "route"
    /\ Answer(r, "own")
    /\ Goto(r, "sent")
    /\ UNCHANGED <<storeVars, requestVars, replayed, committed, givenUp>>

\* A refusal becomes a 4xx answer, anything else an exception; get_session
\* rolls back, and both end in _forget.
RouteFails(r) ==
    /\ pc[r] = "route"
    /\ Answer(r, "refused")
    /\ Goto(r, "forget")
    /\ UNCHANGED <<storeVars, requestVars, replayed, committed, givenUp>>

RememberUncommitted(r) ==
    /\ pc[r] = "sent"
    /\ committed' \in {committed, committed \cup {r}}
    /\ \E next \in {"remember", "forget"} : Goto(r, next)
    /\ UNCHANGED <<storeVars, requestVars, answerVars, givenUp>>

\* get_session commits, and _run goes on with _remember, which forgets an
\* answer that is not storable (over 64 KiB, or not JSON).  A COMMIT that
\* raises goes to _forget, whether it failed or landed and lost its
\* acknowledgement with the connection.
CommitRoute(r) ==
    /\ pc[r] = "sent"
    /\ \/ /\ committed' = committed \cup {r}
          /\ \E next \in {"remember", "forget"} : Goto(r, next)
       \/ Goto(r, "forget") /\ UNCHANGED committed
    /\ UNCHANGED <<storeVars, requestVars, answerVars, givenUp>>

\* complete and release look the row up by (user, key) in a new session.
Lookup(r, from, to) ==
    /\ pc[r] = from
    /\ \/ /\ Present(Mine(r))
          /\ seen' = [seen EXCEPT ![r] = Mine(r)]
          /\ Goto(r, to)
          /\ UNCHANGED started
       \/ ~Present(Mine(r)) /\ Leave(r)
    /\ UNCHANGED <<storeVars, slot, hash, answerVars, committed, givenUp>>

RememberGet(r) == Lookup(r, "remember", "complete")
ForgetGet(r) == Lookup(r, "forget", "release")

\* status_code, response_body, content_type and completed_at, in one.
Finished(row, r) == [row EXCEPT !.answer = r]

CompleteForgets(r) ==
    /\ pc[r] = "complete"
    /\ keys' = IF Mine(r).id = seen[r].id
               THEN [keys EXCEPT ![slot[r]] = NoRow]
               ELSE keys
    /\ Leave(r)
    /\ UNCHANGED <<clock, slot, hash, answerVars, committed, givenUp>>

\* The UPDATE of complete; a row that is gone raises, which _remember
\* swallows.
Complete(r) ==
    /\ pc[r] = "complete"
    /\ keys' = IF Mine(r).id = seen[r].id
               THEN [keys EXCEPT ![slot[r]] = Finished(@, r)]
               ELSE keys
    /\ Leave(r)
    /\ UNCHANGED <<clock, slot, hash, answerVars, committed, givenUp>>

\* The DELETE of release.  Forgetting a run that did commit gives its key up.
Release(r) ==
    /\ pc[r] = "release"
    /\ IF Mine(r).id = seen[r].id
       THEN /\ keys' = [keys EXCEPT ![slot[r]] = NoRow]
            /\ IF r \in committed THEN GiveUp(slot[r], "forgotten") ELSE UNCHANGED givenUp
       ELSE UNCHANGED <<keys, givenUp>>
    /\ Leave(r)
    /\ UNCHANGED <<clock, slot, hash, answerVars, committed>>

\* The store is unreachable: _remember and _forget log it and return.
StoreFails(r) ==
    /\ pc[r] \in {"remember", "complete", "forget", "release"}
    /\ Leave(r)
    /\ UNCHANGED <<storeVars, slot, hash, answerVars, committed, givenUp>>

\* The process dies, or the task is cancelled (CancelledError is not an
\* Exception, so nothing is released).  An open transaction rolls back.
Crash(r) ==
    /\ pc[r] \notin {"idle", "done"}
    /\ Leave(r)
    /\ UNCHANGED <<storeVars, slot, hash, answerVars, committed, givenUp>>

-----------------------------------------------------------------------------
(* The retention job, and time.                                            *)

Aged(row) == Present(row) /\ row.created_at + Retention < clock

\* prune_idempotency_keys deletes by age alone, finished or not.
Prune ==
    /\ \E s \in Slots : Aged(keys[s])
    /\ keys' = [s \in Slots |-> IF Aged(keys[s]) THEN NoRow ELSE keys[s]]
    /\ givenUp' = [s \in Slots |-> IF Aged(keys[s]) THEN givenUp[s] \cup {"swept"}
                                                   ELSE givenUp[s]]
    /\ UNCHANGED <<clock, pc, requestVars, answerVars, committed>>

Tick ==
    /\ clock < MaxClock
    /\ clock' = clock + 1
    /\ UNCHANGED <<keys, pc, requestVars, answerVars, committed, givenUp>>

-----------------------------------------------------------------------------
Claim(r) ==
    \/ Insert(r)
    \/ Raced(r)
    \/ Restart(r)

Run(r) ==
    \/ RouteAnswers(r)
    \/ RouteFails(r)
    \/ CommitRoute(r)
    \/ RememberGet(r)
    \/ ForgetGet(r)
    \/ Complete(r)
    \/ Release(r)

Arrive(r) ==
    \/ Bypass(r)
    \/ RefuseEarly(r)
    \/ \E s \in Slots, b \in Bodies : Get(r, s, b)

Next ==
    \/ \E r \in Requests : Arrive(r) \/ Claim(r) \/ Run(r) \/ StoreFails(r) \/ Crash(r)
    \/ Prune
    \/ Tick

Spec == Init /\ [][Next]_vars

\* The event loop resumes every task that is ready, and PostgreSQL answers
\* every statement.  Clients, crashes, the clock and the sweep owe nothing.
Fairness == \A r \in Requests : WF_vars(Claim(r) \/ Run(r))

FairSpec == Spec /\ Fairness

-----------------------------------------------------------------------------
(* Properties.                                                             *)

\* No claim on the key was taken over, swept by age or forgotten after its
\* run committed.
Held(s) == givenUp[s] = {}

Working(r) == pc[r] \in {"route", "sent"}

\* As long as no claim on a key was given up, at most one request is between
\* claiming it and finishing with it, and the row is the one that request
\* inserted: a rival gets 409 or the stored answer, never a second run.
SoleHolderWhileHeld ==
    \A r \in Requests :
        pc[r] \in Holding /\ Held(slot[r]) => Mine(r).id = r

\* As long as no claim on a key was given up, the work sent under it is
\* committed at most once, however requests, crashes and failing stores
\* interleave.
DoneOnceWhileHeld ==
    \A r1, r2 \in committed :
        slot[r1] = slot[r2] /\ slot[r1] \in Slots /\ Held(slot[r1]) => r1 = r2

\* Whatever happens, a replayed answer is the answer of a run that committed,
\* sent by the same account under the same key.
ReplayIsCommitted ==
    \A r \in Requests :
        reply[r] = "replay" =>
            replayed[r] \in committed /\ slot[replayed[r]] = slot[r]

\* As long as no claim on a key was given up, a replayed answer describes
\* the request it is sent for.
ReplayMatchesWhileHeld ==
    \A r \in Requests :
        reply[r] = "replay" /\ Held(slot[r]) =>
            hash[replayed[r]] = hash[r]

\* A stored answer is never turned back into an open claim: a finished row is
\* taken over by nobody, a takeover that raced its completion included.
FinishedStaysFinished ==
    [][\A s \in Slots :
            Present(keys[s]) /\ keys[s].answer # None =>
                keys'[s].answer # None \/ ~Present(keys'[s])]_vars

\* Every request that reaches the store is answered and lets go, or dies.
EveryRequestEnds ==
    \A r \in Requests : pc[r] # "idle" ~> pc[r] = "done"

-----------------------------------------------------------------------------
(* What the documentation says of the program.                             *)

\* README.md:197 "answers the retry with the stored response instead of doing
\* the work twice", for the retries that arrive inside the retention.
WorkNotDoneTwice ==
    \A r1, r2 \in committed :
        /\ slot[r1] \in Slots /\ slot[r1] = slot[r2] /\ hash[r1] = hash[r2]
        /\ givenUp[slot[r1]] \subseteq {"taken"}
        => r1 = r2

=============================================================================
