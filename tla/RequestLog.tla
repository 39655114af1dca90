------------------------------ MODULE RequestLog ------------------------------
(***************************************************************************)
(* The request log: RequestLoggingMiddleware and its recorder, with the    *)
(* body limit in front of the routes, and a reader who walks the log page  *)
(* by page; Jobs prunes it meanwhile.                                      *)
(*                                                                         *)
(* A row is stamped with the start of the recorder's transaction and gets  *)
(* its id from the INSERT, so rows may be committed in an order that is    *)
(* neither that of their stamps nor that of their ids.                     *)
(***************************************************************************)
EXTENDS Jobs, Sequences

CONSTANTS
    Requests,     \* requests served
    Statuses,     \* status codes the routes answer with
    Users,        \* callers
    Viewer,       \* the one who reads the log
    Outcomes,     \* the outcomes the reader may filter by
    MaxBytes,     \* max_request_body_bytes
    Limit         \* rows on a page

Unfiltered == "unfiltered"

ASSUME LogAssumption == "prune-request-log" \in Jobs /\ Limit \in Nat \ {0}
ASSUME FilterAssumption ==
    Viewer \in Users /\ Unfiltered \notin Users /\ Outcomes \subseteq {"success", "warning", "error"}

VARIABLES
    req,     \* each request, and the row it writes
    last,    \* the last id dealt by the sequence
    walk     \* the reader

logVars == <<req, last, walk>>
allVars == <<clock, rows, lock, task, faults, req, last, walk>>

None == -1
NotServed == [pc |-> "idle", user |-> Viewer, status |-> 0, at |-> 0, id |-> 0]
NoCursor == [at |-> None, id |-> 0]
NoWalk == [pc |-> "idle", outcome |-> Unfiltered, scope |-> "own", user |-> Unfiltered, cursor |-> NoCursor,
           seen |-> <<>>, there |-> {}]

RequestPcs == {"idle", "begun", "inserted", "done"}
Codes == Statuses \cup {0, 413, 500}
DealtIds == Ids \cup {0}
Request == [pc : RequestPcs, user : Users, status : Codes, at : Time, id : DealtIds]

WalkPcs == {"idle", "reading", "done"}
Cursors == Row \cup {NoCursor}
Walk == [pc : WalkPcs, outcome : Outcomes \cup {Unfiltered}, scope : {"own", "all"}, user : Users \cup {Unfiltered},
         cursor : Cursors, seen : Seq(SUBSET Row), there : SUBSET Row]

LogTypeOK ==
    /\ TypeOK
    /\ req \in [Requests -> Request]
    /\ last \in DealtIds
    /\ walk \in Walk

log == rows["prune-request-log"]
Writer(x) == CHOOSE r \in Requests : req[r].id = x.id

-----------------------------------------------------------------------------
\* BodySizeLimitMiddleware: a declared length is refused before the app runs,
\* a body where what the route has received of it passes the limit.
BodyRefused(declared, received) == (declared # None /\ declared > MaxBytes) \/ received > MaxBytes

\* The status that is recorded: _ResponseCapture's, or 500 if the app raised,
\* whatever had been sent by then.
Recorded(status, raised) == IF raised THEN 500 ELSE status

\* store_request opens a session of its own: now() is its transaction's start.
store_request(user, status) ==
    [NotServed EXCEPT !.pc = "begun", !.user = user, !.status = status, !.at = clock]

\* RequestLoggingMiddleware.__call__, which hands the record to _persist when
\* the answer has left.  An excluded path is recorded only when it raised.
__call__(r) ==
    /\ req[r].pc = "idle"
    /\ \E user \in Users, status \in Statuses, raised, excluded \in BOOLEAN,
          declared \in {None, MaxBytes, MaxBytes + 1}, received \in {0, MaxBytes, MaxBytes + 1} :
        LET answer == IF BodyRefused(declared, received) THEN 413 ELSE status IN
        req' = [req EXCEPT ![r] = IF excluded /\ ~raised
                                  THEN [NotServed EXCEPT !.pc = "done"]
                                  ELSE store_request(user, Recorded(answer, raised))]
    /\ UNCHANGED <<vars, last, walk>>

\* RequestLogService.record: the INSERT deals the id.
record(r) ==
    /\ req[r].pc = "begun"
    /\ last + 1 \in Ids
    /\ last' = last + 1
    /\ req' = [req EXCEPT ![r] = [@ EXCEPT !.pc = "inserted", !.id = last + 1]]
    /\ UNCHANGED <<vars, walk>>

Stored(r) == [at |-> req[r].at, id |-> req[r].id]

commit_record(r) ==
    /\ req[r].pc = "inserted"
    /\ rows' = [rows EXCEPT !["prune-request-log"] = @ \cup {Stored(r)}]
    /\ req' = [req EXCEPT ![r].pc = "done"]
    /\ UNCHANGED <<clock, lock, task, faults, last, walk>>

\* _persist: a row that cannot be written is logged and forgotten.
_persist(r) ==
    /\ req[r].pc \in {"begun", "inserted"}
    /\ req' = [req EXCEPT ![r] = [NotServed EXCEPT !.pc = "done"]]
    /\ UNCHANGED <<vars, last, walk>>

-----------------------------------------------------------------------------
\* outcome_for, and the ranges the repository filters by.
outcome_for(status) == IF status >= 500 THEN "error" ELSE IF status >= 400 THEN "warning" ELSE "success"

RangesFromLow(outcome) ==
    CASE outcome = "success" -> 0..400
      [] outcome = "warning" -> 401..500
      [] outcome = "error" -> 501..599

OUTCOME_RANGES(outcome) ==
    CASE outcome = "success" -> 0..399
      [] outcome = "warning" -> 400..499
      [] outcome = "error" -> 500..599

\* scoped_to_owner: without the scope "all" the filter is the viewer.
scoped_to_owner(user, scope) == IF scope = "all" THEN user ELSE Viewer

\* The order of the pages: newest first, ids break ties.
Below(x, y) == x.at < y.at \/ (x.at = y.at /\ x.id < y.id)

\* cursor_condition, a row comparison.
cursor_condition(x, cursor) == cursor = NoCursor \/ Below(x, cursor)

\* RequestLogRepository._where, apart from the cursor
Matches(x, outcome, user) ==
    /\ outcome = Unfiltered \/ req[Writer(x)].status \in OUTCOME_RANGES(outcome)
    /\ user = Unfiltered \/ req[Writer(x)].user = user

\* ORDER BY and LIMIT n: the rows that have fewer than n above them.
Newest(found, n) == {x \in found : Cardinality({y \in found : Below(x, y)}) < n}

\* The last row of a page.
Bottom(page) == CHOOSE x \in page : \A y \in page : ~Below(y, x)

\* RequestLogRepository.list_page: one row more than the page.
list_page(outcome, user, cursor) ==
    Newest({x \in log : Matches(x, outcome, user) /\ cursor_condition(x, cursor)}, Limit + 1)

SliceFull(found) ==
    [page |-> Newest(found, Limit), next |-> IF Cardinality(found) < Limit THEN NoCursor ELSE Bottom(found)]

\* cursor_slice: the extra row decides whether there is a next page.
cursor_slice(found) ==
    LET page == Newest(found, Limit) IN
    [page |-> page, next |-> IF Cardinality(found) <= Limit THEN NoCursor ELSE Bottom(page)]

\* list_requests: the reader asks for the first page, then follows
\* next_cursor with the same filters.
list_for(w) ==
    LET found == cursor_slice(list_page(w.outcome, w.user, w.cursor)) IN
    /\ walk' = [w EXCEPT !.pc = IF found.next = NoCursor THEN "done" ELSE "reading",
                         !.cursor = found.next, !.seen = Append(w.seen, found.page)]
    /\ UNCHANGED <<vars, req, last>>

first_page ==
    /\ walk.pc = "idle"
    /\ \E outcome \in Outcomes \cup {Unfiltered}, asked \in Users \cup {Unfiltered}, scope \in {"own", "all"} :
        LET user == scoped_to_owner(asked, scope) IN
        list_for([NoWalk EXCEPT !.outcome = outcome, !.scope = scope, !.user = user,
                                !.there = {x \in log : Matches(x, outcome, user)}])

next_page ==
    /\ walk.pc = "reading"
    /\ list_for([walk EXCEPT !.there = @ \cap log])

-----------------------------------------------------------------------------
LogInit ==
    /\ InitWith(0, {[j \in Jobs |-> {}]})
    /\ req = [r \in Requests |-> NotServed]
    /\ last = 0
    /\ walk = NoWalk

LogNext ==
    \/ \E r \in Requests : __call__(r) \/ record(r) \/ commit_record(r) \/ _persist(r)
    \/ first_page \/ next_page
    \/ Next /\ UNCHANGED logVars

LogSpec == LogInit /\ [][LogNext]_allVars

-----------------------------------------------------------------------------
\* The rows on the pages so far.
Shown == UNION {walk.seen[i] : i \in 1..Len(walk.seen)}

\* A reader who follows the cursors meets no row twice and misses none that was
\* there all the time, however rows are added, committed late or pruned under
\* the walk: a row that matched when the first page was read, and is in the log
\* when the last one is, was shown once.
WalkIsExact ==
    /\ \A i, j \in 1..Len(walk.seen) :
        i < j => \A x \in walk.seen[i], y \in walk.seen[j] : Below(y, x)
    /\ walk.pc = "done" => walk.there \cap log \subseteq Shown

\* The filter by range shows the entries that call themselves by that outcome,
\* also on the edges, and the viewer without the scope "all" is shown their
\* own requests only, on every page and whomever they ask for.
ShownAsAsked ==
    \A x \in Shown :
        LET entry == req[Writer(x)] IN
        /\ walk.outcome # Unfiltered => outcome_for(entry.status) = walk.outcome
        /\ walk.scope = "own" => entry.user = Viewer

=============================================================================
