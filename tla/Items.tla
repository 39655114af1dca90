--------------------------------- MODULE Items ---------------------------------
(***************************************************************************)
(* Items under optimistic concurrency: ItemService, ItemRepository,        *)
(* VersionMixin, If-Match (core/http/concurrency.py), and the closing of   *)
(* an account, which retires what it owns (UserService._close).            *)
(*                                                                         *)
(* A request runs in one transaction (READ COMMITTED) whose statements     *)
(* interleave with those of the others.  It reads the caller, reads the    *)
(* row, compares versions, then flushes UPDATE ... WHERE version = loaded, *)
(* which waits for the row lock of a rival and finds the row as the rival  *)
(* left it.  The answer goes out before get_session commits.               *)
(***************************************************************************)
EXTENDS ItemRows

CONSTANT Requests

VARIABLES
    items,    \* the table, as committed
    closed,   \* accounts whose deleted_at is committed
    pc,       \* where each request stands
    op,       \* what it asks for
    loaded,   \* the rows its session holds, as it read them
    held,     \* rows it has written and not committed, hence locked
    answer,   \* what the client was told
    landed    \* requests whose writes are committed (history)

vars == <<items, closed, pc, op, loaded, held, answer, landed>>

Store == INSTANCE VersionedStore WITH cells <- items, intent <- op

Statuses == {"none", "200", "204", "401", "404", "412"}
Pcs == {"idle", "admitted", "loaded", "sent", "done"}

NoAnswer == [status |-> "none", row |-> NoRow]

TypeOK ==
    /\ items \in [Items -> Row]
    /\ closed \in SUBSET Users
    /\ pc \in [Requests -> Pcs]
    /\ op \in [Requests -> Op \cup {None}]
    /\ loaded \in [Requests -> [Items -> Row]]
    /\ held \in [Requests -> SUBSET Items]
    /\ answer \in [Requests -> [status : Statuses, row : Row]]
    /\ landed \in SUBSET Requests

Nothing == [i \in Items |-> NoRow]

Created == {After(NoRow, o) : o \in {p \in Op : p.kind = "create"}}

\* The table may hold items created earlier and not touched since.
Init ==
    /\ items \in [Items -> {NoRow} \cup Created]
    /\ closed = {}
    /\ pc = [r \in Requests |-> "idle"]
    /\ op = [r \in Requests |-> None]
    /\ loaded = [r \in Requests |-> Nothing]
    /\ held = [r \in Requests |-> {}]
    /\ answer = [r \in Requests |-> NoAnswer]
    /\ landed = {}

Goto(r, label) == pc' = [pc EXCEPT ![r] = label]
Tell(r, status, row) == answer' = [answer EXCEPT ![r] = [status |-> status, row |-> row]]

\* The session is closed: its rows are forgotten and its locks are released.
Leave(r) ==
    /\ Goto(r, "done")
    /\ loaded' = [loaded EXCEPT ![r] = Nothing]
    /\ held' = [held EXCEPT ![r] = {}]

Refuse(r, status) == Tell(r, status, NoRow) /\ Leave(r)

-----------------------------------------------------------------------------
\* A key is dealt once.
Unused(i) ==
    /\ items[i] = NoRow
    /\ \A r \in Requests : op[r] # None => ~(op[r].kind = "create" /\ op[r].item = i)

\* get_actor: the caller is loaded, and an account that is closed is not
\* found.  UserService.remove loads its target the same way.
Admit(r, o) ==
    /\ pc[r] = "idle"
    /\ o.kind = "create" => Unused(o.item)
    /\ op' = [op EXCEPT ![r] = o]
    /\ \/ /\ o.user \notin closed
          /\ Goto(r, "admitted")
          /\ UNCHANGED <<loaded, held, answer>>
       \/ o.user \in closed /\ Refuse(r, "401")
    /\ UNCHANGED <<items, closed, landed>>

\* ItemService.create: the INSERT, not committed yet.
Create(r) ==
    /\ pc[r] = "admitted"
    /\ op[r].kind = "create"
    /\ held' = [held EXCEPT ![r] = {op[r].item}]
    /\ Tell(r, "200", After(NoRow, op[r]))
    /\ Goto(r, "sent")
    /\ UNCHANGED <<items, closed, op, loaded, landed>>

LoadUnchecked(r) ==
    LET row == items[op[r].item] IN
    /\ pc[r] = "admitted"
    /\ op[r].kind \in {"read", "update", "delete"}
    /\ \/ ~Visible(row, op[r].user) /\ Refuse(r, "404")
       \/ /\ Visible(row, op[r].user)
          /\ op[r].kind = "read"
          /\ Tell(r, "200", row)
          /\ Leave(r)
       \/ /\ Visible(row, op[r].user)
          /\ op[r].kind # "read"
          /\ loaded' = [loaded EXCEPT ![r][op[r].item] = row]
          /\ Goto(r, "loaded")
          /\ UNCHANGED <<held, answer>>
    /\ UNCHANGED <<items, closed, op, landed>>

\* get_for_owner, then _at_version for a write.
Load(r) ==
    LET row == items[op[r].item] IN
    /\ pc[r] = "admitted"
    /\ op[r].kind \in {"read", "update", "delete"}
    /\ \/ ~Visible(row, op[r].user) /\ Refuse(r, "404")
       \/ /\ Visible(row, op[r].user)
          /\ op[r].expected \notin {AnyVersion, row.version}
          /\ Refuse(r, "412")
       \/ /\ Visible(row, op[r].user)
          /\ op[r].kind = "read"
          /\ Tell(r, "200", row)
          /\ Leave(r)
       \/ /\ Visible(row, op[r].user)
          /\ op[r].kind # "read"
          /\ op[r].expected \in {AnyVersion, row.version}
          /\ loaded' = [loaded EXCEPT ![r][op[r].item] = row]
          /\ Goto(r, "loaded")
          /\ UNCHANGED <<held, answer>>
    /\ UNCHANGED <<items, closed, op, landed>>

LoadDeletedToo(r) ==
    /\ pc[r] = "admitted"
    /\ op[r].kind = "close"
    /\ loaded' = [loaded EXCEPT ![r] =
                    [i \in Items |-> IF items[i].owner = op[r].user THEN items[i] ELSE NoRow]]
    /\ Goto(r, "loaded")
    /\ UNCHANGED <<items, closed, op, held, answer, landed>>

\* soft_delete_for_owner reads everything active the account owns.
LoadOwned(r) ==
    /\ pc[r] = "admitted"
    /\ op[r].kind = "close"
    /\ loaded' = [loaded EXCEPT ![r] =
                    [i \in Items |-> IF Visible(items[i], op[r].user) THEN items[i] ELSE NoRow]]
    /\ Goto(r, "loaded")
    /\ UNCHANGED <<items, closed, op, held, answer, landed>>

\* The rows the session has to write: an update that changes no column
\* writes none.
Dirty(r) ==
    {i \in Items :
        /\ loaded[r][i] # NoRow
        /\ op[r].kind = "update" => After(loaded[r][i], op[r]).content # loaded[r][i].content}

\* The rows the flush has yet to write, lowest primary key first.
Unwritten(r) == Dirty(r) \ held[r]

Locked(r, i) == \E x \in Requests \ {r} : i \in held[x]

FlushInAnyOrder(r) ==
    /\ pc[r] = "loaded"
    /\ \E i \in Unwritten(r) :
       /\ ~Locked(r, i)
       /\ \/ /\ items[i].version = loaded[r][i].version
             /\ held' = [held EXCEPT ![r] = @ \cup {i}]
             /\ UNCHANGED <<pc, loaded, answer>>
          \/ items[i].version # loaded[r][i].version /\ Refuse(r, "412")
    /\ UNCHANGED <<items, closed, op, landed>>

\* One UPDATE ... WHERE id = i AND version = loaded of the flush.  No row
\* matches if a rival committed first: StaleDataError, answered 412.
Flush(r) ==
    /\ pc[r] = "loaded"
    /\ \E i \in Unwritten(r) :
       /\ \A j \in Unwritten(r) : i <= j
       /\ ~Locked(r, i)
       /\ \/ /\ items[i].version = loaded[r][i].version
             /\ held' = [held EXCEPT ![r] = @ \cup {i}]
             /\ UNCHANGED <<pc, loaded, answer>>
          \/ items[i].version # loaded[r][i].version /\ Refuse(r, "412")
    /\ UNCHANGED <<items, closed, op, landed>>

RespondUnrefreshed(r) ==
    /\ pc[r] = "loaded"
    /\ Unwritten(r) = {}
    /\ \/ /\ op[r].kind = "update"
          /\ LET row == loaded[r][op[r].item]
             IN  Tell(r, "200", [After(row, op[r]) EXCEPT !.version = row.version])
       \/ op[r].kind # "update" /\ Tell(r, "204", NoRow)
    /\ Goto(r, "sent")
    /\ UNCHANGED <<items, closed, op, loaded, held, landed>>

\* The answer: an update refreshes its row first, which reads its own write
\* or, when it wrote nothing, whatever is committed by now.
Respond(r) ==
    /\ pc[r] = "loaded"
    /\ Unwritten(r) = {}
    /\ \/ /\ op[r].kind = "update"
          /\ LET i == op[r].item
             IN  Tell(r, "200", IF i \in held[r] THEN After(loaded[r][i], op[r])
                                                 ELSE items[i])
       \/ op[r].kind # "update" /\ Tell(r, "204", NoRow)
    /\ Goto(r, "sent")
    /\ UNCHANGED <<items, closed, op, loaded, held, landed>>

\* get_session commits; a close stamps the user row in the same transaction.
Commit(r) ==
    /\ pc[r] = "sent"
    /\ items' = [i \in Items |-> IF i \in held[r] THEN After(loaded[r][i], op[r])
                                                  ELSE items[i]]
    /\ IF op[r].kind = "close" THEN closed' = closed \cup {op[r].user}
                               ELSE UNCHANGED closed
    /\ IF held[r] # {} \/ op[r].kind = "close" THEN landed' = landed \cup {r}
                                               ELSE UNCHANGED landed
    /\ Leave(r)
    /\ UNCHANGED <<op, answer>>

\* The connection or the process is lost, or another refusal (a wrong
\* password, a missing permission) ends the request: everything rolls back.
Abort(r) ==
    /\ pc[r] \notin {"idle", "done"}
    /\ Leave(r)
    /\ UNCHANGED <<items, closed, op, answer, landed>>

Step(r) ==
    \/ Create(r)
    \/ Load(r)
    \/ LoadOwned(r)
    \/ Flush(r)
    \/ Respond(r)
    \/ Commit(r)

Next == \E r \in Requests : (\E o \in Op : Admit(r, o)) \/ Step(r) \/ Abort(r)

Spec == Init /\ [][Next]_vars

\* The event loop and PostgreSQL run every statement that is not waiting
\* for a lock.  Clients and failures owe nothing.
FairSpec == Spec /\ \A r \in Requests : WF_vars(Step(r))

-----------------------------------------------------------------------------
(* Properties.                                                             *)

\* The requests interleaved statement by statement behave as if each write
\* took effect at one instant, over the version its If-Match named.
Linearizable == Store!Spec

\* Of the clients that sent back one ETag, at most one wrote over it.
OneWritePerVersion ==
    \A r1, r2 \in landed :
        /\ {op[r1].kind, op[r2].kind} \subseteq {"update", "delete"}
        /\ op[r1].item = op[r2].item
        /\ op[r1].expected = op[r2].expected
        /\ op[r1].expected # AnyVersion
        => r1 = r2

\* Two answers about one item with one ETag have one content, as long as they
\* describe a committed row.
EtagNamesOneContent ==
    \A r1, r2 \in Requests :
        /\ answer[r1].status = "200" /\ answer[r2].status = "200"
        /\ op[r1].kind = "read" /\ (op[r2].kind = "read" \/ r2 \in landed)
        /\ op[r1].item = op[r2].item
        /\ answer[r1].row.version = answer[r2].row.version
        => answer[r1].row = answer[r2].row

\* A flush never waits for ever and no two wait for each other: every request
\* that was admitted ends.
EveryRequestEnds == \A r \in Requests : pc[r] # "idle" ~> pc[r] = "done"

=============================================================================
