------------------------------ MODULE UnitOfWork ------------------------------
(***************************************************************************)
(* A session's unit of work and the audit trail its listeners write        *)
(* (core/audit/listeners.py), composed with the hooks of its transactions. *)
(*                                                                         *)
(* A flush collects what changed in audited tables, runs the SQL, and      *)
(* inserts the entries on the same connection, so that a savepoint or the  *)
(* transaction decides over rows and entries alike.  The trail is kept as  *)
(* what a reader of it knows of each row.                                  *)
(***************************************************************************)
EXTENDS TransactionalHooks, Sequences, SequencesExt

CONSTANTS
    Rows,       \* rows that are mapped to objects
    Links,      \* rows of the tables between two many-to-many sides
    Owner,      \* the row whose relationship a link is part of
    Excluded    \* the rows of EXCLUDED_TABLES

ASSUME RowsAssumption == Rows \cap Links = {} /\ Excluded \subseteq Rows /\ Owner \in [Links -> Rows \ Excluded]

VARIABLES
    objects,    \* the session's objects, changes not flushed yet included
    stack,      \* the database: committed, in the transaction, in each savepoint
    pending     \* session.info["audit_pending"]

auditVars == <<objects, stack, pending>>
unitVars == <<vars, auditVars>>

All == Rows \cup Links

\* A row is not there, as inserted, updated since, or soft-deleted.
States == {"absent", "fresh", "edited", "deleted"}

\* What a reader knows: the row's state, nothing once the audit was suppressed
\* while it changed (and of the rows of excluded tables), or that the trail contradicts itself.
Knowledge == States \cup {"unknown", "wrong"}

Top == Last(stack)
Clean == objects = Top.rows

UnitInit ==
    /\ Init
    /\ objects = [r \in All |-> "absent"]
    /\ stack = << [rows |-> objects, told |-> [r \in All |-> IF r \in Excluded THEN "unknown" ELSE "absent"]] >>
    /\ pending = {}

UnitTypeOK ==
    /\ TypeOK
    /\ objects \in [All -> States]
    /\ Len(stack) = IF session = "open" THEN depth + 2 ELSE 1
    /\ \A n \in DOMAIN stack : stack[n] \in [rows : [All -> States], told : [All -> Knowledge]]
    /\ \A e \in pending : e.row \in All /\ {e.before, e.after} \subseteq States

-----------------------------------------------------------------------------
\* is_audited
is_audited(r) == r \notin Excluded

\* action_for
action_for(before, after) ==
    CASE before # "deleted" /\ after = "deleted" -> "soft_delete"
      [] before = "deleted" /\ after # "deleted" -> "restore"
      [] OTHER -> "update"

\* _links: of new and dirty objects; the links of a deleted one go with it.
_links(before, after) ==
    {[row |-> l, action |-> IF after[l] = "fresh" THEN "link" ELSE "unlink",
      before |-> before[l], after |-> after[l]] :
        l \in {k \in Links : before[k] # after[k] /\ after[Owner[k]] # "absent"}}

\* _collect: session.new, session.dirty and session.deleted.
_collect(before, after) ==
    {[row |-> r, before |-> before[r], after |-> after[r],
      action |-> CASE before[r] = "absent" -> "insert"
                   [] after[r] = "absent" -> "delete"
                   [] OTHER -> action_for(before[r], after[r])] :
        r \in {x \in Rows : is_audited(x) /\ before[x] # after[x]}}
    \cup _links(before, after)

\* The actions that take a row from one state to another, as a reader of the
\* trail understands them.
Explains(action, before, after) ==
    CASE action \in {"insert", "link"}   -> before = "absent" /\ after # "absent"
      [] action \in {"delete", "unlink"} -> before # "absent" /\ after = "absent"
      [] action = "soft_delete"          -> before # "deleted" /\ after = "deleted"
      [] action = "restore"              -> before = "deleted" /\ after # "deleted"
      [] action = "update"               -> before \in {"fresh", "edited"} /\ after \in {"fresh", "edited"}

\* What the entries of one flush add to what is known of row r.
Learn(known, r, entries) ==
    LET mine == {e \in entries : e.row = r}
        gone == r \in Links /\ \E e \in entries : e.row = Owner[r] /\ e.action = "delete" IN
    CASE known = "unknown" -> known
      [] known # "unknown" /\ mine = {} -> IF gone THEN "absent" ELSE known
      [] OTHER -> IF \E e \in mine : mine = {e} /\ e.before = known /\ Explains(e.action, e.before, e.after)
                  THEN (CHOOSE e \in mine : TRUE).after ELSE "wrong"

\* _write: every pending entry, in one INSERT on the session's connection.
_write(told, entries) == [r \in All |-> Learn(told[r], r, entries)]

KeepPending(entries) == entries

\* _discard
_discard(entries) == {}

\* A flush: collect, the SQL, write; a suppressed one neither collects nor
\* writes.  A commit, a savepoint and a query flush first, by this step.
flush(suppressed) ==
    /\ session = "open"
    /\ ~Clean
    /\ LET told == IF suppressed
                   THEN [r \in All |-> IF objects[r] = Top.rows[r] THEN Top.told[r] ELSE "unknown"]
                   ELSE _write(Top.told, pending \cup _collect(Top.rows, objects)) IN
       stack' = Append(Front(stack), [rows |-> objects, told |-> told])
    /\ pending' = {}
    /\ UNCHANGED <<vars, objects>>

\* The row and the links that go with it.
Without(db, r) == [x \in All |-> IF x = r \/ (x \in Links /\ Owner[x] = r) THEN "absent" ELSE db[x]]

\* A service adds, changes or deletes an object.  One of an excluded table is
\* there or not: nothing records what else becomes of it.
change(r) ==
    /\ session = "open"
    /\ \/ objects[r] = "absent" /\ Top.rows[r] = "absent" /\ objects' = [objects EXCEPT ![r] = "fresh"]
       \/ objects[r] # "absent" /\ objects' = Without(objects, r)
       \/ /\ objects[r] # "absent" /\ is_audited(r)
          /\ \E s \in {"edited", "deleted"} \ {objects[r]} : objects' = [objects EXCEPT ![r] = s]
    /\ UNCHANGED <<vars, stack, pending>>

\* A service puts a child into a relationship, or takes it out.
relate(l) ==
    /\ session = "open"
    /\ objects[Owner[l]] # "absent"
    /\ objects' = [objects EXCEPT ![l] = IF @ = "absent" THEN "fresh" ELSE "absent"]
    /\ UNCHANGED <<vars, stack, pending>>

\* A bulk DELETE of the session, which no flush sees: refuse_silent_bulk raises
\* unless the table is excluded or the audit is suppressed.
refuse_silent_bulk(r, suppressed) ==
    /\ session = "open" /\ Clean
    /\ suppressed \/ ~is_audited(r)
    /\ Top.rows[r] # "absent"
    /\ objects' = Without(objects, r)
    /\ stack' = Append(Front(stack), [rows |-> objects',
          told |-> [x \in All |-> IF objects'[x] = objects[x] THEN Top.told[x] ELSE "unknown"]])
    /\ UNCHANGED <<vars, pending>>

-----------------------------------------------------------------------------
\* The database keeps the innermost level, or goes back to the one below.
Keep == Clean /\ stack' = Append(Front(Front(stack)), Top) /\ UNCHANGED <<objects, pending>>

\* after_soft_rollback discards what is pending, and that is something when the
\* rollback is that of a flush whose SQL failed.
Undo ==
    /\ stack' = Front(stack)
    /\ objects' = Last(stack').rows
    /\ \E entries \in {pending, pending \cup _collect(Top.rows, objects)} : pending' = _discard(entries)

Resolve(event) == IF event = "commit" THEN Keep ELSE Undo

Enter == Clean /\ stack' = Append(stack, Top) /\ UNCHANGED <<objects, pending>>

UnitClose ==
    /\ Close
    /\ stack' = << Head(stack) >>
    /\ objects' = Head(stack).rows
    /\ UNCHANGED pending

UnitNext ==
    \/ (Begin \/ Savepoint) /\ Enter
    \/ \E event \in Events : (EndSavepoint(event) \/ End(event)) /\ Resolve(event)
    \/ \E h \in Hooks : (Register(h) \/ RemoveListeners(h)) /\ UNCHANGED auditVars
    \/ UnitClose
    \/ \E r \in Rows : change(r)
    \/ \E l \in Links : relate(l)
    \/ \E suppressed \in BOOLEAN : flush(suppressed) \/ \E r \in Rows : refuse_silent_bulk(r, suppressed)

UnitSpec == UnitInit /\ [][UnitNext]_unitVars

-----------------------------------------------------------------------------
(* Properties.                                                             *)

\* The audit trail is exact: committed, in a transaction or in a savepoint, its
\* entries read in order tell the state of every row of an audited table, and
\* each names what happened, unless the row changed with the audit suppressed.
\* Nothing is told of a flush that failed, of work that was rolled back, or by a
\* bulk statement (README: "A Core-level update() or delete() bypasses the unit
\* of work entirely").
TrailTellsAll ==
    \A n \in DOMAIN stack : \A r \in All :
        is_audited(r) => stack[n].told[r] \in {stack[n].rows[r], "unknown"}

=============================================================================
