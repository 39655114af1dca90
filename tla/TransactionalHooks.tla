-------------------------- MODULE TransactionalHooks --------------------------
(***************************************************************************)
(* run_after_outcome (db/transactional_hooks.py) on one session.           *)
(*                                                                         *)
(* SQLAlchemy dispatches after_commit and after_rollback to every listener *)
(* of the session, for a savepoint as well as for the transaction, and a   *)
(* session runs one transaction after another (the drain of a retention    *)
(* job does).  A registration retires itself when it fires; its listeners  *)
(* are removed by a callback of the event loop, later.                     *)
(***************************************************************************)
EXTENDS Naturals, FiniteSets

CONSTANTS
    Hooks,      \* calls of run_after_outcome
    MaxTx,      \* bound of the model: transactions of the session
    MaxDepth    \* bound of the model: nested savepoints

ASSUME BoundsAssumption == MaxTx \in Nat /\ MaxDepth \in Nat

VARIABLES
    session,    \* "idle" between transactions, "open" in one, or "closed"
    tx,         \* the number of the current or last transaction
    depth,      \* savepoints open in it
    outcome,    \* how each transaction ended
    since,      \* the transaction a hook was registered in, 0 before
    listening,  \* hooks whose listeners are on the session
    retired,    \* hooks whose flag is set
    leaving,    \* hooks whose removal is on the loop's queue
    fired       \* the calls of a hook's on_commit and on_rollback

vars == <<session, tx, depth, outcome, since, listening, retired, leaving, fired>>
hookVars == <<listening, retired, leaving, fired>>

Events == {"commit", "rollback"}

TypeOK ==
    /\ session \in {"idle", "open", "closed"}
    /\ tx \in 0 .. MaxTx
    /\ depth \in 0 .. MaxDepth
    /\ outcome \in [1 .. MaxTx -> Events \cup {"none"}]
    /\ since \in [Hooks -> 0 .. MaxTx]
    /\ listening \in SUBSET Hooks
    /\ retired \in SUBSET Hooks
    /\ leaving \in SUBSET Hooks
    /\ fired \in [Hooks -> SUBSET (Events \X (1 .. MaxTx))]

Init ==
    /\ session = "idle"
    /\ tx = 0
    /\ depth = 0
    /\ outcome = [t \in 1 .. MaxTx |-> "none"]
    /\ since = [h \in Hooks |-> 0]
    /\ listening = {}
    /\ retired = {}
    /\ leaving = {}
    /\ fired = [h \in Hooks |-> {}]

\* The first statement after a commit begins the next transaction.
Begin ==
    /\ session = "idle"
    /\ tx < MaxTx
    /\ session' = "open"
    /\ tx' = tx + 1
    /\ UNCHANGED <<depth, outcome, since, hookVars>>

\* run_after_outcome: both listeners are put on the session.
Register(h) ==
    /\ session = "open"
    /\ since[h] = 0
    /\ since' = [since EXCEPT ![h] = tx]
    /\ listening' = listening \cup {h}
    /\ UNCHANGED <<session, tx, depth, outcome, retired, leaving, fired>>

\* The listeners that do not return at once.
Heard(nested) == IF nested THEN {} ELSE listening \ retired

DispatchCommits(event, nested) ==
    /\ retired' = IF event = "commit" THEN retired \cup Heard(nested) ELSE retired
    /\ leaving' = IF event = "commit" THEN leaving \cup Heard(nested) ELSE leaving
    /\ fired' = [h \in Hooks |-> IF event = "commit" /\ h \in Heard(nested)
                                THEN fired[h] \cup {<<event, tx>>} ELSE fired[h]]
    /\ UNCHANGED listening

\* after_commit or after_rollback reaches the listeners.
Dispatch(event, nested) ==
    /\ retired' = retired \cup Heard(nested)
    /\ leaving' = leaving \cup Heard(nested)
    /\ fired' = [h \in Hooks |-> IF h \in Heard(nested) THEN fired[h] \cup {<<event, tx>>}
                                                        ELSE fired[h]]
    /\ UNCHANGED listening

Savepoint ==
    /\ session = "open"
    /\ depth < MaxDepth
    /\ depth' = depth + 1
    /\ UNCHANGED <<session, tx, outcome, since, hookVars>>

\* A savepoint is released or rolled back.
EndSavepoint(event) ==
    /\ depth > 0
    /\ Dispatch(event, TRUE)
    /\ depth' = depth - 1
    /\ UNCHANGED <<session, tx, outcome, since>>

\* The transaction ends.  Savepoints still open are ended first, which is
\* EndSavepoint.
End(event) ==
    /\ session = "open"
    /\ depth = 0
    /\ Dispatch(event, FALSE)
    /\ outcome' = [outcome EXCEPT ![tx] = event]
    /\ session' = "idle"
    /\ UNCHANGED <<tx, depth, since>>

\* The session is closed by the task that leaves it; a transaction that is
\* still open is rolled back by the connection, without an event.
Close ==
    /\ session # "closed"
    /\ outcome' = IF session = "open" THEN [outcome EXCEPT ![tx] = "rollback"] ELSE outcome
    /\ session' = "closed"
    /\ depth' = 0
    /\ UNCHANGED <<tx, since, hookVars>>

\* _remove, called soon.
RemoveListeners(h) ==
    /\ h \in leaving
    /\ leaving' = leaving \ {h}
    /\ listening' = listening \ {h}
    /\ UNCHANGED <<session, tx, depth, outcome, since, retired, fired>>

Next ==
    \/ Begin
    \/ Savepoint
    \/ Close
    \/ \E event \in Events : EndSavepoint(event) \/ End(event)
    \/ \E h \in Hooks : Register(h) \/ RemoveListeners(h)

Spec == Init /\ [][Next]_vars

-----------------------------------------------------------------------------
(* Properties.                                                             *)

\* A hook is called for the transaction it was registered in, with the outcome
\* of that transaction: not for a savepoint inside it, and not for a later
\* transaction of the session, whose dispatch may find its listeners still on.
FiresForItsOutcome ==
    \A h \in Hooks : \A call \in fired[h] :
        call = <<outcome[since[h]], since[h]>>

\* Exactly one of the two hooks of a registration is called, once, when the
\* session commits or rolls back, and the registration is then retired.
FiresOnceResolved ==
    \A h \in Hooks :
        since[h] # 0 /\ (session = "idle" \/ since[h] < tx) =>
            fired[h] = {<<outcome[since[h]], since[h]>>} /\ h \in retired

=============================================================================
