---------------------------- MODULE VersionedStore ----------------------------
(***************************************************************************)
(* What the items API promises its clients: a store of versioned cells on  *)
(* which every write takes effect at one instant or not at all, and only   *)
(* over the version its If-Match named.  Closing an account retires cells  *)
(* of that account and the account itself in the same instant.             *)
(***************************************************************************)
EXTENDS ItemRows

CONSTANT Requests

VARIABLES
    cells,    \* the row of every item
    closed,   \* accounts that were closed
    intent,   \* what each request asks for
    landed    \* requests that took effect

vars == <<cells, closed, intent, landed>>

\* A table in which items were created and not touched since.
Init ==
    /\ cells \in [Items -> {NoRow} \cup {row \in Row : row.version = 1 /\ ~row.deleted
                                                       /\ row.owner # None}]
    /\ closed = {}
    /\ intent = [r \in Requests |-> None]
    /\ landed = {}

Ask(r) ==
    /\ intent[r] = None
    /\ intent'[r] \in Op
    /\ intent' = [intent EXCEPT ![r] = intent'[r]]
    /\ UNCHANGED <<cells, closed, landed>>

Put(r, i) ==
    /\ intent[r].kind = "create"
    /\ intent[r].item = i
    /\ cells[i].version = 0
    /\ cells' = [cells EXCEPT ![i] = After(@, intent[r])]
    /\ UNCHANGED closed

\* The compare-and-swap: over the version named, or over any with "*".
Write(r, i) ==
    /\ intent[r].kind \in {"update", "delete"}
    /\ intent[r].item = i
    /\ Visible(cells[i], intent[r].user)
    /\ intent[r].expected \in {AnyVersion, cells[i].version}
    /\ cells' = [cells EXCEPT ![i] = After(@, intent[r])]
    /\ UNCHANGED closed

Close(r, S) ==
    /\ intent[r].kind = "close"
    /\ \A i \in S : Visible(cells[i], intent[r].user)
    /\ cells' = [i \in Items |-> IF i \in S THEN After(cells[i], intent[r])
                                            ELSE cells[i]]
    /\ closed' = closed \cup {intent[r].user}

Land(r) ==
    /\ intent[r] # None
    /\ r \notin landed
    /\ landed' = landed \cup {r}
    /\ \/ \E i \in Items : Put(r, i) \/ Write(r, i)
       \/ \E S \in SUBSET Items : Close(r, S)
    /\ UNCHANGED intent

Next == \E r \in Requests : Ask(r) \/ Land(r)

Spec == Init /\ [][Next]_vars

=============================================================================
