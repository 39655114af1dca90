------------------------------ MODULE Attachments ------------------------------
(***************************************************************************)
(* Attachments: AttachmentService, AttachmentRepository, LocalStorage and  *)
(* the routes.  A row lives in PostgreSQL and its file in the storage      *)
(* directory, so each request orders its writes to the two: an upload      *)
(* writes the file first and deletes it if the transaction rolls back, a   *)
(* removal deletes the row first and the file once that is committed.      *)
(* Which hook fires when is the subject of TransactionalHooks.             *)
(*                                                                         *)
(* Keys are fresh (uuid4), so a key, its row and its file are all named by *)
(* the upload that made them.                                              *)
(***************************************************************************)
CONSTANTS Items, Requests, None

VARIABLES
    active,     \* items of the caller that are not soft-deleted
    rows,       \* rows of attachments, as committed
    files,      \* what the storage directory holds under each key
    deleting,   \* keys with a _delete_quietly task on the loop
    pc,         \* where each request stands
    kind,       \* "add", "remove" or "download"
    target,     \* the item of an add, the attachment of the others
    hook,       \* the outcome on which its session schedules a deletion
    got,        \* what a download, answered 200 already, found
    doubtful,   \* keys whose COMMIT landed and was not acknowledged (history)
    stranded    \* keys whose deletion was owed and got lost (history)

vars == <<active, rows, files, deleting, pc, kind, target, hook, got,
          doubtful, stranded>>
requestVars == <<kind, target, got>>
historyVars == <<doubtful, stranded>>

Pcs == {"idle", "saving", "stored", "found", "sent", "streaming", "done"}
Kinds == {"add", "remove", "download"}
Contents == {"none", "partial", "whole"}

ASSUME NoneAssumption == None \notin Contents \cup Kinds \cup Requests

TypeOK ==
    /\ active \in SUBSET Items
    /\ rows \in SUBSET Requests
    /\ files \in [Requests -> Contents]
    /\ deleting \in SUBSET Requests
    /\ pc \in [Requests -> Pcs]
    /\ kind \in [Requests -> Kinds \cup {None}]
    /\ target \in [Requests -> Items \cup Requests \cup {None}]
    /\ hook \in [Requests -> {"none", "commit", "rollback"}]
    /\ got \in [Requests -> Contents \cup {None}]
    /\ doubtful \in SUBSET Requests
    /\ stranded \in SUBSET Requests

Init ==
    /\ active = Items
    /\ rows = {}
    /\ files = [k \in Requests |-> "none"]
    /\ deleting = {}
    /\ pc = [r \in Requests |-> "idle"]
    /\ kind = [r \in Requests |-> None]
    /\ target = [r \in Requests |-> None]
    /\ hook = [r \in Requests |-> "none"]
    /\ got = [r \in Requests |-> None]
    /\ doubtful = {}
    /\ stranded = {}

Goto(r, label) == pc' = [pc EXCEPT ![r] = label]
Write(k, content) == files' = [files EXCEPT ![k] = content]

\* The key whose file depends on the request's outcome.
Key(r) == IF kind[r] = "add" THEN r ELSE target[r]

Ask(r, what, which) ==
    /\ pc[r] = "idle"
    /\ kind' = [kind EXCEPT ![r] = what]
    /\ target' = [target EXCEPT ![r] = which]

\* The session is closed, with the listeners it still has.
Leave(r) == Goto(r, "done") /\ hook' = [hook EXCEPT ![r] = "none"]

ReachableFile(a) == files[a] # "none" /\ target[a] \in active

\* get_for_owner joins the item, which has to be active.
Reachable(a) == a \in rows /\ target[a] \in active

-----------------------------------------------------------------------------
(* AttachmentService.add.                                                  *)

\* The item is not there (404) or the type is not allowed (403).
RefuseAdd(r, i) ==
    /\ Ask(r, "add", i)
    /\ Goto(r, "done")
    /\ UNCHANGED <<active, rows, files, deleting, hook, got, historyVars>>

\* The file is opened under a fresh key and grows chunk by chunk.
Open(r, i) ==
    /\ Ask(r, "add", i)
    /\ i \in active
    /\ Write(r, "partial")
    /\ Goto(r, "saving")
    /\ UNCHANGED <<active, rows, deleting, hook, got, historyVars>>

\* _bounded passes max_bytes: it deletes the file, then refuses (413).
TooLarge(r) ==
    /\ pc[r] = "saving"
    /\ Write(r, "none")
    /\ Goto(r, "done")
    /\ UNCHANGED <<active, rows, deleting, requestVars, hook, historyVars>>

\* A chunk cannot be read, written or swept; no hook is registered yet.
SaveFails(r) ==
    /\ pc[r] = "saving"
    /\ Goto(r, "done")
    /\ stranded' = stranded \cup {r}
    /\ UNCHANGED <<active, rows, files, deleting, requestVars, hook, doubtful>>

SaveUnhooked(r) ==
    /\ pc[r] = "saving"
    /\ Write(r, "whole")
    /\ Goto(r, "stored")
    /\ UNCHANGED <<active, rows, deleting, requestVars, hook, historyVars>>

\* The file is complete, and its deletion on rollback is registered.
Save(r) ==
    /\ pc[r] = "saving"
    /\ Write(r, "whole")
    /\ hook' = [hook EXCEPT ![r] = "rollback"]
    /\ Goto(r, "stored")
    /\ UNCHANGED <<active, rows, deleting, requestVars, historyVars>>

\* The INSERT is flushed and the upload answered 201.  The item may have been
\* soft-deleted since: its row is there and the foreign key is satisfied.
Insert(r) ==
    /\ pc[r] = "stored"
    /\ Goto(r, "sent")
    /\ UNCHANGED <<active, rows, files, deleting, requestVars, hook, historyVars>>

-----------------------------------------------------------------------------
(* AttachmentService.remove, and the download route.                       *)

Find(r, what, a, label) ==
    /\ Ask(r, what, a)
    /\ \/ Reachable(a) /\ Goto(r, label)
       \/ ~Reachable(a) /\ Goto(r, "done")
    /\ UNCHANGED <<active, rows, files, deleting, hook, got, historyVars>>

FindToRemove(r, a) == Find(r, "remove", a, "found")
FindToDownload(r, a) == Find(r, "download", a, "streaming")

\* A rival has deleted the row and not committed.
Locked(a) == \E x \in Requests : pc[x] = "sent" /\ kind[x] = "remove" /\ target[x] = a

RemoveAtOnce(r) ==
    /\ pc[r] = "found"
    /\ ~Locked(target[r])
    /\ Write(target[r], "none")
    /\ Goto(r, "sent")
    /\ UNCHANGED <<active, rows, deleting, requestVars, hook, historyVars>>

\* The DELETE waits for a rival's; one that matches no row only warns.  The
\* file's deletion on commit is registered, and 204 is answered.
Remove(r) ==
    /\ pc[r] = "found"
    /\ ~Locked(target[r])
    /\ hook' = [hook EXCEPT ![r] = "commit"]
    /\ Goto(r, "sent")
    /\ UNCHANGED <<active, rows, files, deleting, requestVars, historyVars>>

\* StreamingResponse has sent its head when the generator opens the file;
\* a file that is open stays readable.
Download(r) ==
    /\ pc[r] = "streaming"
    /\ got' = [got EXCEPT ![r] = files[target[r]]]
    /\ Goto(r, "done")
    /\ UNCHANGED <<active, rows, files, deleting, kind, target, hook, historyVars>>

-----------------------------------------------------------------------------
(* The end of the transaction, and the deletions it schedules.             *)

\* What the session sees of the outcome; "none" if it is never told.
Fire(r, outcome) ==
    deleting' = IF hook[r] = outcome THEN deleting \cup {Key(r)} ELSE deleting

\* The file a request of this kind should delete now, when its session is not
\* told of the outcome.
Owed(r, what) == IF kind[r] = what THEN {Key(r)} ELSE {}

\* COMMIT lands.  Its acknowledgement may be lost with the connection, which
\* get_session takes for a failure, or the process may die right behind it.
Commit(r) ==
    /\ pc[r] = "sent"
    /\ rows' = IF kind[r] = "add" THEN rows \cup {r} ELSE rows \ {target[r]}
    /\ \/ Fire(r, "commit") /\ UNCHANGED historyVars
       \/ /\ Fire(r, "rollback")
          /\ doubtful' = doubtful \cup {Key(r)}
          /\ stranded' = stranded \cup Owed(r, "remove")
       \/ /\ stranded' = stranded \cup Owed(r, "remove")
          /\ UNCHANGED <<deleting, doubtful>>
    /\ Leave(r)
    /\ UNCHANGED <<active, files, requestVars>>

\* An exception, a failed COMMIT included: get_session rolls back.
Rollback(r) ==
    /\ pc[r] \in {"stored", "found", "sent"}
    /\ Fire(r, "rollback")
    /\ Leave(r)
    /\ UNCHANGED <<active, rows, files, requestVars, historyVars>>

\* The process dies, the task is cancelled (no Exception, so the session is
\* closed without a rollback event) or the ROLLBACK itself raises.
Vanish(r) ==
    /\ pc[r] \notin {"idle", "done"}
    /\ stranded' = stranded \cup Owed(r, "add")
    /\ Leave(r)
    /\ UNCHANGED <<active, rows, files, deleting, requestVars, doubtful>>

DeleteQuietlyNamed(k) ==
    /\ k \in deleting \cap rows
    /\ deleting' = deleting \ {k}
    /\ Write(k, "none")
    /\ UNCHANGED <<active, rows, pc, requestVars, hook, historyVars>>

\* The task of _delete_quietly: the file is unlinked, whoever names it.
DeleteQuietly(k) ==
    /\ k \in deleting
    /\ deleting' = deleting \ {k}
    /\ Write(k, "none")
    /\ UNCHANGED <<active, rows, pc, requestVars, hook, historyVars>>

\* The deletion fails, which is logged, or dies with the process.
DeleteFails(k) ==
    /\ k \in deleting
    /\ deleting' = deleting \ {k}
    /\ stranded' = stranded \cup {k}
    /\ UNCHANGED <<active, rows, files, pc, requestVars, hook, doubtful>>

\* The item is soft-deleted by another route; rows and files stay.
DeleteItem(i) ==
    /\ i \in active
    /\ active' = active \ {i}
    /\ UNCHANGED <<rows, files, deleting, pc, requestVars, hook, historyVars>>

-----------------------------------------------------------------------------
Arrive(r) ==
    \/ \E i \in Items : RefuseAdd(r, i) \/ Open(r, i)
    \/ \E a \in Requests : FindToRemove(r, a) \/ FindToDownload(r, a)

Step(r) ==
    \/ TooLarge(r)
    \/ Save(r)
    \/ Insert(r)
    \/ Remove(r)
    \/ Download(r)
    \/ Commit(r)
    \/ Rollback(r)

Next ==
    \/ \E r \in Requests : Arrive(r) \/ Step(r) \/ SaveFails(r) \/ Vanish(r)
    \/ \E k \in Requests : DeleteQuietly(k) \/ DeleteFails(k)
    \/ \E i \in Items : DeleteItem(i)

Spec == Init /\ [][Next]_vars

\* The event loop resumes every ready task, a scheduled deletion included.
FairSpec ==
    /\ Spec
    /\ \A r \in Requests : WF_vars(Step(r))
    /\ \A k \in Requests : WF_vars(DeleteQuietly(k))

-----------------------------------------------------------------------------
(* Properties.                                                             *)

\* Behind every committed row is its complete file, however uploads, removals,
\* rollbacks and crashes interleave; only a COMMIT that landed without being
\* acknowledged can leave a row whose file is deleted.
RowHasFile == \A a \in rows \ doubtful : files[a] = "whole"

Uploading(k) == kind[k] = "add" /\ pc[k] \in {"saving", "stored", "sent"}

\* A file is in use, has a row, is going to be deleted, or is one whose
\* deletion was lost to a crash or to a failing disk: none is just forgotten.
NoSilentOrphan ==
    \A k \in Requests :
        files[k] # "none" => k \in rows \cup deleting \cup stranded \/ Uploading(k)

\* A download that was answered 200 never delivers an incomplete file, and
\* finds none only if its attachment has been removed meanwhile.
BrokenOnlyIfRemoved ==
    \A r \in Requests :
        /\ got[r] # "partial"
        /\ got[r] = "none" => target[r] \notin rows \ doubtful

\* The file of an upload that left no row is deleted in the end, unless its
\* deletion was lost.
OrphansCollected ==
    \A k \in Requests :
        (kind[k] = "add" /\ pc[k] = "done" /\ k \notin rows) ~>
            (files[k] = "none" \/ k \in stranded)

=============================================================================
