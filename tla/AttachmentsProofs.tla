--------------------------- MODULE AttachmentsProofs ---------------------------
(***************************************************************************)
(* Invariants of Attachments for every set of items and requests.          *)
(***************************************************************************)
EXTENDS Attachments, TLAPS

\* What a request has done by the time it stands where it stands.
Stages ==
    \A r \in Requests :
        /\ pc[r] = "idle" => files[r] = "none" /\ hook[r] = "none"
        /\ pc[r] = "saving" => kind[r] = "add"
        /\ pc[r] = "stored" => kind[r] = "add" /\ files[r] = "whole" /\ hook[r] = "rollback"
        /\ pc[r] = "found" => kind[r] = "remove" /\ hook[r] = "none"
        /\ pc[r] = "streaming" => kind[r] = "download"
        /\ pc[r] = "sent" /\ kind[r] = "add" => files[r] = "whole" /\ hook[r] = "rollback"
        /\ pc[r] = "sent" /\ kind[r] # "add" => kind[r] = "remove" /\ hook[r] = "commit"

\* A row, and a file whose deletion is scheduled, belong to an upload that is
\* over and stored a complete file.
Over ==
    \A k \in rows \cup deleting \cup doubtful :
        kind[k] = "add" /\ pc[k] = "done" /\ files[k] # "partial"

\* An attachment that a request found is of an upload that is over and stored
\* a complete file.
Targets ==
    \A r \in Requests :
        pc[r] \in {"found", "sent", "streaming"} /\ kind[r] # "add" =>
            /\ target[r] \in Requests
            /\ kind[target[r]] = "add" /\ pc[target[r]] = "done"
            /\ files[target[r]] # "partial"

\* A file about to be deleted has no row, or an unacknowledged one.
Doomed == deleting \cap rows \subseteq doubtful

\* A download that found no file asked for an upload that is over.
Missed ==
    \A r \in Requests :
        got[r] = "none" => target[r] \in Requests /\ pc[target[r]] = "done"

\* A request that has read its target is over.
Read == \A r \in Requests : got[r] # None => pc[r] = "done"

IInv ==
    /\ TypeOK
    /\ Stages
    /\ Over
    /\ Targets
    /\ Doomed
    /\ Missed
    /\ Read
    /\ RowHasFile
    /\ NoSilentOrphan
    /\ BrokenOnlyIfRemoved
-----------------------------------------------------------------------------

\* A refused upload writes nothing.
LEMMA RefuseAddStep ==
  ASSUME NEW r \in Requests, NEW i \in Items, IInv, RefuseAdd(r, i) PROVE IInv'
  <1> USE NoneAssumption DEF IInv, RefuseAdd, Ask, Goto, historyVars, Pcs, Kinds, Contents
  <1>1. TypeOK' BY DEF TypeOK
  <1>2. Stages' BY DEF Stages
  <1>3. Over' BY DEF Over
  <1>4. Targets' BY DEF Targets
  <1>5. Doomed' BY DEF Doomed
  <1>6. Missed' BY DEF Missed, Read
  <1>7. Read' BY DEF Read
  <1>8. RowHasFile' BY DEF RowHasFile
  <1>9. NoSilentOrphan' BY DEF NoSilentOrphan, Uploading
  <1>10. BrokenOnlyIfRemoved' BY DEF Read, BrokenOnlyIfRemoved
  <1> QED BY <1>1, <1>2, <1>3, <1>4, <1>5, <1>6, <1>7, <1>8, <1>9, <1>10

\* A fresh key has no row and no deletion, so an open file harms nobody.
LEMMA OpenStep ==
  ASSUME NEW r \in Requests, NEW i \in Items, IInv, Open(r, i) PROVE IInv'
  <1> USE NoneAssumption DEF IInv, Open, Ask, Goto, Write, historyVars, Pcs, Kinds, Contents
  <1>1. TypeOK' BY DEF TypeOK
  <1>2. Stages' BY DEF TypeOK, Stages
  <1>3. Over' BY DEF Over
  <1>4. Targets' BY DEF Targets
  <1>5. Doomed' BY DEF Doomed
  <1>6. Missed' BY DEF Missed, Read
  <1>7. Read' BY DEF Read
  <1>8. RowHasFile' BY DEF Stages, RowHasFile
  <1>9. NoSilentOrphan' BY DEF TypeOK, NoSilentOrphan, Uploading
  <1>10. BrokenOnlyIfRemoved' BY DEF Read, BrokenOnlyIfRemoved
  <1> QED BY <1>1, <1>2, <1>3, <1>4, <1>5, <1>6, <1>7, <1>8, <1>9, <1>10

\* The oversized upload takes its file with it.
LEMMA TooLargeStep ==
  ASSUME NEW r \in Requests, IInv, TooLarge(r) PROVE IInv'
  <1> USE NoneAssumption
        DEF IInv, TooLarge, Goto, Write, requestVars, historyVars, Pcs, Contents
  <1>1. TypeOK' BY DEF TypeOK
  <1>2. Stages' BY DEF Stages
  <1>3. Over' BY DEF Over
  <1>4. Targets' BY DEF Targets
  <1>5. Doomed' BY DEF Doomed
  <1>6. Missed' BY DEF Missed
  <1>7. Read' BY DEF Read
  <1>8. RowHasFile' BY DEF Over, RowHasFile
  <1>9. NoSilentOrphan' BY DEF TypeOK, NoSilentOrphan, Uploading
  <1>10. BrokenOnlyIfRemoved' BY DEF BrokenOnlyIfRemoved
  <1> QED BY <1>1, <1>2, <1>3, <1>4, <1>5, <1>6, <1>7, <1>8, <1>9, <1>10

\* The partial file is recorded as stranded.
LEMMA SaveFailsStep ==
  ASSUME NEW r \in Requests, IInv, SaveFails(r) PROVE IInv'
  <1> USE NoneAssumption DEF IInv, SaveFails, Goto, requestVars, Pcs
  <1>1. TypeOK' BY DEF TypeOK
  <1>2. Stages' BY DEF Stages
  <1>3. Over' BY DEF Over
  <1>4. Targets' BY DEF Targets
  <1>5. Doomed' BY DEF Doomed
  <1>6. Missed' BY DEF Missed
  <1>7. Read' BY DEF Read
  <1>8. RowHasFile' BY DEF RowHasFile
  <1>9. NoSilentOrphan' BY DEF NoSilentOrphan, Uploading
  <1>10. BrokenOnlyIfRemoved' BY DEF BrokenOnlyIfRemoved
  <1> QED BY <1>1, <1>2, <1>3, <1>4, <1>5, <1>6, <1>7, <1>8, <1>9, <1>10

\* The complete file is still that of an upload under way.
LEMMA SaveStep ==
  ASSUME NEW r \in Requests, IInv, Save(r) PROVE IInv'
  <1> USE NoneAssumption
        DEF IInv, Save, Goto, Write, requestVars, historyVars, Pcs, Contents
  <1>1. TypeOK' BY DEF TypeOK
  <1>2. Stages' BY DEF TypeOK, Stages
  <1>3. Over' BY DEF Over
  <1>4. Targets' BY DEF Targets
  <1>5. Doomed' BY DEF Doomed
  <1>6. Missed' BY DEF Missed
  <1>7. Read' BY DEF Read
  <1>8. RowHasFile' BY DEF RowHasFile
  <1>9. NoSilentOrphan' BY DEF Stages, NoSilentOrphan, Uploading
  <1>10. BrokenOnlyIfRemoved' BY DEF BrokenOnlyIfRemoved
  <1> QED BY <1>1, <1>2, <1>3, <1>4, <1>5, <1>6, <1>7, <1>8, <1>9, <1>10

\* The row is not visible before the commit.
LEMMA InsertStep ==
  ASSUME NEW r \in Requests, IInv, Insert(r) PROVE IInv'
  <1> USE NoneAssumption DEF IInv, Insert, Goto, requestVars, historyVars, Pcs
  <1>1. TypeOK' BY DEF TypeOK
  <1>2. Stages' BY DEF Stages
  <1>3. Over' BY DEF Over
  <1>4. Targets' BY DEF Stages, Targets
  <1>5. Doomed' BY DEF Doomed
  <1>6. Missed' BY DEF Missed
  <1>7. Read' BY DEF Read
  <1>8. RowHasFile' BY DEF RowHasFile
  <1>9. NoSilentOrphan' BY DEF NoSilentOrphan, Uploading
  <1>10. BrokenOnlyIfRemoved' BY DEF BrokenOnlyIfRemoved
  <1> QED BY <1>1, <1>2, <1>3, <1>4, <1>5, <1>6, <1>7, <1>8, <1>9, <1>10

\* What a removal finds is an upload that is over.
LEMMA FindToRemoveStep ==
  ASSUME NEW r \in Requests, NEW a \in Requests, IInv, FindToRemove(r, a) PROVE IInv'
  <1> USE NoneAssumption
        DEF IInv, FindToRemove, Find, Ask, Goto, historyVars, Pcs, Kinds, Contents
  <1>1. TypeOK' BY DEF TypeOK
  <1>2. Stages' BY DEF TypeOK, Stages
  <1>3. Over' BY DEF TypeOK, Over
  <1>4. Targets' BY DEF TypeOK, Over, Targets, Reachable
  <1>5. Doomed' BY DEF Doomed
  <1>6. Missed' BY DEF TypeOK, Missed, Read
  <1>7. Read' BY DEF TypeOK, Read
  <1>8. RowHasFile' BY DEF RowHasFile
  <1>9. NoSilentOrphan' BY DEF TypeOK, NoSilentOrphan, Uploading
  <1>10. BrokenOnlyIfRemoved' BY DEF Read, BrokenOnlyIfRemoved
  <1> QED BY <1>1, <1>2, <1>3, <1>4, <1>5, <1>6, <1>7, <1>8, <1>9, <1>10

\* What a download finds is an upload that is over.
LEMMA FindToDownloadStep ==
  ASSUME NEW r \in Requests, NEW a \in Requests, IInv, FindToDownload(r, a) PROVE IInv'
  <1> USE NoneAssumption
        DEF IInv, FindToDownload, Find, Ask, Goto, historyVars, Pcs, Kinds, Contents
  <1>1. TypeOK' BY DEF TypeOK
  <1>2. Stages' BY DEF TypeOK, Stages
  <1>3. Over' BY DEF TypeOK, Over
  <1>4. Targets' BY DEF TypeOK, Over, Targets, Reachable
  <1>5. Doomed' BY DEF Doomed
  <1>6. Missed' BY DEF TypeOK, Missed, Read
  <1>7. Read' BY DEF TypeOK, Read
  <1>8. RowHasFile' BY DEF RowHasFile
  <1>9. NoSilentOrphan' BY DEF TypeOK, NoSilentOrphan, Uploading
  <1>10. BrokenOnlyIfRemoved' BY DEF Read, BrokenOnlyIfRemoved
  <1> QED BY <1>1, <1>2, <1>3, <1>4, <1>5, <1>6, <1>7, <1>8, <1>9, <1>10

\* The file stays until the removal is committed.
LEMMA RemoveStep ==
  ASSUME NEW r \in Requests, IInv, Remove(r) PROVE IInv'
  <1> USE NoneAssumption DEF IInv, Remove, Goto, requestVars, historyVars, Pcs
  <1>1. TypeOK' BY DEF TypeOK
  <1>2. Stages' BY DEF TypeOK, Stages
  <1>3. Over' BY DEF Over
  <1>4. Targets' BY DEF Targets
  <1>5. Doomed' BY DEF Doomed
  <1>6. Missed' BY DEF Missed
  <1>7. Read' BY DEF Read
  <1>8. RowHasFile' BY DEF RowHasFile
  <1>9. NoSilentOrphan' BY DEF NoSilentOrphan, Uploading
  <1>10. BrokenOnlyIfRemoved' BY DEF BrokenOnlyIfRemoved
  <1> QED BY <1>1, <1>2, <1>3, <1>4, <1>5, <1>6, <1>7, <1>8, <1>9, <1>10

\* The file of an upload that is over is whole or deleted, and it is deleted
\* only after its row.
LEMMA DownloadStep ==
  ASSUME NEW r \in Requests, IInv, Download(r) PROVE IInv'
  <1> USE NoneAssumption DEF IInv, Download, Goto, historyVars
  <1>1. TypeOK' BY DEF TypeOK, Stages, Targets
  <1>2. Stages' BY DEF Stages
  <1>3. Over' BY DEF Over
  <1>4. Targets' BY DEF Targets
  <1>5. Doomed' BY DEF Doomed
  <1>6. Missed' BY DEF Stages, Targets, Missed
  <1>7. Read' BY DEF TypeOK, Read
  <1>8. RowHasFile' BY DEF RowHasFile
  <1>9. NoSilentOrphan' BY DEF NoSilentOrphan, Uploading
  <1>10. BrokenOnlyIfRemoved' BY DEF Stages, Targets, RowHasFile, BrokenOnlyIfRemoved
  <1> QED BY <1>1, <1>2, <1>3, <1>4, <1>5, <1>6, <1>7, <1>8, <1>9, <1>10

\* An upload adds a row whose file is whole; a removal drops the row before
\* its file is scheduled.
LEMMA CommitStep ==
  ASSUME NEW r \in Requests, IInv, Commit(r) PROVE IInv'
  <1> USE NoneAssumption DEF IInv, Commit, Goto, Leave, requestVars, historyVars, Pcs
  <1>1. TypeOK' BY DEF TypeOK, Fire, Owed, Key, Targets
  <1>2. Stages' BY DEF TypeOK, Stages
  <1>3. Over' BY SMTT(60) DEF TypeOK, Stages, Over, Targets, Fire, Key
  <1>4. Targets' BY SMTT(60) DEF Targets
  <1>5. Doomed' BY DEF Stages, Over, Doomed, Fire, Key
  <1>6. Missed' BY DEF Missed
  <1>7. Read' BY DEF Read
  <1>8. RowHasFile' BY DEF Stages, RowHasFile
  <1>9. NoSilentOrphan' BY DEF Stages, NoSilentOrphan, Uploading, Fire, Owed, Key
  <1>10. BrokenOnlyIfRemoved' BY DEF Missed, BrokenOnlyIfRemoved
  <1> QED BY <1>1, <1>2, <1>3, <1>4, <1>5, <1>6, <1>7, <1>8, <1>9, <1>10

\* The rollback of an upload schedules a file that never had a row.
LEMMA RollbackStep ==
  ASSUME NEW r \in Requests, IInv, Rollback(r) PROVE IInv'
  <1> USE NoneAssumption DEF IInv, Rollback, Goto, Leave, requestVars, historyVars, Pcs
  <1>1. TypeOK' BY DEF TypeOK, Fire, Key, Stages
  <1>2. Stages' BY DEF TypeOK, Stages
  <1>3. Over' BY DEF TypeOK, Stages, Over, Fire, Key
  <1>4. Targets' BY SMTT(60) DEF Targets
  <1>5. Doomed' BY DEF Stages, Over, Doomed, Fire, Key
  <1>6. Missed' BY DEF Missed
  <1>7. Read' BY DEF Read
  <1>8. RowHasFile' BY DEF RowHasFile
  <1>9. NoSilentOrphan' BY DEF Stages, NoSilentOrphan, Uploading, Fire, Key
  <1>10. BrokenOnlyIfRemoved' BY DEF BrokenOnlyIfRemoved
  <1> QED BY <1>1, <1>2, <1>3, <1>4, <1>5, <1>6, <1>7, <1>8, <1>9, <1>10

\* A request that vanishes strands the file it was uploading.
LEMMA VanishStep ==
  ASSUME NEW r \in Requests, IInv, Vanish(r) PROVE IInv'
  <1> USE NoneAssumption DEF IInv, Vanish, Goto, Leave, requestVars, Pcs
  <1>1. TypeOK' BY DEF TypeOK, Owed, Key
  <1>2. Stages' BY DEF TypeOK, Stages
  <1>3. Over' BY DEF Over
  <1>4. Targets' BY DEF Targets
  <1>5. Doomed' BY DEF Doomed
  <1>6. Missed' BY DEF Missed
  <1>7. Read' BY DEF Read
  <1>8. RowHasFile' BY DEF RowHasFile
  <1>9. NoSilentOrphan' BY DEF NoSilentOrphan, Uploading, Owed, Key
  <1>10. BrokenOnlyIfRemoved' BY DEF BrokenOnlyIfRemoved
  <1> QED BY <1>1, <1>2, <1>3, <1>4, <1>5, <1>6, <1>7, <1>8, <1>9, <1>10

\* A scheduled file has no row, or an unacknowledged one.
LEMMA DeleteQuietlyStep ==
  ASSUME NEW r \in Requests, IInv, DeleteQuietly(r) PROVE IInv'
  <1> USE NoneAssumption DEF IInv, DeleteQuietly, Write, requestVars, historyVars, Contents
  <1>1. TypeOK' BY DEF TypeOK
  <1>2. Stages' BY DEF Stages, Over
  <1>3. Over' BY DEF Over
  <1>4. Targets' BY DEF Targets
  <1>5. Doomed' BY DEF Doomed
  <1>6. Missed' BY DEF Missed
  <1>7. Read' BY DEF Read
  <1>8. RowHasFile' BY DEF RowHasFile, Doomed
  <1>9. NoSilentOrphan' BY DEF TypeOK, NoSilentOrphan, Uploading
  <1>10. BrokenOnlyIfRemoved' BY DEF BrokenOnlyIfRemoved
  <1> QED BY <1>1, <1>2, <1>3, <1>4, <1>5, <1>6, <1>7, <1>8, <1>9, <1>10

\* A deletion that is lost is recorded as stranded.
LEMMA DeleteFailsStep ==
  ASSUME NEW r \in Requests, IInv, DeleteFails(r) PROVE IInv'
  <1> USE NoneAssumption DEF IInv, DeleteFails, requestVars
  <1>1. TypeOK' BY DEF TypeOK
  <1>2. Stages' BY DEF Stages
  <1>3. Over' BY DEF Over
  <1>4. Targets' BY DEF Targets
  <1>5. Doomed' BY DEF Doomed
  <1>6. Missed' BY DEF Missed
  <1>7. Read' BY DEF Read
  <1>8. RowHasFile' BY DEF RowHasFile
  <1>9. NoSilentOrphan' BY DEF NoSilentOrphan, Uploading
  <1>10. BrokenOnlyIfRemoved' BY DEF BrokenOnlyIfRemoved
  <1> QED BY <1>1, <1>2, <1>3, <1>4, <1>5, <1>6, <1>7, <1>8, <1>9, <1>10

\* Deleting the item touches neither rows nor files.
LEMMA DeleteItemStep ==
  ASSUME NEW r \in Items, IInv, DeleteItem(r) PROVE IInv'
  <1> USE NoneAssumption DEF IInv, DeleteItem, requestVars, historyVars
  <1>1. TypeOK' BY DEF TypeOK
  <1>2. Stages' BY DEF Stages
  <1>3. Over' BY DEF Over
  <1>4. Targets' BY DEF Targets
  <1>5. Doomed' BY DEF Doomed
  <1>6. Missed' BY DEF Missed
  <1>7. Read' BY DEF Read
  <1>8. RowHasFile' BY DEF RowHasFile
  <1>9. NoSilentOrphan' BY DEF NoSilentOrphan, Uploading
  <1>10. BrokenOnlyIfRemoved' BY DEF BrokenOnlyIfRemoved
  <1> QED BY <1>1, <1>2, <1>3, <1>4, <1>5, <1>6, <1>7, <1>8, <1>9, <1>10

\* Every reachable state satisfies the inductive invariant.
THEOREM Invariance == Spec => []IInv
  <1>1. Init => IInv
    BY NoneAssumption
    DEF Init, IInv, TypeOK, Stages, Over, Targets, Doomed, Missed, Read, RowHasFile,
        NoSilentOrphan, BrokenOnlyIfRemoved, Pcs, Kinds, Contents
  <1>2. IInv /\ [Next]_vars => IInv'
    <2> SUFFICES ASSUME IInv, [Next]_vars PROVE IInv'
      BY SMTT(60)
    <2>1. CASE UNCHANGED vars
      BY <2>1
      DEF vars, IInv, TypeOK, Stages, Over, Targets, Doomed, Missed, Read, RowHasFile,
          NoSilentOrphan, Uploading, BrokenOnlyIfRemoved
    <2>2. ASSUME NEW r \in Requests, Arrive(r) PROVE IInv'
      BY <2>2, RefuseAddStep, OpenStep, FindToRemoveStep, FindToDownloadStep DEF Arrive
    <2>3. ASSUME NEW r \in Requests, Step(r) PROVE IInv'
      BY <2>3, TooLargeStep, SaveStep, InsertStep, RemoveStep, DownloadStep, CommitStep,
         RollbackStep
      DEF Step
    <2> QED
      BY <2>1, <2>2, <2>3, SaveFailsStep, VanishStep, DeleteQuietlyStep, DeleteFailsStep,
         DeleteItemStep
      DEF Next
  <1> QED BY <1>1, <1>2, PTL DEF Spec

\* Every reachable state is well typed.
THEOREM TypeCorrect == Spec => []TypeOK
  BY Invariance, PTL DEF IInv

\* Behind every committed row is its complete file, unless its COMMIT was not
\* acknowledged.
THEOREM FileBehindRow == Spec => []RowHasFile
  BY Invariance, PTL DEF IInv

\* No file is forgotten: it is in use, has a row, is going to be deleted, or
\* its deletion was lost to a crash or a failing disk.
THEOREM NothingForgotten == Spec => []NoSilentOrphan
  BY Invariance, PTL DEF IInv

\* A download that was answered 200 delivers a complete file, unless the
\* attachment has been removed.
THEOREM DownloadsWhole == Spec => []BrokenOnlyIfRemoved
  BY Invariance, PTL DEF IInv

=============================================================================
