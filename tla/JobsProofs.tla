------------------------------ MODULE JobsProofs ------------------------------
(***************************************************************************)
(* The background jobs and the request log, for any number of replicas,    *)
(* jobs, requests, rows and faults, and any sizes of batch and page: the   *)
(* advisory lock, what a run of a job leaves behind, and what a reader of  *)
(* the log is shown.                                                       *)
(***************************************************************************)
EXTENDS RequestLog, FiniteSetTheorems, TLAPS

-----------------------------------------------------------------------------
(* Type correctness.                                                       *)

\* Idle is a task, and stays one with another label, or with a connection
\* that is lost.
LEMMA IdleTyped == Idle \in Task
BY DEF Idle, Task, Pcs

LEMMA LabelTyped == ASSUME NEW x \in Task, NEW pc \in Pcs PROVE [x EXCEPT !.pc = pc] \in Task
BY DEF Task

LEMMA LostTyped == ASSUME NEW x \in Task, NEW lost \in BOOLEAN PROVE [x EXCEPT !.lost = lost] \in Task
BY Zenon DEF Task

LEMMA LabelLostTyped ==
    ASSUME NEW x \in Task, NEW pc \in Pcs, NEW lost \in BOOLEAN
    PROVE  [x EXCEPT !.pc = pc, !.lost = lost] \in Task
BY Zenon DEF Task

\* A statement's rows are rows.
LEMMA DoomTyped ==
    ASSUME NEW x \in Task, NEW pc \in Pcs, NEW cutoff \in Int, NEW doomed \in SUBSET Row
    PROVE  [x EXCEPT !.pc = pc, !.cutoff = cutoff, !.doomed = doomed] \in Task
BY Zenon DEF Task

LEMMA TakeTyped ==
    ASSUME NEW x \in Task, NEW pc \in Pcs, NEW taken \in SUBSET Row
    PROVE  [x EXCEPT !.pc = pc, !.taken = taken] \in Task
BY Zenon DEF Task

LEMMA AgainTyped ==
    ASSUME NEW x \in Task, NEW pc \in Pcs
    PROVE  [x EXCEPT !.pc = pc, !.doomed = {}, !.taken = {}] \in Task
BY Zenon DEF Task

LEMMA FieldsTyped == ASSUME NEW x \in Task PROVE x.pc \in Pcs /\ x.lost \in BOOLEAN /\ x.doomed \in SUBSET Row
BY Zenon DEF Task

LEMMA TaskTyped == ASSUME TypeOK, NEW r \in Runners, NEW j \in Jobs PROVE task[r][j] \in Task
BY DEF TypeOK

LEMMA SomePcs == {"off", "asleep", "work", "batch", "deleting", "deleted", "unlock", "leaving"} \subseteq Pcs
BY DEF Pcs

LEMMA SetTyped ==
    ASSUME TypeOK, NEW r \in Runners, NEW j \in Jobs, NEW t \in Task, Set(r, j, t)
    PROVE  task' \in [Runners -> [Jobs -> Task]]
BY DEF TypeOK, Set

\* The rows a batch dooms are rows of the table.
LEMMA OldestAmong == ASSUME NEW aged, NEW n PROVE Oldest(aged, n) \subseteq aged
BY DEF Oldest

LEMMA FinishedTyped == ASSUME TypeOK, NEW r \in Runners, NEW j \in Jobs PROVE Finished(r, j) \in Task
<1>1. task[r][j].lost \in BOOLEAN
  BY TaskTyped, FieldsTyped
<1> QED  BY Zenon, <1>1, IdleTyped, LabelLostTyped, SomePcs DEF Finished

\* Every step keeps the types.
LEMMA TypeStep == TypeOK /\ [Next]_vars => TypeOK'
<1> SUFFICES ASSUME TypeOK, [Next]_vars PROVE TypeOK'
  OBVIOUS
<1> USE RunnersAssumption, SizesAssumption, BoundsAssumption
<1>1. ASSUME NEW r \in Runners, NEW j \in Jobs, _delete_batch_before(r, j) PROVE TypeOK'
  <2> DEFINE cutoff == clock - Retention[j]
             aged == {x \in rows[j] : x.at < cutoff}
             doomed == IF j = "expire-tokens" THEN aged ELSE Oldest(aged, BatchSize)
             t == [task[r][j] EXCEPT !.pc = "deleting", !.cutoff = cutoff, !.doomed = doomed]
  <2>1. cutoff \in Int
    BY DEF TypeOK, Time
  <2>2. doomed \in SUBSET Row
    BY OldestAmong DEF TypeOK
  <2>3. t \in Task
    <3> HIDE DEF cutoff, doomed
    <3> QED  BY Zenon, <2>1, <2>2, TaskTyped, DoomTyped, SomePcs
  <2>4. Set(r, j, t)
    BY <1>1 DEF _delete_batch_before
  <2> HIDE DEF t
  <2> QED  BY <1>1, <2>3, <2>4, SetTyped DEF TypeOK, _delete_batch_before
<1>2. ASSUME NEW r \in Runners, NEW j \in Jobs, _affected(r, j) PROVE TypeOK'
  <2> DEFINE t == [task[r][j] EXCEPT !.pc = "deleted", !.taken = task[r][j].doomed \cap rows[j]]
  <2>1. t \in Task
    <3>1. task[r][j].doomed \cap rows[j] \in SUBSET Row
      BY TaskTyped, FieldsTyped
    <3> QED  BY Zenon, <3>1, TaskTyped, TakeTyped, SomePcs
  <2>2. Set(r, j, t)
    BY <1>2 DEF _affected
  <2> HIDE DEF t
  <2> QED  BY <1>2, <2>1, <2>2, SetTyped DEF TypeOK, _affected
<1>3. ASSUME NEW r \in Runners, NEW j \in Jobs, _drain(r, j) PROVE TypeOK'
  <2> DEFINE more == [task[r][j] EXCEPT !.pc = "batch", !.doomed = {}, !.taken = {}]
  <2>1. more \in Task
    BY Zenon, TaskTyped, AgainTyped, SomePcs
  <2>2. PICK t \in {more, Finished(r, j)} : Set(r, j, t)
    BY <1>3 DEF _drain
  <2>3. task' \in [Runners -> [Jobs -> Task]]
    BY <2>1, <2>2, SetTyped, FinishedTyped
  <2>4. rows' \in [Jobs -> SUBSET Row]
    BY <1>3 DEF TypeOK, _drain
  <2> QED  BY <1>3, <2>3, <2>4 DEF TypeOK, _drain
<1>4. ASSUME NEW r \in Runners, NEW j \in Jobs, unlock(r, j) PROVE TypeOK'
  <2> DEFINE t == [Idle EXCEPT !.pc = IF task[r][j].pc = "unlock" THEN "asleep" ELSE "off"]
  <2>1. t \in Task
    BY IdleTyped, LabelTyped, SomePcs
  <2>2. Set(r, j, t)
    BY <1>4 DEF unlock
  <2> HIDE DEF t
  <2> QED  BY <1>4, <2>1, <2>2, SetTyped DEF TypeOK, unlock
<1>5. ASSUME NEW r \in Runners, NEW j \in Jobs, pool_timeout(r, j) PROVE TypeOK'
  <2> DEFINE t == [task[r][j] EXCEPT !.pc = "unlock"]
  <2>1. t \in Task
    BY TaskTyped, LabelTyped, SomePcs
  <2>2. Set(r, j, t)
    BY <1>5 DEF pool_timeout
  <2> HIDE DEF t
  <2> QED  BY <1>5, <2>1, <2>2, SetTyped DEF TypeOK, pool_timeout
<1>6. ASSUME NEW r \in Runners, NEW j \in Jobs, run_once_failed(r, j) PROVE TypeOK'
  <2>1. task' \in [Runners -> [Jobs -> Task]]
    BY <1>6, SetTyped, FinishedTyped DEF run_once_failed
  <2> QED  BY <1>6, <2>1 DEF TypeOK, run_once_failed, Fault
<1>7. ASSUME NEW r \in Runners, NEW j \in Jobs, lose_connection(r, j) PROVE TypeOK'
  <2> DEFINE t == [task[r][j] EXCEPT !.lost = TRUE]
  <2>1. t \in Task
    BY Zenon, TaskTyped, LostTyped
  <2>2. Set(r, j, t)
    BY <1>7 DEF lose_connection
  <2> HIDE DEF t
  <2> QED  BY <1>7, <2>1, <2>2, SetTyped DEF TypeOK, lose_connection, Fault
<1>8. ASSUME NEW r \in Replicas, NEW j \in Jobs, held_by_one_replica(r, j) PROVE TypeOK'
  <2> DEFINE t == [Idle EXCEPT !.pc = "work"]
  <2>1. t \in Task
    BY IdleTyped, LabelTyped, SomePcs
  <2>2. task' = task \/ Set(r, j, t)
    BY <1>8 DEF held_by_one_replica
  <2>3. r \in Runners
    BY DEF Runners
  <2> HIDE DEF t
  <2>4. task' \in [Runners -> [Jobs -> Task]]
    BY <2>1, <2>2, <2>3, SetTyped DEF TypeOK
  <2> QED  BY <1>8, <2>4 DEF TypeOK, held_by_one_replica
<1>9. ASSUME NEW r \in Replicas, start(r) PROVE TypeOK'
  <2>1. [Idle EXCEPT !.pc = "asleep"] \in Task
    BY IdleTyped, LabelTyped, SomePcs
  <2> QED  BY Zenon, <1>9, <2>1 DEF TypeOK, start
<1>10. ASSUME NEW r \in Replicas, stop(r) PROVE TypeOK'
  <2>1. ASSUME NEW j \in Jobs PROVE task[r][j].lost \in BOOLEAN
    BY TaskTyped, FieldsTyped DEF Runners
  <2>2. ASSUME NEW j \in Jobs PROVE [Idle EXCEPT !.pc = "leaving", !.lost = task[r][j].lost] \in Task
    BY Zenon, <2>1, IdleTyped, LabelLostTyped, SomePcs
  <2>3. task' \in [Runners -> [Jobs -> Task]]
    BY Zenon, <1>10, <2>2, IdleTyped DEF TypeOK, stop
  <2>4. lock' \in [Jobs -> Replicas \cup {Nobody}]
    <3>1. lock' = [j \in Jobs |-> IF lock[j] = r /\ task[r][j].pc \notin Working THEN Nobody ELSE lock[j]]
      BY Zenon, <1>10 DEF stop
    <3>2. \A j \in Jobs : lock[j] \in Replicas \cup {Nobody}
      BY DEF TypeOK
    <3> QED  BY <3>1, <3>2
  <2>5. clock' \in Time /\ rows' \in [Jobs -> SUBSET Row] /\ faults' \in 0..MaxFaults
    <3>1. UNCHANGED <<clock, rows>> /\ Fault
      BY Zenon, <1>10 DEF stop
    <3> QED  BY <3>1 DEF TypeOK, Fault
  <2> QED  BY <2>3, <2>4, <2>5 DEF TypeOK
<1>11. ASSUME NEW r \in Replicas, crash(r) PROVE TypeOK'
  <2>1. task' \in [Runners -> [Jobs -> Task]]
    BY Zenon, <1>11, IdleTyped DEF TypeOK, crash
  <2>2. lock' \in [Jobs -> Replicas \cup {Nobody}]
    BY <1>11 DEF TypeOK, crash
  <2>3. clock' \in Time /\ rows' \in [Jobs -> SUBSET Row] /\ faults' \in 0..MaxFaults
    BY <1>11 DEF TypeOK, crash, Fault
  <2> QED  BY <2>1, <2>2, <2>3 DEF TypeOK
<1>12. ASSUME NEW j \in Jobs, prune(j) PROVE TypeOK'
  <2> DEFINE t == [Idle EXCEPT !.pc = "batch"]
  <2>1. t \in Task /\ Operator \in Runners
    BY IdleTyped, LabelTyped, SomePcs DEF Runners
  <2>2. Set(Operator, j, t)
    BY <1>12 DEF prune
  <2> HIDE DEF t
  <2> QED  BY <1>12, <2>1, <2>2, SetTyped DEF TypeOK, prune
<1>13. ASSUME Tick PROVE TypeOK'
  BY <1>13 DEF TypeOK, Tick, Time
<1>14. ASSUME UNCHANGED vars PROVE TypeOK'
  BY <1>14 DEF TypeOK, vars
<1> QED
  BY <1>1, <1>2, <1>3, <1>4, <1>5, <1>6, <1>7, <1>8, <1>9, <1>10, <1>11, <1>12, <1>13, <1>14
     DEF Next, RunStep, FaultStep

LEMMA InitTyped == Init => TypeOK
BY RunnersAssumption, BoundsAssumption, IdleTyped DEF Init, InitWith, Tables, TypeOK

\* Every reachable state of the scheduler, its locks and its tables is well
\* typed; in particular the operator never holds a lock.
THEOREM TypeCorrect == Spec => []TypeOK
BY InitTyped, TypeStep, PTL DEF Spec

-----------------------------------------------------------------------------
(* The lock.                                                               *)

\* A run that works, and has not lost the lock's connection, holds the lock.
RunnerHolds ==
    \A r \in Replicas, j \in Jobs : task[r][j].pc \in Working /\ ~task[r][j].lost => lock[j] = r

\* The lock and the runs agree: both directions are needed, since a lock is
\* freed by whoever it belongs to and taken by whoever finds it free.
LockInv == LockIsInUse /\ RunnerHolds

\* What Set does to every task.
LEMMA SetAt ==
    ASSUME TypeOK, NEW r \in Runners, NEW j \in Jobs, NEW t, Set(r, j, t), NEW s \in Runners, NEW k \in Jobs
    PROVE  task'[s][k] = IF s = r /\ k = j THEN t ELSE task[s][k]
BY DEF TypeOK, Set

\* The labels and the flag of the records that the actions store.
LEMMA StoredFields ==
    ASSUME NEW x \in Task, NEW pc, NEW lost, NEW cutoff, NEW doomed, NEW taken
    PROVE  /\ [x EXCEPT !.pc = pc].pc = pc /\ [x EXCEPT !.pc = pc].lost = x.lost
           /\ [x EXCEPT !.lost = lost].pc = x.pc /\ [x EXCEPT !.lost = lost].lost = lost
           /\ [x EXCEPT !.pc = pc, !.lost = lost].pc = pc /\ [x EXCEPT !.pc = pc, !.lost = lost].lost = lost
           /\ [x EXCEPT !.pc = pc, !.cutoff = cutoff, !.doomed = doomed].pc = pc
           /\ [x EXCEPT !.pc = pc, !.cutoff = cutoff, !.doomed = doomed].lost = x.lost
           /\ [x EXCEPT !.pc = pc, !.taken = taken].pc = pc
           /\ [x EXCEPT !.pc = pc, !.taken = taken].lost = x.lost
           /\ [x EXCEPT !.pc = pc, !.doomed = doomed, !.taken = taken].pc = pc
           /\ [x EXCEPT !.pc = pc, !.doomed = doomed, !.taken = taken].lost = x.lost
BY DEF Task

LEMMA IdleFields == Idle.pc = "off" /\ Idle.lost = FALSE
BY DEF Idle

\* A run that goes on, or ends its work, keeps the lock it has: the lock is
\* as before, the task keeps its flag and does not go back to work.
LEMMA KeepsLock ==
    ASSUME TypeOK, LockInv, NEW r \in Runners, NEW j \in Jobs, NEW t, Set(r, j, t), UNCHANGED lock,
           r \in Replicas => /\ t.lost = task[r][j].lost
                             /\ t.pc \in Working \cup {"unlock", "leaving"}
                             /\ task[r][j].pc \in Working
    PROVE  LockInv'
<1>1. ASSUME NEW s \in Replicas, NEW k \in Jobs, lock'[k] = s
      PROVE  task'[s][k].pc \in Working \cup {"unlock", "leaving"} /\ ~task'[s][k].lost
  BY <1>1, SetAt DEF LockInv, LockIsInUse, Runners
<1>2. ASSUME NEW s \in Replicas, NEW k \in Jobs, task'[s][k].pc \in Working, ~task'[s][k].lost
      PROVE  lock'[k] = s
  BY <1>2, SetAt DEF LockInv, RunnerHolds, Runners
<1> QED  BY <1>1, <1>2 DEF LockInv, LockIsInUse, RunnerHolds

LEMMA LockInit == Init => LockInv
<1> SUFFICES ASSUME Init PROVE LockInv
  OBVIOUS
<1>1. \A r \in Replicas, j \in Jobs : task[r][j] = Idle /\ lock[j] = Nobody
  BY DEF Init, InitWith, Runners
<1>2. Idle.pc \notin Working
  BY IdleFields DEF Working
<1> QED  BY <1>1, <1>2, RunnersAssumption DEF LockInv, LockIsInUse, RunnerHolds

\* Every step keeps the lock and the runs in agreement.
LEMMA LockStep == TypeOK /\ LockInv /\ [Next]_vars => LockInv'
<1> SUFFICES ASSUME TypeOK, LockInv, [Next]_vars PROVE LockInv'
  OBVIOUS
<1> DEFINE Busy == Working \cup {"unlock", "leaving"}
<1>0. /\ "work" \in Working /\ "batch" \in Working /\ "deleting" \in Working /\ "deleted" \in Working
      /\ "off" \notin Busy /\ "asleep" \notin Busy /\ "unlock" \notin Working /\ "leaving" \notin Working
  BY DEF Working
<1>1. ASSUME NEW r \in Runners, NEW j \in Jobs, _delete_batch_before(r, j) PROVE LockInv'
  <2> DEFINE cutoff == clock - Retention[j]
             aged == {x \in rows[j] : x.at < cutoff}
             doomed == IF j = "expire-tokens" THEN aged ELSE Oldest(aged, BatchSize)
             t == [task[r][j] EXCEPT !.pc = "deleting", !.cutoff = cutoff, !.doomed = doomed]
  <2>1. Set(r, j, t) /\ UNCHANGED lock /\ task[r][j].pc \in {"batch", "work"}
    BY <1>1 DEF _delete_batch_before
  <2>2. t.pc = "deleting" /\ t.lost = task[r][j].lost
    <3> HIDE DEF cutoff, doomed
    <3> QED  BY TaskTyped, StoredFields
  <2> HIDE DEF t
  <2> QED  BY <1>0, <2>1, <2>2, KeepsLock
<1>2. ASSUME NEW r \in Runners, NEW j \in Jobs, _affected(r, j) PROVE LockInv'
  <2> DEFINE t == [task[r][j] EXCEPT !.pc = "deleted", !.taken = task[r][j].doomed \cap rows[j]]
  <2>1. Set(r, j, t) /\ UNCHANGED lock /\ task[r][j].pc = "deleting"
    BY <1>2 DEF _affected
  <2>2. t.pc = "deleted" /\ t.lost = task[r][j].lost
    BY TaskTyped, StoredFields
  <2> HIDE DEF t
  <2> QED  BY <1>0, <2>1, <2>2, KeepsLock
<1>3. ASSUME NEW r \in Runners, NEW j \in Jobs, _drain(r, j) PROVE LockInv'
  <2>1. r \in Replicas => Finished(r, j).pc = "unlock" /\ Finished(r, j).lost = task[r][j].lost
    BY IdleTyped, StoredFields, RunnersAssumption DEF Finished
  <2> DEFINE more == [task[r][j] EXCEPT !.pc = "batch", !.doomed = {}, !.taken = {}]
  <2>2. more.pc = "batch" /\ more.lost = task[r][j].lost
    BY TaskTyped, StoredFields
  <2>3. UNCHANGED lock /\ task[r][j].pc = "deleted" /\ \E t \in {more, Finished(r, j)} : Set(r, j, t)
    BY <1>3 DEF _drain
  <2> HIDE DEF more
  <2> QED  BY <1>0, <2>1, <2>2, <2>3, KeepsLock
<1>4. ASSUME NEW r \in Runners, NEW j \in Jobs, unlock(r, j) PROVE LockInv'
  <2> DEFINE t == [Idle EXCEPT !.pc = IF task[r][j].pc = "unlock" THEN "asleep" ELSE "off"]
  <2>1. t.pc \in {"asleep", "off"}
    BY IdleTyped, StoredFields
  <2>2. Set(r, j, t)
    BY <1>4 DEF unlock
  <2> HIDE DEF t
  <2>3. /\ \A k \in Jobs \ {j} : lock'[k] = lock[k]
        /\ lock'[j] # r \/ r \notin Replicas
        /\ lock[j] # r => lock'[j] = lock[j]
        /\ lock[j] = r => lock'[j] = Nobody
    BY <1>4, RunnersAssumption DEF unlock, TypeOK
  <2>4. ASSUME NEW s \in Replicas, NEW k \in Jobs, lock'[k] = s
        PROVE  task'[s][k].pc \in Busy /\ ~task'[s][k].lost
    BY <2>2, <2>3, <2>4, SetAt, RunnersAssumption DEF LockInv, LockIsInUse, Runners
  <2>5. ASSUME NEW s \in Replicas, NEW k \in Jobs, task'[s][k].pc \in Working, ~task'[s][k].lost
        PROVE  lock'[k] = s
    BY <1>0, <2>1, <2>2, <2>3, <2>5, SetAt DEF LockInv, RunnerHolds, Runners
  <2> QED  BY <2>4, <2>5 DEF LockInv, LockIsInUse, RunnerHolds
<1>5. ASSUME NEW r \in Runners, NEW j \in Jobs, pool_timeout(r, j) PROVE LockInv'
  <2> DEFINE t == [task[r][j] EXCEPT !.pc = "unlock"]
  <2>1. Set(r, j, t) /\ UNCHANGED lock /\ task[r][j].pc = "work"
    BY <1>5 DEF pool_timeout
  <2>2. t.pc = "unlock" /\ t.lost = task[r][j].lost
    BY TaskTyped, StoredFields
  <2> HIDE DEF t
  <2> QED  BY <1>0, <2>1, <2>2, KeepsLock
<1>6. ASSUME NEW r \in Runners, NEW j \in Jobs, run_once_failed(r, j) PROVE LockInv'
  <2>1. r \in Replicas => Finished(r, j).pc = "unlock" /\ Finished(r, j).lost = task[r][j].lost
    BY IdleTyped, StoredFields, RunnersAssumption DEF Finished
  <2>2. Set(r, j, Finished(r, j)) /\ UNCHANGED lock /\ task[r][j].pc \in Working
    BY <1>6 DEF run_once_failed
  <2> QED  BY <2>1, <2>2, KeepsLock
<1>7. ASSUME NEW r \in Runners, NEW j \in Jobs, lose_connection(r, j) PROVE LockInv'
  <2>1. PICK t : Set(r, j, t) /\ t.lost /\ t.pc = task[r][j].pc
    BY ZenonT(60), <1>7, TaskTyped, StoredFields DEF lose_connection
  <2>2. lock'[j] = Nobody /\ \A k \in Jobs \ {j} : lock'[k] = lock[k]
    BY <1>7 DEF lose_connection, TypeOK
  <2>3. lock[j] = r
    BY <1>7 DEF lose_connection
  <2>4. ASSUME NEW s \in Replicas, NEW k \in Jobs, lock'[k] = s
        PROVE  task'[s][k].pc \in Busy /\ ~task'[s][k].lost
    BY <2>1, <2>2, <2>4, SetAt, RunnersAssumption DEF LockInv, LockIsInUse, Runners
  <2>5. ASSUME NEW s \in Replicas, NEW k \in Jobs, task'[s][k].pc \in Working, ~task'[s][k].lost
        PROVE  lock'[k] = s
    BY <2>1, <2>2, <2>3, <2>5, SetAt DEF LockInv, RunnerHolds, Runners
  <2> QED  BY <2>4, <2>5 DEF LockInv, LockIsInUse, RunnerHolds
<1>8. ASSUME NEW r \in Replicas, NEW j \in Jobs, held_by_one_replica(r, j) PROVE LockInv'
  <2>1. CASE lock[j] = Nobody
    <3> DEFINE t == [Idle EXCEPT !.pc = "work"]
    <3>1. t.pc = "work" /\ ~t.lost
      BY IdleTyped, IdleFields, StoredFields
    <3>2. Set(r, j, t)
      BY <1>8, <2>1 DEF held_by_one_replica
    <3> HIDE DEF t
    <3>3. lock'[j] = r /\ \A k \in Jobs \ {j} : lock'[k] = lock[k]
      BY <1>8, <2>1 DEF held_by_one_replica, TypeOK
    <3>4. ASSUME NEW s \in Replicas, NEW k \in Jobs, lock'[k] = s
          PROVE  task'[s][k].pc \in Busy /\ ~task'[s][k].lost
      BY <1>0, <3>1, <3>2, <3>3, <3>4, SetAt DEF LockInv, LockIsInUse, Runners
    <3>5. ASSUME NEW s \in Replicas, NEW k \in Jobs, task'[s][k].pc \in Working, ~task'[s][k].lost
          PROVE  lock'[k] = s
      BY <2>1, <3>1, <3>2, <3>3, <3>5, SetAt, RunnersAssumption DEF LockInv, RunnerHolds, Runners
    <3> QED  BY <3>4, <3>5 DEF LockInv, LockIsInUse, RunnerHolds
  <2>2. CASE lock[j] # Nobody
    BY <1>8, <2>2 DEF held_by_one_replica, LockInv, LockIsInUse, RunnerHolds
  <2> QED  BY <2>1, <2>2
<1>9. ASSUME NEW r \in Replicas, start(r) PROVE LockInv'
  <2>1. /\ \A k \in Jobs : task'[r][k].pc = "asleep" /\ task[r][k].pc = "off"
        /\ \A s \in Replicas \ {r}, k \in Jobs : task'[s][k] = task[s][k]
    BY <1>9, IdleTyped, StoredFields DEF start, TypeOK, Runners
  <2>2. UNCHANGED lock
    BY <1>9 DEF start
  <2> QED  BY <1>0, <2>1, <2>2 DEF LockInv, LockIsInUse, RunnerHolds
<1>10. ASSUME NEW r \in Replicas, stop(r) PROVE LockInv'
  <2> DEFINE Left(k) == [Idle EXCEPT !.pc = "leaving", !.lost = task[r][k].lost]
  <2>1. task' = [task EXCEPT ![r] = [k \in Jobs |-> IF task[r][k].pc \in Working THEN Left(k) ELSE Idle]]
    BY Zenon, <1>10 DEF stop
  <2>2. ASSUME NEW k \in Jobs PROVE Left(k).pc = "leaving" /\ Left(k).lost = task[r][k].lost
    BY IdleTyped, StoredFields
  <2> HIDE DEF Left
  <2>3. /\ \A k \in Jobs : task'[r][k] = IF task[r][k].pc \in Working THEN Left(k) ELSE Idle
        /\ \A s \in Replicas \ {r}, k \in Jobs : task'[s][k] = task[s][k]
    BY <2>1 DEF TypeOK, Runners
  <2>4. /\ \A k \in Jobs : /\ task'[r][k].pc \notin Working
                           /\ task[r][k].pc \in Working => /\ task'[r][k].pc = "leaving"
                                                          /\ task'[r][k].lost = task[r][k].lost
        /\ \A s \in Replicas \ {r}, k \in Jobs : task'[s][k] = task[s][k]
    BY <1>0, <2>2, <2>3, IdleFields
  <2>5. \A k \in Jobs : lock'[k] = IF lock[k] = r /\ task[r][k].pc \notin Working THEN Nobody ELSE lock[k]
    BY Zenon, <1>10 DEF stop
  <2> QED  BY <2>4, <2>5, RunnersAssumption DEF LockInv, LockIsInUse, RunnerHolds
<1>11. ASSUME NEW r \in Replicas, crash(r) PROVE LockInv'
  <2>1. /\ \A k \in Jobs : task'[r][k].pc = "off"
        /\ \A s \in Replicas \ {r}, k \in Jobs : task'[s][k] = task[s][k]
    BY <1>11, IdleFields DEF crash, TypeOK, Runners
  <2>2. \A k \in Jobs : lock'[k] = IF lock[k] = r THEN Nobody ELSE lock[k]
    BY <1>11 DEF crash
  <2> QED  BY <1>0, <2>1, <2>2, RunnersAssumption DEF LockInv, LockIsInUse, RunnerHolds
<1>12. ASSUME NEW j \in Jobs, prune(j) PROVE LockInv'
  <2>1. PICK t : Set(Operator, j, t) /\ UNCHANGED lock
    BY <1>12 DEF prune
  <2> QED  BY <2>1, KeepsLock, RunnersAssumption DEF Runners
<1>13. ASSUME UNCHANGED <<lock, task>> PROVE LockInv'
  BY <1>13 DEF LockInv, LockIsInUse, RunnerHolds
<1> QED
  BY <1>1, <1>2, <1>3, <1>4, <1>5, <1>6, <1>7, <1>8, <1>9, <1>10, <1>11, <1>12, <1>13
     DEF Next, RunStep, FaultStep, Tick, vars

\* The lock and the runs agree in every reachable state.
THEOREM LockAgrees == Spec => [](TypeOK /\ LockInv)
BY InitTyped, TypeStep, LockInit, LockStep, PTL DEF Spec

\* Whatever a run dies of, the lock it took is held by a run that is still
\* going: for any number of replicas and jobs, any pool, and any faults.
THEOREM LocksAreInUse == Spec => []LockIsInUse
<1>1. LockInv => LockIsInUse
  BY DEF LockInv
<1> QED  BY <1>1, LockAgrees, PTL

\* Two replicas work on one job at once only if one of them has lost the
\* connection that held its lock.
THEOREM OneRunner == Spec => []SoleRunner
<1>1. LockInv => SoleRunner
  BY DEF LockInv, RunnerHolds, SoleRunner
<1> QED  BY <1>1, LockAgrees, PTL

-----------------------------------------------------------------------------
(* What a run leaves behind.                                               *)

Deleting == {"deleting", "deleted"}

\* The tables are finite, and so is what a statement dooms.
FiniteTables == \A j \in Jobs : IsFiniteSet(rows[j])

\* A statement that did not fill its batch has doomed everything that aged
\* out.  Rivals only take rows away, so this stays true while it waits.
DoomsAll ==
    \A r \in Runners, j \in Jobs :
        task[r][j].pc \in Deleting =>
            /\ IsFiniteSet(task[r][j].doomed)
            /\ j = "expire-tokens" \/ Cardinality(task[r][j].doomed) < BatchSize
                  => \A x \in rows[j] : x.at < task[r][j].cutoff => x \in task[r][j].doomed

DrainInv == FiniteTables /\ DoomsAll

\* The natural numbers are well ordered.
LEMMA LeastNat ==
    ASSUME NEW T, T \subseteq Nat, T # {}
    PROVE  \E m \in T : \A n \in T : ~(n < m)
<1>1. \E m \in T : \A n \in T : ~(<<n, m>> \in OpToRel(<, Nat))
  BY NatLessThanWellFounded, WFMin
<1> QED  BY <1>1 DEF OpToRel

\* A set of rows that is not empty has one with the least id.
LEMMA LeastId ==
    ASSUME NEW S \in SUBSET Row, S # {}
    PROVE  \E x \in S : \A y \in S : ~(y.id < x.id)
<1> DEFINE T == {x.id : x \in S}
<1>1. T \subseteq Nat /\ T # {}
  BY SizesAssumption DEF Row
<1>2. \E m \in T : \A n \in T : ~(n < m)
  <2> HIDE DEF T
  <2> QED  BY Zenon, <1>1, LeastNat
<1> QED  BY <1>2

\* The first n rows are all there are, if they are fewer than n: of the rows
\* left out take the one with the least id.  The n rows before it are not left
\* out, so they are among the first.
LEMMA ShortBatchIsAll ==
    ASSUME NEW aged \in SUBSET Row, IsFiniteSet(aged), NEW n \in Nat,
           Cardinality(Oldest(aged, n)) < n
    PROVE  Oldest(aged, n) = aged
<1> SUFFICES ASSUME aged \ Oldest(aged, n) # {} PROVE FALSE
  BY OldestAmong
<1> DEFINE Before(x) == {y \in aged : y.id < x.id}
<1>1. PICK x \in aged \ Oldest(aged, n) : \A y \in aged \ Oldest(aged, n) : ~(y.id < x.id)
  <2> DEFINE left == aged \ Oldest(aged, n)
  <2>1. left \in SUBSET Row /\ left # {}
    OBVIOUS
  <2> HIDE DEF left
  <2>2. \E x \in left : \A y \in left : ~(y.id < x.id)
    BY <2>1, LeastId
  <2> QED  BY <2>2 DEF left
<1>2. Before(x) \subseteq Oldest(aged, n)
  BY Zenon, <1>1
<1>3. ~(Cardinality(Before(x)) < n)
  BY Zenon, <1>1 DEF Oldest
<1>4. IsFiniteSet(Oldest(aged, n))
  BY Zenon, OldestAmong, FS_Subset
<1>5. /\ Cardinality(Oldest(aged, n)) \in Nat /\ Cardinality(Before(x)) \in Nat
      /\ Cardinality(Before(x)) <= Cardinality(Oldest(aged, n))
  <2> HIDE DEF Before
  <2> QED  BY Zenon, <1>2, <1>4, FS_Subset, FS_CardinalityType
<1> QED
  <2> HIDE DEF Before
  <2> QED  BY <1>3, <1>5

LEMMA DrainInit == Init => DrainInv
<1> SUFFICES ASSUME Init PROVE DrainInv
  OBVIOUS
<1>1. FiniteTables
  BY Zenon DEF Init, InitWith, Tables, FiniteTables
<1>2. \A r \in Runners, j \in Jobs : task[r][j].pc = "off"
  BY IdleFields DEF Init, InitWith
<1> QED  BY <1>1, <1>2 DEF DrainInv, DoomsAll, Deleting

\* A step that starts no statement keeps what the statements have doomed.
LEMMA DrainFrame ==
    ASSUME DrainInv,
           \A j \in Jobs : rows'[j] \in SUBSET rows[j],
           \A r \in Runners, j \in Jobs :
               task'[r][j].pc \in Deleting =>
                   /\ task[r][j].pc \in Deleting
                   /\ task'[r][j].cutoff = task[r][j].cutoff
                   /\ task'[r][j].doomed = task[r][j].doomed
    PROVE  DrainInv'
<1>1. FiniteTables'
  BY Zenon, FS_Subset DEF DrainInv, FiniteTables
<1>2. DoomsAll'
  <2> SUFFICES ASSUME NEW r \in Runners, NEW j \in Jobs, task'[r][j].pc \in Deleting
               PROVE  /\ IsFiniteSet(task[r][j].doomed)
                      /\ j = "expire-tokens" \/ Cardinality(task[r][j].doomed) < BatchSize
                            => \A x \in rows'[j] : x.at < task[r][j].cutoff => x \in task[r][j].doomed
    BY DEF DoomsAll, Deleting
  <2>1. task[r][j].pc \in Deleting /\ rows'[j] \subseteq rows[j]
    BY Zenon
  <2> QED  BY Zenon, <2>1 DEF DrainInv, DoomsAll
<1> QED  BY Zenon, <1>1, <1>2 DEF DrainInv

\* The same for one task that takes another record.
LEMMA DrainSet ==
    ASSUME TypeOK, DrainInv, NEW r \in Runners, NEW j \in Jobs, NEW t, Set(r, j, t),
           \A k \in Jobs : rows'[k] \in SUBSET rows[k],
           t.pc \in Deleting => /\ task[r][j].pc \in Deleting
                                /\ t.cutoff = task[r][j].cutoff
                                /\ t.doomed = task[r][j].doomed
    PROVE  DrainInv'
<1>1. ASSUME NEW s \in Runners, NEW k \in Jobs, task'[s][k].pc \in Deleting
      PROVE  /\ task[s][k].pc \in Deleting
             /\ task'[s][k].cutoff = task[s][k].cutoff
             /\ task'[s][k].doomed = task[s][k].doomed
  <2>1. task'[s][k] = IF s = r /\ k = j THEN t ELSE task[s][k]
    BY SetAt
  <2> QED  BY <1>1, <2>1
<1> QED  BY Zenon, <1>1, DrainFrame

\* The rows of the records that the actions store.
LEMMA StoredRows ==
    ASSUME NEW x \in Task, NEW pc, NEW lost, NEW cutoff, NEW doomed, NEW taken
    PROVE  /\ [x EXCEPT !.lost = lost].cutoff = x.cutoff /\ [x EXCEPT !.lost = lost].doomed = x.doomed
           /\ [x EXCEPT !.pc = pc, !.cutoff = cutoff, !.doomed = doomed].cutoff = cutoff
           /\ [x EXCEPT !.pc = pc, !.cutoff = cutoff, !.doomed = doomed].doomed = doomed
           /\ [x EXCEPT !.pc = pc, !.taken = taken].cutoff = x.cutoff
           /\ [x EXCEPT !.pc = pc, !.taken = taken].doomed = x.doomed
BY DEF Task

\* Every step keeps it: only the start of a statement has to look at the table.
LEMMA DrainStep == TypeOK /\ DrainInv /\ [Next]_vars => DrainInv'
<1> SUFFICES ASSUME TypeOK, DrainInv, [Next]_vars PROVE DrainInv'
  OBVIOUS
<1>0. /\ "work" \notin Deleting /\ "batch" \notin Deleting /\ "off" \notin Deleting
      /\ "asleep" \notin Deleting /\ "unlock" \notin Deleting /\ "leaving" \notin Deleting
      /\ "deleting" \in Deleting /\ "deleted" \in Deleting
  BY DEF Deleting
<1>1. ASSUME NEW r \in Runners, NEW j \in Jobs, _delete_batch_before(r, j) PROVE DrainInv'
  <2> DEFINE cutoff == clock - Retention[j]
             aged == {x \in rows[j] : x.at < cutoff}
             doomed == IF j = "expire-tokens" THEN aged ELSE Oldest(aged, BatchSize)
             t == [task[r][j] EXCEPT !.pc = "deleting", !.cutoff = cutoff, !.doomed = doomed]
  <2>1. Set(r, j, t) /\ UNCHANGED rows
    BY <1>1 DEF _delete_batch_before
  <2>2. aged \in SUBSET Row /\ IsFiniteSet(aged)
    <3>1. rows[j] \in SUBSET Row /\ IsFiniteSet(rows[j]) /\ aged \in SUBSET rows[j]
      BY DEF TypeOK, DrainInv, FiniteTables
    <3> HIDE DEF aged
    <3> QED  BY Zenon, <3>1, FS_Subset
  <2>3. IsFiniteSet(doomed) /\ (j = "expire-tokens" \/ Cardinality(doomed) < BatchSize => doomed = aged)
    <3> HIDE DEF aged
    <3>1. IsFiniteSet(Oldest(aged, BatchSize))
      BY Zenon, <2>2, OldestAmong, FS_Subset
    <3>2. Cardinality(Oldest(aged, BatchSize)) < BatchSize => Oldest(aged, BatchSize) = aged
      BY Zenon, <2>2, ShortBatchIsAll, SizesAssumption
    <3> QED  BY Zenon, <2>2, <3>1, <3>2
  <2>4. \A x \in rows[j] : x.at < cutoff => x \in aged
    OBVIOUS
  <2> HIDE DEF cutoff, aged, doomed
  <2>5. t.cutoff = cutoff /\ t.doomed = doomed
    BY TaskTyped, StoredRows
  <2> HIDE DEF t
  <2>6. FiniteTables'
    BY Zenon, <2>1 DEF DrainInv, FiniteTables
  <2>7. ASSUME NEW s \in Runners, NEW k \in Jobs, task'[s][k].pc \in Deleting
        PROVE  /\ IsFiniteSet(task'[s][k].doomed)
               /\ k = "expire-tokens" \/ Cardinality(task'[s][k].doomed) < BatchSize
                     => \A x \in rows'[k] : x.at < task'[s][k].cutoff => x \in task'[s][k].doomed
    <3>1. CASE s = r /\ k = j
      <4>1. task'[s][k] = t
        BY <2>1, <3>1, SetAt
      <4> QED  BY Zenon, <2>1, <2>3, <2>4, <2>5, <3>1, <4>1
    <3>2. CASE ~(s = r /\ k = j)
      <4>1. task'[s][k] = task[s][k]
        BY <2>1, <3>2, SetAt
      <4> QED  BY Zenon, <2>1, <2>7, <4>1 DEF DrainInv, DoomsAll
    <3> QED  BY Zenon, <3>1, <3>2
  <2> QED  BY Zenon, <2>6, <2>7 DEF DrainInv, DoomsAll, Deleting
<1>2. ASSUME NEW r \in Runners, NEW j \in Jobs, _affected(r, j) PROVE DrainInv'
  <2> DEFINE t == [task[r][j] EXCEPT !.pc = "deleted", !.taken = task[r][j].doomed \cap rows[j]]
  <2>1. Set(r, j, t) /\ UNCHANGED rows /\ task[r][j].pc = "deleting"
    BY <1>2 DEF _affected
  <2>2. t.cutoff = task[r][j].cutoff /\ t.doomed = task[r][j].doomed
    BY TaskTyped, StoredRows
  <2> HIDE DEF t
  <2> QED  BY Zenon, <1>0, <2>1, <2>2, DrainSet
<1>3. ASSUME NEW r \in Runners, NEW j \in Jobs, NEW t, Set(r, j, t), t.pc \notin Deleting,
             \A k \in Jobs : rows'[k] \in SUBSET rows[k]
      PROVE  DrainInv'
  BY Zenon, <1>3, DrainSet
<1>4. ASSUME NEW r \in Runners, NEW j \in Jobs PROVE Finished(r, j).pc \notin Deleting
  BY <1>0, IdleTyped, IdleFields, StoredFields DEF Finished
<1>5. ASSUME NEW r \in Runners, NEW j \in Jobs, _drain(r, j) PROVE DrainInv'
  <2> DEFINE more == [task[r][j] EXCEPT !.pc = "batch", !.doomed = {}, !.taken = {}]
  <2>1. more.pc \notin Deleting
    BY <1>0, TaskTyped, StoredFields
  <2>2. \E t \in {more, Finished(r, j)} : Set(r, j, t)
    BY <1>5 DEF _drain
  <2>3. \A k \in Jobs : rows'[k] \in SUBSET rows[k]
    BY <1>5 DEF _drain, TypeOK
  <2> HIDE DEF more
  <2> QED  BY <1>3, <1>4, <2>1, <2>2, <2>3
<1>6. ASSUME NEW r \in Runners, NEW j \in Jobs, unlock(r, j) \/ pool_timeout(r, j) PROVE DrainInv'
  <2>1. /\ [Idle EXCEPT !.pc = "asleep"].pc \notin Deleting /\ [Idle EXCEPT !.pc = "off"].pc \notin Deleting
        /\ [task[r][j] EXCEPT !.pc = "unlock"].pc \notin Deleting
    BY <1>0, IdleTyped, TaskTyped, StoredFields
  <2>2. UNCHANGED rows /\ \E t : Set(r, j, t) /\ t.pc \notin Deleting
    BY Zenon, <1>6, <2>1 DEF unlock, pool_timeout
  <2> QED  BY <1>3, <2>2
<1>7. ASSUME NEW r \in Runners, NEW j \in Jobs, run_once_failed(r, j) PROVE DrainInv'
  BY <1>3, <1>4, <1>7 DEF run_once_failed
<1>8. ASSUME NEW r \in Runners, NEW j \in Jobs, lose_connection(r, j) PROVE DrainInv'
  <2> DEFINE t == [task[r][j] EXCEPT !.lost = TRUE]
  <2>1. t.cutoff = task[r][j].cutoff /\ t.doomed = task[r][j].doomed /\ t.pc = task[r][j].pc
    BY TaskTyped, StoredFields, StoredRows
  <2>2. Set(r, j, t) /\ UNCHANGED rows
    BY Zenon, <1>8 DEF lose_connection
  <2> HIDE DEF t
  <2> QED  BY Zenon, <2>1, <2>2, DrainSet
<1>9. ASSUME NEW r \in Replicas, NEW j \in Jobs, held_by_one_replica(r, j) PROVE DrainInv'
  <2>1. [Idle EXCEPT !.pc = "work"].pc \notin Deleting
    BY Zenon, <1>0, IdleTyped, StoredFields
  <2>2. UNCHANGED rows /\ (UNCHANGED task \/ Set(r, j, [Idle EXCEPT !.pc = "work"]))
    BY Zenon, <1>9 DEF held_by_one_replica
  <2>3. r \in Runners
    BY Zenon DEF Runners
  <2>4. CASE UNCHANGED task
    BY Zenon, <2>2, <2>4, DrainFrame
  <2>5. CASE Set(r, j, [Idle EXCEPT !.pc = "work"])
    BY <1>3, <2>1, <2>2, <2>3, <2>5
  <2> QED  BY Zenon, <2>2, <2>4, <2>5
<1>10. ASSUME NEW r \in Replicas, start(r) \/ stop(r) \/ crash(r) PROVE DrainInv'
  <2>1. UNCHANGED rows
    BY Zenon, <1>10 DEF start, stop, crash
  <2>2. PICK f \in {[k \in Jobs |-> [Idle EXCEPT !.pc = "asleep"]], [k \in Jobs |-> Idle],
                    [k \in Jobs |-> IF task[r][k].pc \in Working
                                    THEN [Idle EXCEPT !.pc = "leaving", !.lost = task[r][k].lost]
                                    ELSE Idle]} : task' = [task EXCEPT ![r] = f]
    BY Zenon, <1>10 DEF start, stop, crash
  <2>3. \A k \in Jobs : f[k].pc \notin Deleting
    <3>1. /\ [Idle EXCEPT !.pc = "asleep"].pc \notin Deleting /\ Idle.pc \notin Deleting
          /\ \A lost : [Idle EXCEPT !.pc = "leaving", !.lost = lost].pc \notin Deleting
      <4>1. /\ [Idle EXCEPT !.pc = "asleep"].pc = "asleep" /\ Idle.pc = "off"
        BY Zenon, IdleTyped, IdleFields, StoredFields
      <4>2. ASSUME NEW lost PROVE [Idle EXCEPT !.pc = "leaving", !.lost = lost].pc = "leaving"
        BY DEF Idle
      <4> QED  BY Zenon, <1>0, <4>1, <4>2
    <3> QED  BY Zenon, <3>1
  <2>4. \A s \in Runners, k \in Jobs : task'[s][k] = IF s = r THEN f[k] ELSE task[s][k]
    BY Zenon, <2>2 DEF TypeOK
  <2> QED  BY Zenon, <2>1, <2>3, <2>4, DrainFrame
<1>11. ASSUME NEW j \in Jobs, prune(j) PROVE DrainInv'
  <2>1. [Idle EXCEPT !.pc = "batch"].pc \notin Deleting
    BY <1>0, IdleTyped, StoredFields
  <2>2. UNCHANGED rows /\ Set(Operator, j, [Idle EXCEPT !.pc = "batch"]) /\ Operator \in Runners
    BY Zenon, <1>11 DEF prune, Runners
  <2> QED  BY <1>3, <2>1, <2>2
<1>12. ASSUME UNCHANGED <<rows, task>> PROVE DrainInv'
  BY Zenon, <1>12, DrainFrame
<1> QED
  BY Zenon, <1>1, <1>2, <1>5, <1>6, <1>7, <1>8, <1>9, <1>10, <1>11, <1>12
     DEF Next, RunStep, FaultStep, Tick, vars

\* A run that ends without a fault leaves nothing it should delete, unless a
\* rival took rows from under its last statement: for any number of replicas
\* and rows, whatever the batch size.
THEOREM RunsDrain == Spec => DrainedWhenDone
<1> DEFINE Drains ==
       \A r \in Runners, j \in Jobs :
          task[r][j].pc = "deleted" /\ faults' = faults /\ task'[r][j].pc \in {"unlock", "off"}
             => \/ task[r][j].taken # task[r][j].doomed
                \/ \A x \in rows'[j] : x.at >= task[r][j].cutoff
<1>1. TypeOK /\ DrainInv /\ [Next]_vars => [Drains]_vars
  <2> SUFFICES ASSUME TypeOK, DrainInv, Next,
                      NEW r \in Runners, NEW j \in Jobs,
                      task[r][j].pc = "deleted", faults' = faults, task'[r][j].pc \in {"unlock", "off"},
                      task[r][j].taken = task[r][j].doomed,
                      NEW x \in rows'[j]
               PROVE  x.at >= task[r][j].cutoff
    BY Zenon
  <2>1. ~Fault
    BY DEF Fault, TypeOK
  <2>2. task'[r][j].pc # task[r][j].pc
    OBVIOUS
  <2>3. ASSUME NEW s \in Runners, NEW k \in Jobs, NEW t, Set(s, k, t), task[s][k].pc # "deleted"
        PROVE  FALSE
    BY <2>2, <2>3, SetAt
  <2>4. ASSUME NEW s \in Runners, NEW k \in Jobs, RunStep(s, k) \/ FaultStep(s, k)
        PROVE  _drain(s, k) /\ s = r /\ k = j
    <3>1. \E t : Set(s, k, t)
      BY Zenon, <2>1, <2>4 DEF RunStep, FaultStep, run_once_failed, lose_connection,
                               _delete_batch_before, _affected, _drain, unlock, pool_timeout
    <3>2. s = r /\ k = j
      BY <2>2, <3>1, SetAt
    <3>3. ~FaultStep(s, k)
      BY Zenon, <2>1 DEF FaultStep, run_once_failed, lose_connection
    <3> QED
      BY <2>4, <3>2, <3>3 DEF RunStep, _delete_batch_before, _affected, unlock, pool_timeout
  <2>5. ~\E s \in Replicas, k \in Jobs : held_by_one_replica(s, k)
    BY <2>2, <2>3 DEF held_by_one_replica, Runners
  <2>6. ~\E s \in Replicas : start(s) \/ stop(s) \/ crash(s)
    <3>1. ASSUME NEW s \in Replicas, start(s) PROVE FALSE
      <4>1. CASE s = r
        BY <3>1, <4>1 DEF start
      <4>2. CASE s # r
        BY <2>2, <3>1, <4>2 DEF start, TypeOK
      <4> QED  BY Zenon, <4>1, <4>2
    <3> QED  BY Zenon, <2>1, <3>1 DEF stop, crash
  <2>7. ~\E k \in Jobs : prune(k)
    BY <2>3 DEF prune, Runners
  <2>8. _drain(r, j)
    BY Zenon, <2>2, <2>4, <2>5, <2>6, <2>7 DEF Next, Tick
  <2> DEFINE more == [task[r][j] EXCEPT !.pc = "batch", !.doomed = {}, !.taken = {}]
             full == j # "expire-tokens" /\ Cardinality(task[r][j].taken) >= BatchSize
  <2>9. ~full
    <3>1. SUFFICES ASSUME full PROVE FALSE
      OBVIOUS
    <3>2. Set(r, j, more)
      BY Zenon, <2>8, <3>1 DEF _drain
    <3>3. more.pc = "batch"
      BY TaskTyped, StoredFields
    <3> HIDE DEF more, full
    <3>4. task'[r][j] = more
      BY <3>2, SetAt
    <3> QED  BY <3>3, <3>4
  <2>10. /\ IsFiniteSet(task[r][j].doomed)
         /\ j = "expire-tokens" \/ Cardinality(task[r][j].doomed) < BatchSize
               => \A y \in rows[j] : y.at < task[r][j].cutoff => y \in task[r][j].doomed
    BY DEF DrainInv, DoomsAll, Deleting
  <2>11. j = "expire-tokens" \/ Cardinality(task[r][j].doomed) < BatchSize
    <3>1. Cardinality(task[r][j].doomed) \in Nat /\ BatchSize \in Nat
      BY Zenon, <2>10, FS_CardinalityType, SizesAssumption
    <3> QED  BY <2>9, <3>1
  <2>12. x \in rows[j] /\ x \notin task[r][j].taken
    BY <2>8 DEF _drain, TypeOK
  <2>13. ~(x.at < task[r][j].cutoff)
    BY Zenon, <2>10, <2>11, <2>12
  <2>14. x.at \in Int /\ task[r][j].cutoff \in Int
    <3>1. x \in Row /\ task[r][j] \in Task
      BY <2>12, TaskTyped DEF TypeOK
    <3> QED  BY <3>1, BoundsAssumption DEF Row, Time, Task
  <2> QED  BY <2>13, <2>14
<1>2. Spec => [](TypeOK /\ DrainInv)
  BY InitTyped, TypeStep, DrainInit, DrainStep, PTL DEF Spec
<1>3. Spec => [][Drains]_vars
  BY <1>1, <1>2, PTL DEF Spec
<1> QED  BY <1>3 DEF DrainedWhenDone

-----------------------------------------------------------------------------
(* The request log.                                                        *)

\* The sequence deals an id once, at the INSERT.
IdsDealt ==
    /\ last \in Nat
    /\ \A r \in Requests :
        /\ req[r].id \in Nat /\ req[r].id <= last
        /\ req[r].pc \in {"idle", "begun"} => req[r].id = 0
        /\ req[r].pc = "inserted" => req[r].id # 0
    /\ \A r, s \in Requests : req[r].id # 0 /\ req[r].id = req[s].id => r = s

\* A request that is over has written the row, so what the row says of it is
\* final.
Written(x) == x.id # 0 /\ \E r \in Requests : req[r].pc = "done" /\ req[r].id = x.id
LogWritten == \A x \in log : Written(x)

Seen(w) == UNION {w.seen[i] : i \in 1..Len(w.seen)}
InOrder(w) ==
    \A i, j \in 1..Len(w.seen) : i < j => \A x \in w.seen[i], y \in w.seen[j] : Below(y, x)

\* What a reader was shown, and what was there for them, is what they asked for.
Told(w) ==
    /\ \A x \in Seen(w) \cup w.there : Written(x) /\ Matches(x, w.outcome, w.user)
    /\ InOrder(w)
    /\ w.scope = "own" => w.user = Viewer

\* The cursor parts the rows: those shown are not below it, and those that
\* were there and have not been shown are.
Ready(w) ==
    /\ Told(w)
    /\ \A x \in w.there : x \in Seen(w) \/ cursor_condition(x, w.cursor)
    /\ \A x \in Seen(w) : w.cursor \in Row /\ ~Below(x, w.cursor)

WalkInv ==
    \/ walk = NoWalk
    \/ walk.pc = "reading" /\ walk.cursor \in Row /\ Ready(walk)
    \/ walk.pc = "done" /\ Told(walk) /\ walk.there \subseteq Seen(walk)

LogInv == LogTypeOK /\ FiniteTables /\ IdsDealt /\ LogWritten /\ WalkInv

LEMMA RowFields == ASSUME NEW x \in Row PROVE x.at \in Nat /\ x.id \in Nat /\ x.id \in Ids
<1>1. x.at \in 0..MaxClock /\ x.id \in Ids
  BY DEF Row, Time
<1>2. MaxClock \in Nat /\ Ids \subseteq Nat
  BY Zenon, SizesAssumption, BoundsAssumption
<1>3. x.at \in Nat
  BY <1>1, <1>2
<1> QED  BY Zenon, <1>1, <1>2, <1>3

\* The order of the pages is total on rows.
LEMMA BelowOrder ==
    ASSUME NEW x \in Row, NEW y \in Row, NEW z \in Row
    PROVE  /\ ~Below(x, x)
           /\ Below(x, y) => ~Below(y, x)
           /\ Below(x, y) /\ Below(y, z) => Below(x, z)
           /\ x # y => Below(x, y) \/ Below(y, x)
<1>1. \A v \in Row : v.at \in Nat /\ v.id \in Nat
  BY RowFields
<1>2. x.at = y.at /\ x.id = y.id => x = y
  BY DEF Row
<1> QED  BY <1>1, <1>2 DEF Below

\* A page that is not empty has a last row: the least id of the least instant.
LEMMA BottomFacts ==
    ASSUME NEW S \in SUBSET Row, S # {}
    PROVE  Bottom(S) \in S /\ \A y \in S : ~Below(y, Bottom(S))
<1> DEFINE T == {x.at : x \in S}
<1>1. T \subseteq Nat /\ T # {}
  BY BoundsAssumption DEF Row, Time
<1>2. PICK m \in T : \A n \in T : ~(n < m)
  <2> HIDE DEF T
  <2> QED  BY Zenon, <1>1, LeastNat
<1> DEFINE first == {x \in S : x.at = m}
<1>3. first \in SUBSET Row /\ first # {}
  OBVIOUS
<1>4. PICK x \in first : \A y \in first : ~(y.id < x.id)
  <2> HIDE DEF first
  <2> QED  BY Zenon, <1>3, LeastId
<1>5. \A y \in S : ~Below(y, x)
  <2> SUFFICES ASSUME NEW y \in S, Below(y, x) PROVE FALSE
    BY Zenon
  <2>1. x.at = m /\ ~(y.at < m)
    BY <1>2, <1>4
  <2>2. y.at = m /\ y.id < x.id
    BY <2>1 DEF Below
  <2> QED  BY <1>4, <2>2
<1>6. x \in S
  BY <1>4
<1> QED  BY Zenon, <1>5, <1>6 DEF Bottom

LEMMA NewestAmong == ASSUME NEW S, NEW n PROVE Newest(S, n) \subseteq S
BY DEF Newest

\* LIMIT cuts: what is left out is below what is taken.
LEMMA NewestCuts ==
    ASSUME NEW S \in SUBSET Row, IsFiniteSet(S), NEW n \in Nat,
           NEW x \in S, x \notin Newest(S, n), NEW y \in Newest(S, n)
    PROVE  Below(x, y)
<1> DEFINE Above(v) == {u \in S : Below(v, u)}
<1> SUFFICES ASSUME ~Below(x, y) PROVE FALSE
  OBVIOUS
<1>1. x \in Row /\ y \in Row /\ x # y /\ y \in S
  BY Zenon, NewestAmong
<1>2. Below(y, x)
  BY Zenon, <1>1, BelowOrder
<1>3. Above(x) \subseteq Above(y)
  BY Zenon, <1>1, <1>2, BelowOrder
<1>4. Cardinality(Above(y)) < n /\ ~(Cardinality(Above(x)) < n)
  BY Zenon, <1>1 DEF Newest
<1>5. IsFiniteSet(Above(y)) /\ Above(x) \in SUBSET Above(y)
  <2>1. Above(y) \in SUBSET S
    BY Zenon
  <2> HIDE DEF Above
  <2> QED  BY Zenon, <1>3, <2>1, FS_Subset
<1> HIDE DEF Above
<1>6. /\ Cardinality(Above(x)) <= Cardinality(Above(y))
      /\ Cardinality(Above(x)) \in Nat /\ Cardinality(Above(y)) \in Nat
  BY Zenon, <1>5, FS_Subset, FS_CardinalityType
<1> QED  BY <1>4, <1>6

\* Fewer than LIMIT rows are all there are: of the rows left out take one with
\* the fewest above it.  Those above it are all taken.
LEMMA NewestShort ==
    ASSUME NEW S \in SUBSET Row, IsFiniteSet(S), NEW n \in Nat, Cardinality(Newest(S, n)) < n
    PROVE  Newest(S, n) = S
<1> DEFINE Above(v) == {u \in S : Below(v, u)}
           left == S \ Newest(S, n)
           T == {Cardinality(Above(v)) : v \in left}
<1> SUFFICES ASSUME left # {} PROVE FALSE
  BY Zenon, NewestAmong
<1>1. \A v \in S : IsFiniteSet(Above(v)) /\ Cardinality(Above(v)) \in Nat
  <2> SUFFICES ASSUME NEW v \in S PROVE IsFiniteSet(Above(v)) /\ Cardinality(Above(v)) \in Nat
    BY Zenon
  <2>1. Above(v) \in SUBSET S
    BY Zenon
  <2> HIDE DEF Above
  <2> QED  BY Zenon, <2>1, FS_Subset, FS_CardinalityType
<1>2. T \subseteq Nat /\ T # {}
  BY Zenon, <1>1
<1>3. PICK m \in T : \A k \in T : ~(k < m)
  <2> HIDE DEF T
  <2> QED  BY Zenon, <1>2, LeastNat
<1>4. PICK x \in left : m = Cardinality(Above(x))
  BY Zenon
<1>5. Above(x) \subseteq Newest(S, n)
  <2> SUFFICES ASSUME NEW y \in left, Below(x, y) PROVE FALSE
    BY Zenon
  <2>1. x \in Row /\ y \in Row /\ x \in S /\ y \in S
    BY Zenon
  <2>2. Above(y) \subseteq Above(x) /\ y \in Above(x) /\ y \notin Above(y)
    BY Zenon, <2>1, BelowOrder
  <2>3. ~(Cardinality(Above(y)) < Cardinality(Above(x)))
    BY Zenon, <1>3, <1>4
  <2>4. Above(y) \in SUBSET Above(x) /\ Above(y) # Above(x)
    BY Zenon, <2>2
  <2> HIDE DEF Above
  <2>5. /\ Cardinality(Above(y)) <= Cardinality(Above(x)) 
        /\ Cardinality(Above(y)) # Cardinality(Above(x))
    BY Zenon, <1>1, <2>1, <2>4, FS_Subset
  <2>6. Cardinality(Above(x)) \in Nat /\ Cardinality(Above(y)) \in Nat
    BY Zenon, <1>1, <2>1
  <2> QED  BY <2>3, <2>5, <2>6
<1>6. ~(Cardinality(Above(x)) < n)
  BY Zenon DEF Newest
<1>7. IsFiniteSet(Newest(S, n)) /\ Above(x) \in SUBSET Newest(S, n)
  <2>1. Newest(S, n) \in SUBSET S
    BY Zenon, NewestAmong
  <2> QED  BY Zenon, <1>5, <2>1, FS_Subset
<1> HIDE DEF Above
<1>8. /\ Cardinality(Above(x)) <= Cardinality(Newest(S, n))
      /\ Cardinality(Above(x)) \in Nat /\ Cardinality(Newest(S, n)) \in Nat
  BY Zenon, <1>7, FS_Subset, FS_CardinalityType
<1> QED  BY <1>6, <1>8

\* LIMIT leaves out nothing of a set that is no larger.
LEMMA NewestAll ==
    ASSUME NEW S \in SUBSET Row, IsFiniteSet(S), NEW n \in Nat, Cardinality(S) <= n
    PROVE  Newest(S, n) = S
<1> SUFFICES ASSUME NEW x \in S PROVE Cardinality({y \in S : Below(x, y)}) < n
  BY Zenon DEF Newest
<1> DEFINE above == {y \in S : Below(x, y)}
<1>1. above \in SUBSET (S \ {x})
  BY Zenon, BelowOrder
<1>2. IsFiniteSet(S \ {x}) /\ Cardinality(S \ {x}) = Cardinality(S) - 1 /\ Cardinality(S) \in Nat
  BY FS_RemoveElement, FS_CardinalityType
<1> HIDE DEF above
<1>3. Cardinality(above) <= Cardinality(S \ {x}) /\ Cardinality(above) \in Nat
  BY Zenon, <1>1, <1>2, FS_Subset, FS_CardinalityType
<1>4. Cardinality(above) < n
  BY <1>2, <1>3
<1> QED  BY Zenon, <1>4 DEF above

\* A page holds rows that qualify.  Without a next page it holds all of them;
\* with one, the cursor is a row that the page ends with, and whatever
\* qualifies and is not on the page is below it.
LEMMA SliceFacts ==
    ASSUME NEW S \in SUBSET Row, IsFiniteSet(S), NEW slice, slice = cursor_slice(Newest(S, Limit + 1))
    PROVE  /\ slice.page \in SUBSET S
           /\ \/ slice.next = NoCursor /\ S \subseteq slice.page
              \/ /\ slice.next \in slice.page
                 /\ \A y \in slice.page : ~Below(y, slice.next)
                 /\ \A x \in S : x \in slice.page \/ Below(x, slice.next)
<1> DEFINE found == Newest(S, Limit + 1)
           page == Newest(found, Limit)
<1>1. /\ slice.page = page
      /\ slice.next = IF Cardinality(found) <= Limit THEN NoCursor ELSE Bottom(page)
  BY DEF cursor_slice
<1>2. Limit \in Nat /\ Limit + 1 \in Nat /\ Limit > 0
  BY LogAssumption
<1>3. found \in SUBSET S /\ found \in SUBSET Row /\ page \in SUBSET found /\ page \in SUBSET Row
  BY Zenon, NewestAmong
<1>4. IsFiniteSet(found) /\ Cardinality(found) \in Nat /\ IsFiniteSet(page) /\ Cardinality(page) \in Nat
  <2> HIDE DEF found, page
  <2> QED  BY Zenon, <1>3, FS_Subset, FS_CardinalityType
<1>5. CASE Cardinality(found) <= Limit
  <2>1. Cardinality(Newest(S, Limit + 1)) < Limit + 1
    BY <1>2, <1>4, <1>5
  <2>2. found = S
    BY Zenon, <1>2, <2>1, NewestShort
  <2>3. page = found
    <3> HIDE DEF found
    <3> QED  BY Zenon, <1>2, <1>3, <1>4, <1>5, NewestAll DEF page
  <2> HIDE DEF found, page
  <2> QED  BY Zenon, <1>1, <1>5, <2>2, <2>3
<1>6. CASE ~(Cardinality(found) <= Limit)
  <2>1. page # {}
    <3> SUFFICES ASSUME page = {} PROVE FALSE
      BY Zenon
    <3> HIDE DEF found
    <3>1. Cardinality(Newest(found, Limit)) < Limit
      BY <1>2, FS_EmptySet
    <3>2. found = {}
      BY Zenon, <1>2, <1>3, <1>4, <3>1, NewestShort
    <3> QED  BY <1>2, <1>6, <3>2, FS_EmptySet
  <2>2. slice.next = Bottom(page) /\ slice.next \in page /\ \A y \in page : ~Below(y, slice.next)
    <3> HIDE DEF page, found
    <3> QED  BY Zenon, <1>1, <1>3, <1>6, <2>1, BottomFacts
  <2>3. ASSUME NEW x \in S, x \notin page PROVE Below(x, slice.next)
    <3>1. CASE x \in found
      <4> HIDE DEF found
      <4> QED  BY Zenon, <1>2, <1>3, <1>4, <2>2, <2>3, <3>1, NewestCuts DEF page
    <3>2. CASE x \notin found
      <4>1. slice.next \in found
        BY Zenon, <1>3, <2>2
      <4> QED  BY Zenon, <1>2, <3>2, <4>1, NewestCuts
    <3> QED  BY Zenon, <3>1, <3>2
  <2> HIDE DEF page, found
  <2> QED  BY Zenon, <1>1, <1>3, <2>2, <2>3
<1> QED  BY Zenon, <1>5, <1>6

LEMMA NoCursorNoRow == NoCursor \notin Row
BY DEF NoCursor, None, Row, Time

-----------------------------------------------------------------------------
(* The rows the requests write.                                            *)

LEMMA ReqTyped == ASSUME LogTypeOK, NEW r \in Requests PROVE req[r] \in Request
BY DEF LogTypeOK

LEMMA NotServedTyped == ASSUME NEW pc \in {"idle", "done"} PROVE [NotServed EXCEPT !.pc = pc] \in Request
BY FilterAssumption, BoundsAssumption DEF NotServed, Request, RequestPcs, Codes, DealtIds, Time

LEMMA NotServedFields == ASSUME NEW pc PROVE [NotServed EXCEPT !.pc = pc].pc = pc /\ [NotServed EXCEPT !.pc = pc].id = 0
BY DEF NotServed

LEMMA StoreTyped ==
    ASSUME TypeOK, NEW user \in Users, NEW status \in Codes
    PROVE  /\ store_request(user, status) \in Request
           /\ store_request(user, status).pc = "begun" /\ store_request(user, status).id = 0
<1>1. NotServed \in Request /\ clock \in Time /\ "begun" \in RequestPcs
  BY FilterAssumption, BoundsAssumption DEF TypeOK, NotServed, Request, RequestPcs, Codes, DealtIds, Time
<1>2. store_request(user, status) \in Request
  BY Zenon, <1>1 DEF store_request, Request
<1>3. store_request(user, status).pc = "begun" /\ store_request(user, status).id = 0
  BY DEF store_request, NotServed
<1> QED  BY Zenon, <1>2, <1>3

\* One witness is what CHOOSE takes.
LEMMA ChooseOne ==
    ASSUME NEW q, NEW S, NEW id, NEW r \in S, q[r].id = id, \A s \in S : q[s].id = id => s = r
    PROVE  (CHOOSE s \in S : q[s].id = id) = r
BY Zenon

\* Who wrote a row does not change, nor does what the entry says.
Kept(x) == Written(x)' /\ req'[Writer(x)'] = req[Writer(x)]

LEMMA EntryStays ==
    ASSUME IdsDealt, IdsDealt', NEW x, Written(x),
           \A r \in Requests : req[r].pc = "done" => req'[r] = req[r]
    PROVE  Kept(x)
<1>1. PICK r \in Requests : req[r].pc = "done" /\ req[r].id = x.id
  BY Zenon DEF Written
<1>2. x.id # 0 /\ req'[r] = req[r]
  BY Zenon, <1>1 DEF Written
<1>3. Writer(x) = r
  <2>1. \A s \in Requests : req[s].id = x.id => s = r
    BY Zenon, <1>1, <1>2 DEF IdsDealt
  <2> QED  BY Zenon, <1>1, <2>1, ChooseOne DEF Writer
<1>4. (CHOOSE s \in Requests : req'[s].id = x.id) = r
  <2>1. req'[r].id = x.id
    BY Zenon, <1>1, <1>2
  <2>2. \A s \in Requests : req'[s].id = x.id => s = r
    <3> SUFFICES ASSUME NEW s \in Requests, req'[s].id = x.id PROVE s = r
      BY Zenon
    <3> QED  BY Zenon, <1>2, <2>1 DEF IdsDealt
  <2> QED  BY Zenon, <2>1, <2>2, ChooseOne
<1>5. Written(x)'
  BY Zenon, <1>1, <1>2 DEF Written
<1>6. Writer(x)' = r
  BY <1>4 DEF Writer
<1> QED  BY <1>2, <1>3, <1>5, <1>6 DEF Kept

LEMMA MatchStays ==
    ASSUME NEW x, Kept(x), NEW outcome, NEW user
    PROVE  Matches(x, outcome, user)' <=> Matches(x, outcome, user)
BY DEF Kept, Matches

\* A step that leaves the reader alone, and the requests that are over, keeps
\* what the reader was told.
LEMMA WalkStays ==
    ASSUME IdsDealt, IdsDealt', WalkInv, walk' = walk,
           \A r \in Requests : req[r].pc = "done" => req'[r] = req[r]
    PROVE  WalkInv'
<1> DEFINE all == Seen(walk) \cup walk.there
<1>1. CASE walk = NoWalk
  BY SMTT(60), <1>1 DEF WalkInv, NoWalk
<1>2. CASE walk # NoWalk
  <2>1. Told(walk) /\ (walk.pc = "reading" => Ready(walk))
    BY ZenonT(60), <1>2 DEF WalkInv, Ready
  <2>2. \A x \in all : Written(x)' /\ (Matches(x, walk.outcome, walk.user)' <=> Matches(x, walk.outcome, walk.user))
    BY SMTT(60), <2>1, EntryStays, MatchStays DEF Told, Kept
  <2>3. Seen(walk)' = Seen(walk) /\ InOrder(walk)' = InOrder(walk)
    BY SMTT(60) DEF Seen, InOrder
  <2>4. Told(walk)'
    BY SMTT(60), <2>1, <2>2, <2>3 DEF Told
  <2>5. Ready(walk) => Ready(walk)'
    BY SMTT(60), <2>3, <2>4 DEF Ready
  <2> QED  BY <1>2, <2>3, <2>4, <2>5 DEF WalkInv
<1> QED  BY SMTT(60), <1>1, <1>2

\* What a step of a request does to the ids: it keeps its own, drops it, or is
\* dealt the next one.
LEMMA IdsStep ==
    ASSUME LogTypeOK, IdsDealt, NEW r \in Requests, NEW e \in Request, req' = [req EXCEPT ![r] = e],
           \/ last' = last /\ e.id \in {0, req[r].id}
           \/ last' = last + 1 /\ e.id = last + 1,
           e.pc \in {"idle", "begun"} => e.id = 0,
           e.pc = "inserted" => e.id # 0
    PROVE  IdsDealt'
<1>1. last \in Nat /\ last' \in Nat /\ last <= last'
  BY DEF IdsDealt
<1>2. req'[r] = e /\ \A s \in Requests : s # r => req'[s] = req[s]
  BY DEF LogTypeOK
<1>3. \A s \in Requests : req[s].id \in Nat /\ req[s].id <= last
  BY DEF IdsDealt
<1>4. \A s \in Requests :
        /\ req'[s].id \in Nat /\ req'[s].id <= last'
        /\ req'[s].pc \in {"idle", "begun"} => req'[s].id = 0
        /\ req'[s].pc = "inserted" => req'[s].id # 0
  <2> SUFFICES ASSUME NEW s \in Requests
               PROVE  /\ req'[s].id \in Nat /\ req'[s].id <= last'
                      /\ req'[s].pc \in {"idle", "begun"} => req'[s].id = 0
                      /\ req'[s].pc = "inserted" => req'[s].id # 0
    BY Zenon
  <2>1. CASE s = r
    BY SMTT(60), <1>1, <1>2, <1>3, <2>1
  <2>2. CASE s # r
    BY <1>1, <1>2, <1>3, <2>2 DEF IdsDealt
  <2> QED  BY <2>1, <2>2
<1>5. ASSUME NEW s \in Requests, NEW t \in Requests, req'[s].id # 0, req'[s].id = req'[t].id PROVE s = t
  <2>1. CASE last' = last
    <3>1. \A u \in Requests : req'[u].id \in {0, req[u].id}
      BY <1>1, <1>2, <2>1
    <3> QED  BY <1>5, <3>1 DEF IdsDealt
  <2>2. CASE last' = last + 1 /\ e.id = last + 1
    <3>1. \A u \in Requests : u # r => req'[u].id # last + 1
      BY <1>1, <1>2, <1>3
    <3> QED  BY <1>2, <1>5, <2>2, <3>1 DEF IdsDealt
  <2> QED  BY <2>1, <2>2
<1> QED  BY <1>1, <1>4, <1>5 DEF IdsDealt

\* A step that one request takes, before it is over, and that writes no row
\* but its own.
LEMMA RequestStep ==
    ASSUME LogInv, LogTypeOK', FiniteTables', NEW r \in Requests, NEW e \in Request,
           req[r].pc # "done", req' = [req EXCEPT ![r] = e], IdsDealt',
           \A x \in log' : x \in log \/ (x.id # 0 /\ e.pc = "done" /\ e.id = x.id),
           walk' = walk
    PROVE  LogInv'
<1>1. req'[r] = e /\ \A s \in Requests : req[s].pc = "done" => req'[s] = req[s]
  BY DEF LogInv, LogTypeOK
<1>2. WalkInv'
  BY Zenon, <1>1, WalkStays DEF LogInv
<1>3. ASSUME NEW x \in log' PROVE Written(x)'
  <2>1. CASE x \in log
    BY Zenon, <1>1, <2>1, EntryStays DEF LogInv, LogWritten, Kept
  <2>2. CASE x.id # 0 /\ e.pc = "done" /\ e.id = x.id
    BY <1>1, <2>2 DEF Written
  <2> QED  BY Zenon, <1>3, <2>1, <2>2
<1>4. LogWritten'
  BY <1>3 DEF LogWritten
<1> QED  BY <1>2, <1>4 DEF LogInv

LEMMA RecordTyped ==
    ASSUME NEW e \in Request, NEW id \in Ids
    PROVE  /\ [e EXCEPT !.pc = "inserted", !.id = id] \in Request
           /\ [e EXCEPT !.pc = "inserted", !.id = id].pc = "inserted"
           /\ [e EXCEPT !.pc = "inserted", !.id = id].id = id
<1>1. id \in DealtIds /\ "inserted" \in RequestPcs
  BY DEF DealtIds, RequestPcs
<1>2. [e EXCEPT !.pc = "inserted", !.id = id] \in Request
  BY Zenon, <1>1 DEF Request
<1> QED  BY <1>2 DEF Request

\* The tables of the jobs under a request's step that leaves them alone.
LEMMA RequestTyped ==
    ASSUME LogInv, NEW r \in Requests, NEW e \in Request, req' = [req EXCEPT ![r] = e],
           last' \in DealtIds, UNCHANGED <<vars, walk>>
    PROVE  LogTypeOK' /\ FiniteTables' /\ log' = log
<1>1. req' \in [Requests -> Request]
  BY DEF LogInv, LogTypeOK
<1>2. TypeOK'
  BY DEF LogInv, LogTypeOK, TypeOK, vars
<1>3. FiniteTables' /\ log' = log
  BY DEF LogInv, FiniteTables, vars, log
<1> QED  BY Zenon, <1>1, <1>2, <1>3 DEF LogInv, LogTypeOK

LEMMA CallStep == ASSUME LogInv, NEW r \in Requests, __call__(r) PROVE LogInv'
<1>1. PICK e \in Request : e.pc \in {"begun", "done"} /\ e.id = 0 /\ req' = [req EXCEPT ![r] = e]
  <2>1. PICK user \in Users, status \in Statuses, raised \in BOOLEAN, excluded \in BOOLEAN,
             declared \in {None, MaxBytes, MaxBytes + 1}, received \in {0, MaxBytes, MaxBytes + 1} :
          req' = [req EXCEPT ![r] =
                     IF excluded /\ ~raised
                     THEN [NotServed EXCEPT !.pc = "done"]
                     ELSE store_request(user, Recorded(IF BodyRefused(declared, received) THEN 413 ELSE status, raised))]
    BY Zenon DEF __call__
  <2> DEFINE code == Recorded(IF BodyRefused(declared, received) THEN 413 ELSE status, raised)
  <2>2. code \in Codes
    BY DEF Recorded, Codes
  <2> HIDE DEF code
  <2>3. CASE excluded /\ ~raised
    <3>1. req' = [req EXCEPT ![r] = [NotServed EXCEPT !.pc = "done"]]
      BY Zenon, <2>1, <2>3
    <3> QED  BY <3>1, NotServedTyped, NotServedFields
  <2>4. CASE ~(excluded /\ ~raised)
    <3>1. req' = [req EXCEPT ![r] = store_request(user, code)]
      BY Zenon, <2>1, <2>4 DEF code
    <3>2. /\ store_request(user, code) \in Request
          /\ store_request(user, code).pc = "begun" /\ store_request(user, code).id = 0
      <4>1. TypeOK
        BY Zenon DEF LogInv, LogTypeOK
      <4> QED  BY Zenon, <2>2, <4>1, StoreTyped
    <3> QED  BY Zenon, <3>1, <3>2
  <2> QED  BY Zenon, <2>3, <2>4
<1>2. req[r].pc = "idle" /\ last' = last /\ UNCHANGED <<vars, walk>>
  BY DEF __call__
<1>3. LogTypeOK' /\ FiniteTables' /\ log' = log
  <2>1. last' \in DealtIds
    BY <1>2 DEF LogInv, LogTypeOK
  <2> QED  BY Zenon, <1>1, <1>2, <2>1, RequestTyped
<1>4. IdsDealt'
  <2>1. e.id \in {0, req[r].id} /\ e.pc # "inserted"
    BY <1>1
  <2> QED  BY Zenon, <1>1, <1>2, <2>1, IdsStep DEF LogInv
<1>5. req[r].pc # "done" /\ (\A x \in log' : x \in log)
  BY <1>2, <1>3
<1> QED  BY Zenon, <1>1, <1>2, <1>3, <1>4, <1>5, RequestStep

LEMMA RecordStep == ASSUME LogInv, NEW r \in Requests, record(r) PROVE LogInv'
<1> DEFINE e == [req[r] EXCEPT !.pc = "inserted", !.id = last + 1]
<1>1. req[r].pc = "begun" /\ last + 1 \in Ids /\ last' = last + 1 /\ UNCHANGED <<vars, walk>>
  BY DEF record
<1>2. req' = [req EXCEPT ![r] = e]
  BY DEF record, LogInv, LogTypeOK
<1>3. e \in Request /\ e.pc = "inserted" /\ e.id = last + 1
  <2>1. req[r] \in Request
    BY Zenon, ReqTyped DEF LogInv
  <2> QED  BY Zenon, <1>1, <2>1, RecordTyped
<1>4. last + 1 # 0
  BY DEF LogInv, IdsDealt
<1> HIDE DEF e
<1>5. LogTypeOK' /\ FiniteTables' /\ log' = log
  <2>1. last' \in DealtIds
    BY <1>1 DEF DealtIds
  <2> QED  BY Zenon, <1>1, <1>2, <1>3, <2>1, RequestTyped
<1>6. IdsDealt'
  <2>1. e.id # 0 /\ e.pc \notin {"idle", "begun"}
    BY <1>3, <1>4
  <2> QED  BY Zenon, <1>1, <1>2, <1>3, <2>1, IdsStep DEF LogInv
<1>7. req[r].pc # "done" /\ (\A x \in log' : x \in log)
  BY <1>1, <1>5
<1> QED  BY Zenon, <1>1, <1>2, <1>3, <1>5, <1>6, <1>7, RequestStep

LEMMA PersistStep == ASSUME LogInv, NEW r \in Requests, _persist(r) PROVE LogInv'
<1> DEFINE e == [NotServed EXCEPT !.pc = "done"]
<1>1. /\ req[r].pc \in {"begun", "inserted"} /\ req' = [req EXCEPT ![r] = e]
      /\ last' = last /\ UNCHANGED <<vars, walk>>
  BY DEF _persist
<1>2. e \in Request /\ e.pc = "done" /\ e.id = 0
  BY NotServedTyped, NotServedFields
<1> HIDE DEF e
<1>3. LogTypeOK' /\ FiniteTables' /\ log' = log
  <2>1. last' \in DealtIds
    BY <1>1 DEF LogInv, LogTypeOK
  <2> QED  BY Zenon, <1>1, <1>2, <2>1, RequestTyped
<1>4. IdsDealt'
  <2>1. e.id \in {0, req[r].id} /\ e.pc \notin {"idle", "begun", "inserted"}
    BY <1>2
  <2> QED  BY Zenon, <1>1, <1>2, <2>1, IdsStep DEF LogInv
<1>5. req[r].pc # "done" /\ (\A x \in log' : x \in log)
  BY <1>1, <1>3
<1> QED  BY Zenon, <1>1, <1>2, <1>3, <1>4, <1>5, RequestStep

\* The COMMIT: the row joins the log, and its writer is over.
LEMMA CommitStep == ASSUME LogInv, NEW r \in Requests, commit_record(r) PROVE LogInv'
<1> DEFINE e == [req[r] EXCEPT !.pc = "done"]
           row == Stored(r)
           j == "prune-request-log"
<1> USE LogAssumption
<1>1. /\ req[r].pc = "inserted" /\ req' = [req EXCEPT ![r] = e]
      /\ rows' = [rows EXCEPT ![j] = rows[j] \cup {row}]
      /\ UNCHANGED <<clock, lock, task, faults>> /\ last' = last /\ walk' = walk
  BY DEF commit_record, LogInv, LogTypeOK
<1>2. req[r] \in Request
  BY Zenon, ReqTyped DEF LogInv
<1>3. e \in Request /\ e.pc = "done" /\ e.id = req[r].id
  BY <1>2 DEF Request, RequestPcs
<1>4. req[r].id # 0 /\ req[r].id \in Ids
  BY SMTT(60), <1>1, <1>2 DEF LogInv, IdsDealt, Request, DealtIds
<1>5. row \in Row /\ row.id = req[r].id
  BY <1>2, <1>4 DEF Row, Stored, Request
<1> HIDE DEF e, row
<1>6. LogTypeOK'
  <2>1. TypeOK'
    BY <1>1, <1>5 DEF LogInv, LogTypeOK, TypeOK
  <2>2. req' \in [Requests -> Request]
    BY <1>1, <1>3 DEF LogInv, LogTypeOK
  <2> QED  BY ZenonT(60), <1>1, <2>1, <2>2 DEF LogInv, LogTypeOK
<1>7. /\ log' = log \cup {row}
      /\ \A k \in Jobs : rows'[k] = rows[k] \/ rows'[k] = rows[k] \cup {row}
  <2>1. rows \in [Jobs -> SUBSET Row]
    BY Zenon DEF LogInv, LogTypeOK, TypeOK
  <2> QED  BY <1>1, <2>1 DEF log
<1>8. FiniteTables'
  <2>1. \A k \in Jobs : IsFiniteSet(rows[k])
    BY Zenon DEF LogInv, FiniteTables
  <2>2. ASSUME NEW k \in Jobs PROVE IsFiniteSet(rows'[k])
    <3>1. IsFiniteSet(rows[k]) /\ IsFiniteSet(rows[k] \cup {row})
      BY Zenon, <2>1, FS_AddElement
    <3>2. rows'[k] = rows[k] \/ rows'[k] = rows[k] \cup {row}
      BY Zenon, <1>7
    <3> QED  BY SMTT(60), <3>1, <3>2
  <2> QED  BY <2>2 DEF FiniteTables
<1>9. IdsDealt'
  <2>1. e.id \in {0, req[r].id} /\ e.pc \notin {"idle", "begun", "inserted"}
    BY <1>3
  <2> QED  BY Zenon, <1>1, <1>3, <2>1, IdsStep DEF LogInv
<1>10. req[r].pc # "done" /\ \A x \in log' : x \in log \/ (x.id # 0 /\ e.pc = "done" /\ e.id = x.id)
  BY <1>1, <1>3, <1>4, <1>5, <1>7
<1> QED  BY ZenonT(60), <1>1, <1>3, <1>6, <1>8, <1>9, <1>10, RequestStep

-----------------------------------------------------------------------------
(* The reader.                                                             *)

LEMMA SeenAppend ==
    ASSUME NEW s \in Seq(SUBSET Row), NEW page \in SUBSET Row
    PROVE  /\ Append(s, page) \in Seq(SUBSET Row)
           /\ Len(Append(s, page)) = Len(s) + 1 /\ Len(s) \in Nat
           /\ \A i \in 1..Len(s) : Append(s, page)[i] = s[i]
           /\ Append(s, page)[Len(s) + 1] = page
OBVIOUS

\* The reader, with a page more.
Turned(v, w, pc, cursor, page) ==
    /\ v \in Walk /\ v.pc = pc /\ v.cursor = cursor /\ v.seen = Append(w.seen, page)
    /\ v.there = w.there /\ v.outcome = w.outcome /\ v.user = w.user /\ v.scope = w.scope

LEMMA WalkFields ==
    ASSUME NEW w \in Walk, NEW pc \in WalkPcs, NEW cursor \in Cursors, NEW page, page \in SUBSET Row
    PROVE  Turned([w EXCEPT !.pc = pc, !.cursor = cursor, !.seen = Append(w.seen, page)], w, pc, cursor, page)
<1> DEFINE seen == Append(w.seen, page)
           v == [w EXCEPT !.pc = pc, !.cursor = cursor, !.seen = seen]
<1>1. w.seen \in Seq(SUBSET Row)
  BY DEF Walk
<1>2. seen \in Seq(SUBSET Row)
  BY <1>1
<1> HIDE DEF seen
<1>3. /\ v.pc = pc /\ v.cursor = cursor /\ v.seen = seen
      /\ v.there = w.there /\ v.outcome = w.outcome /\ v.user = w.user /\ v.scope = w.scope
  BY DEF Walk
<1>4. v \in Walk
  BY <1>2 DEF Walk
<1> HIDE DEF v
<1>5. Turned(v, w, pc, cursor, page)
  BY Zenon, <1>3, <1>4 DEF seen, Turned
<1> QED  BY Zenon, <1>5 DEF seen, v

\* A page more: those it shows are shown after the others, and it holds or
\* leaves below the cursor what is still to be shown.
LEMMA PageStep ==
    ASSUME LogInv, NEW w \in Walk, Ready(w), w.there \subseteq log, list_for(w)
    PROVE  LogInv'
<1> DEFINE S == {x \in log : Matches(x, w.outcome, w.user) /\ cursor_condition(x, w.cursor)}
           slice == cursor_slice(Newest(S, Limit + 1))
           page == slice.page
           next == slice.next
<1>1. /\ walk' = [w EXCEPT !.pc = IF next = NoCursor THEN "done" ELSE "reading",
                           !.cursor = next, !.seen = Append(w.seen, page)]
      /\ UNCHANGED <<vars, req, last>>
  BY Zenon DEF list_for, list_page
<1>2. S \in SUBSET Row /\ IsFiniteSet(S)
  <2>1. log \in SUBSET Row /\ IsFiniteSet(log)
    BY LogAssumption DEF LogInv, LogTypeOK, TypeOK, FiniteTables, log
  <2>2. S \in SUBSET log
    BY Zenon
  <2> HIDE DEF S
  <2> QED  BY Zenon, <2>1, <2>2, FS_Subset
<1>3. /\ page \in SUBSET S
      /\ \/ next = NoCursor /\ S \subseteq page
         \/ /\ next \in page
            /\ \A y \in page : ~Below(y, next)
            /\ \A x \in S : x \in page \/ Below(x, next)
  <2> HIDE DEF S
  <2> QED  BY ZenonT(60), <1>2, SliceFacts
<1>4. \A x \in S : Written(x) /\ Matches(x, w.outcome, w.user) /\ cursor_condition(x, w.cursor)
  BY Zenon DEF LogInv, LogWritten
<1>5. \A x \in w.there : x \in Seen(w) \/ x \in S
  BY Zenon DEF Ready, Told
<1> HIDE DEF S, slice, page, next
<1>6. page \in SUBSET Row /\ next \in Cursors
  BY Zenon, <1>2, <1>3 DEF Cursors
<1>7. /\ walk' \in Walk /\ walk'.pc = (IF next = NoCursor THEN "done" ELSE "reading")
      /\ walk'.cursor = next /\ walk'.seen = Append(w.seen, page)
      /\ walk'.there = w.there /\ walk'.outcome = w.outcome /\ walk'.user = w.user /\ walk'.scope = w.scope
  <2> DEFINE pc == IF next = NoCursor THEN "done" ELSE "reading"
  <2>1. pc \in WalkPcs
    BY DEF WalkPcs
  <2> HIDE DEF pc
  <2>2. Turned(walk', w, pc, next, page)
    <3>1. page \in SUBSET Row /\ next \in Cursors
      BY Zenon, <1>6
    <3>2. walk' = [w EXCEPT !.pc = pc, !.cursor = next, !.seen = Append(w.seen, page)]
      BY Zenon, <1>1 DEF pc
    <3>3. Turned([w EXCEPT !.pc = pc, !.cursor = next, !.seen = Append(w.seen, page)], w, pc, next, page)
      BY Zenon, <2>1, <3>1, WalkFields
    <3> QED  BY <3>2, <3>3
  <2> QED  BY Zenon, <2>2 DEF pc, Turned
<1>8. w.seen \in Seq(SUBSET Row) /\ Seen(w) \subseteq Row
  <2>1. w.seen \in Seq(SUBSET Row)
    BY DEF Walk
  <2> QED  BY <2>1 DEF Seen
<1>9. Seen(walk') = Seen(w) \cup page
  BY <1>6, <1>7, <1>8, SeenAppend DEF Seen
<1>10. ASSUME NEW x \in Seen(w), NEW y \in page PROVE Below(y, x)
  <2>1. w.cursor \in Row /\ ~Below(x, w.cursor)
    BY Zenon DEF Ready
  <2>2. Below(y, w.cursor)
    BY <1>3, <1>4, <2>1, NoCursorNoRow DEF cursor_condition
  <2>3. x \in Row /\ y \in Row
    BY ZenonT(60), <1>6, <1>8
  <2> QED  BY Zenon, <2>1, <2>2, <2>3, BelowOrder
<1>11. InOrder(walk')
  <2> SUFFICES ASSUME NEW i \in 1..Len(walk'.seen), NEW k \in 1..Len(walk'.seen), i < k,
                      NEW x \in walk'.seen[i], NEW y \in walk'.seen[k]
               PROVE  Below(y, x)
    BY Zenon DEF InOrder
  <2>1. i \in 1..Len(w.seen) /\ walk'.seen[i] = w.seen[i]
    BY SMTT(60), <1>6, <1>7, <1>8, SeenAppend
  <2>2. CASE k \in 1..Len(w.seen)
    BY SMTT(60), <1>6, <1>7, <1>8, <2>1, <2>2, SeenAppend DEF InOrder, Ready, Told
  <2>3. CASE k = Len(w.seen) + 1
    <3>1. x \in Seen(w) /\ y \in page
      BY SMTT(60), <1>6, <1>7, <1>8, <2>1, <2>3, SeenAppend DEF Seen
    <3> QED  BY ZenonT(60), <1>10, <3>1
  <2> QED  BY <1>6, <1>7, <1>8, <2>2, <2>3, SeenAppend
<1>12. Told(walk')
  <2>1. \A x \in Seen(w) \cup w.there \cup page : Written(x) /\ Matches(x, w.outcome, w.user)
    BY Zenon, <1>3, <1>4 DEF Ready, Told
  <2>2. w.scope = "own" => w.user = Viewer
    BY Zenon DEF Ready, Told
  <2>3. Seen(walk') \cup walk'.there = Seen(w) \cup w.there \cup page
    BY Zenon, <1>7, <1>9
  <2> QED  BY <1>7, <1>11, <2>1, <2>2, <2>3 DEF Told
<1>13. \/ walk'.pc = "reading" /\ walk'.cursor \in Row /\ Ready(walk')
       \/ walk'.pc = "done" /\ Told(walk') /\ walk'.there \subseteq Seen(walk')
  <2>1. CASE next = NoCursor
    <3>1. S \subseteq page
      BY Zenon, <1>3, <1>6, <2>1, NoCursorNoRow DEF Cursors
    <3>2. walk'.there \subseteq Seen(walk')
      BY Zenon, <1>5, <1>7, <1>9, <3>1
    <3> QED  BY <1>7, <1>12, <2>1, <3>2
  <2>2. CASE next # NoCursor
    <3>1. /\ next \in page /\ next \in Row
          /\ \A y \in page : ~Below(y, next)
          /\ \A x \in S : x \in page \/ Below(x, next)
      BY Zenon, <1>3, <1>6, <2>2 DEF Cursors
    <3>2. \A x \in walk'.there : x \in Seen(walk') \/ cursor_condition(x, next)
      BY Zenon, <1>5, <1>7, <1>9, <3>1 DEF cursor_condition
    <3>3. \A x \in Seen(walk') : ~Below(x, next)
      <4> SUFFICES ASSUME NEW x \in Seen(w) PROVE ~Below(x, next)
        BY Zenon, <1>9, <3>1
      <4>1. Below(next, x) /\ x \in Row
        BY Zenon, <1>8, <1>10, <3>1
      <4> QED  BY Zenon, <3>1, <4>1, BelowOrder
    <3>4. Ready(walk')
      BY ZenonT(60), <1>7, <1>12, <3>1, <3>2, <3>3 DEF Ready
    <3> QED  BY Zenon, <1>7, <2>2, <3>1, <3>4
  <2> QED  BY Zenon, <2>1, <2>2
<1>14. WalkInv'
  <2>1. Told(walk') => Told(walk)'
    BY SMTT(60), <1>1 DEF Told, Seen, InOrder, Written, Matches, Writer
  <2>2. Ready(walk') => Ready(walk)'
    BY <2>1 DEF Ready, Seen
  <2>3. Seen(walk)' = Seen(walk')
    BY DEF Seen
  <2> QED  BY <1>13, <2>1, <2>2, <2>3 DEF WalkInv
<1>15. LogTypeOK'
  <2>1. TypeOK'
    BY <1>1 DEF LogInv, LogTypeOK, TypeOK, vars
  <2> QED  BY <1>1, <1>7, <2>1 DEF LogInv, LogTypeOK
<1>16. FiniteTables' /\ IdsDealt' /\ LogWritten'
  BY <1>1 DEF LogInv, FiniteTables, IdsDealt, LogWritten, Written, log, vars
<1> QED  BY <1>14, <1>15, <1>16 DEF LogInv

LEMMA FirstPageStep == ASSUME LogInv, first_page PROVE LogInv'
<1>1. PICK outcome \in Outcomes \cup {Unfiltered}, asked \in Users \cup {Unfiltered}, scope \in {"own", "all"} :
        list_for([NoWalk EXCEPT !.outcome = outcome, !.scope = scope, !.user = scoped_to_owner(asked, scope),
                                !.there = {x \in log : Matches(x, outcome, scoped_to_owner(asked, scope))}])
  BY Zenon DEF first_page
<1> DEFINE user == scoped_to_owner(asked, scope)
           there == {x \in log : Matches(x, outcome, user)}
           w == [NoWalk EXCEPT !.outcome = outcome, !.scope = scope, !.user = user, !.there = there]
<1>2. user \in Users \cup {Unfiltered} /\ (scope = "own" => user = Viewer)
  BY FilterAssumption DEF scoped_to_owner
<1>3. there \in SUBSET Row /\ there \subseteq log
  BY LogAssumption DEF LogInv, LogTypeOK, TypeOK, log
<1>4. \A x \in there : Written(x) /\ Matches(x, outcome, user)
  BY Zenon DEF LogInv, LogWritten
<1> HIDE DEF user, there
<1>5. list_for(w)
  BY ZenonT(60), <1>1 DEF user, there
<1>6. NoWalk \in Walk
  BY DEF NoWalk, Walk, WalkPcs, Cursors
<1>7. w \in Walk
  BY Zenon, <1>2, <1>3, <1>6 DEF Walk
<1>8. /\ w.there = there /\ w.outcome = outcome /\ w.user = user /\ w.scope = scope
      /\ w.cursor = NoCursor /\ w.seen = <<>>
  BY DEF NoWalk
<1> HIDE DEF w
<1>9. Seen(w) = {} /\ InOrder(w)
  BY SMTT(60), <1>8 DEF Seen, InOrder
<1>10. Ready(w)
  BY <1>2, <1>4, <1>8, <1>9 DEF Ready, Told, cursor_condition
<1>11. w.there \subseteq log
  BY Zenon, <1>3, <1>8
<1> QED  BY Zenon, <1>5, <1>7, <1>10, <1>11, PageStep

LEMMA NextPageStep == ASSUME LogInv, next_page PROVE LogInv'
<1> DEFINE w == [walk EXCEPT !.there = walk.there \cap log]
<1>1. walk.pc = "reading" /\ list_for(w)
  BY Zenon DEF next_page
<1>2. walk \in Walk
  BY Zenon DEF LogInv, LogTypeOK
<1>3. /\ w \in Walk /\ w.there = walk.there \cap log /\ w.outcome = walk.outcome /\ w.user = walk.user
      /\ w.scope = walk.scope /\ w.cursor = walk.cursor /\ w.seen = walk.seen
  BY <1>2 DEF Walk
<1>4. Ready(walk)
  BY <1>1 DEF LogInv, WalkInv, NoWalk
<1> HIDE DEF w
<1>5. Seen(w) = Seen(walk) /\ InOrder(w) = InOrder(walk)
  BY SMTT(60), <1>3 DEF Seen, InOrder
<1>6. Ready(w)
  BY <1>3, <1>4, <1>5 DEF Ready, Told
<1>7. w.there \subseteq log
  BY <1>3
<1> QED  BY Zenon, <1>1, <1>3, <1>6, <1>7, PageStep

\* The jobs only take rows away.
LEMMA RowsShrink == ASSUME TypeOK, Next, NEW j \in Jobs PROVE rows'[j] \subseteq rows[j]
<1>1. CASE rows' = rows
  BY Zenon, <1>1
<1>2. ASSUME NEW r \in Runners, NEW k \in Jobs, _drain(r, k) PROVE rows'[j] \subseteq rows[j]
  BY <1>2 DEF TypeOK, _drain
<1>3. rows' = rows \/ \E r \in Runners, k \in Jobs : _drain(r, k)
  BY ZenonT(60) DEF Next, RunStep, FaultStep, _delete_batch_before, _affected, unlock, pool_timeout,
     run_once_failed, lose_connection, held_by_one_replica, start, stop, crash, prune, Tick
<1> QED  BY Zenon, <1>1, <1>2, <1>3

LEMMA JobsStep == ASSUME LogInv, Next, UNCHANGED logVars PROVE LogInv'
<1>1. req' = req /\ last' = last /\ walk' = walk
  BY DEF logVars
<1>2. TypeOK /\ TypeOK'
  BY Zenon, TypeStep DEF LogInv, LogTypeOK
<1>3. LogTypeOK'
  BY Zenon, <1>1, <1>2 DEF LogInv, LogTypeOK
<1>4. FiniteTables'
  <2>1. ASSUME NEW j \in Jobs PROVE IsFiniteSet(rows'[j])
    <3>1. IsFiniteSet(rows[j]) /\ rows'[j] \in SUBSET rows[j]
      BY ZenonT(60), <1>2, RowsShrink DEF LogInv, FiniteTables
    <3> QED  BY Zenon, <3>1, FS_Subset
  <2> QED  BY <2>1 DEF FiniteTables
<1>5. IdsDealt'
  BY SMTT(60), <1>1 DEF LogInv, IdsDealt
<1>6. log' \subseteq log
  BY <1>2, RowsShrink, LogAssumption DEF log
<1>7. LogWritten'
  BY <1>1, <1>6 DEF LogInv, LogWritten, Written
<1>8. WalkInv'
  <2>1. \A r \in Requests : req[r].pc = "done" => req'[r] = req[r]
    BY Zenon, <1>1
  <2> QED  BY Zenon, <1>1, <1>5, <2>1, WalkStays DEF LogInv
<1> QED  BY Zenon, <1>3, <1>4, <1>5, <1>7, <1>8 DEF LogInv

LEMMA LogInvInit == LogInit => LogInv
<1> SUFFICES ASSUME LogInit PROVE LogInv
  OBVIOUS
<1>1. /\ clock = 0 /\ rows = [j \in Jobs |-> {}] /\ lock = [j \in Jobs |-> Nobody]
      /\ task = [r \in Runners |-> [j \in Jobs |-> Idle]] /\ faults = 0
  BY DEF LogInit, InitWith
<1>2. req = [r \in Requests |-> NotServed] /\ last = 0 /\ walk = NoWalk
  BY DEF LogInit
<1>3. TypeOK
  BY SMTT(60), <1>1, IdleTyped, BoundsAssumption DEF TypeOK, Time
<1>4. NotServed \in Request /\ NotServed.pc = "idle" /\ NotServed.id = 0
  BY SMTT(60), FilterAssumption, BoundsAssumption DEF NotServed, Request, RequestPcs, Codes, DealtIds, Time
<1>5. NoWalk \in Walk
  BY DEF NoWalk, Walk, WalkPcs, Cursors
<1>6. LogTypeOK
  BY <1>2, <1>3, <1>4, <1>5 DEF LogTypeOK, DealtIds
<1>7. FiniteTables /\ log = {}
  BY <1>1, FS_EmptySet, LogAssumption DEF FiniteTables, log
<1>8. IdsDealt
  BY <1>2, <1>4 DEF IdsDealt
<1> QED  BY <1>2, <1>6, <1>7, <1>8 DEF LogInv, LogWritten, WalkInv

LEMMA LogStep == LogInv /\ [LogNext]_allVars => LogInv'
<1> SUFFICES ASSUME LogInv, [LogNext]_allVars PROVE LogInv'
  OBVIOUS
<1>1. ASSUME NEW r \in Requests, __call__(r) \/ record(r) \/ commit_record(r) \/ _persist(r) PROVE LogInv'
  BY Zenon, <1>1, CallStep, RecordStep, CommitStep, PersistStep
<1>2. CASE first_page \/ next_page
  BY Zenon, <1>2, FirstPageStep, NextPageStep
<1>3. CASE Next /\ UNCHANGED logVars
  BY Zenon, <1>3, JobsStep
<1>4. CASE UNCHANGED allVars
  <2>1. req' = req /\ last' = last /\ walk' = walk /\ rows' = rows /\ UNCHANGED vars
    BY <1>4 DEF allVars, vars
  <2>2. LogTypeOK'
    BY SMTT(60), <2>1 DEF LogInv, LogTypeOK, TypeOK, vars
  <2>3. FiniteTables' /\ IdsDealt' /\ LogWritten'
    BY <2>1 DEF LogInv, FiniteTables, IdsDealt, LogWritten, Written, log
  <2>4. WalkInv'
    <3>1. \A r \in Requests : req[r].pc = "done" => req'[r] = req[r]
      BY Zenon, <2>1
    <3> QED  BY Zenon, <2>1, <2>3, <3>1, WalkStays DEF LogInv
  <2> QED  BY Zenon, <2>2, <2>3, <2>4 DEF LogInv
<1> QED  BY Zenon, <1>1, <1>2, <1>3, <1>4 DEF LogNext

\* What the log, the requests and the reader are at every moment.
THEOREM LogIsKept == LogSpec => []LogInv
BY LogInvInit, LogStep, PTL DEF LogSpec

\* A reader who follows the cursors of list_requests meets the rows in order,
\* each at most once, and when the walk ends has been shown every row that
\* matched at the first page and was not pruned under it: for any page size,
\* any log, and rows committed at any time in any order of stamp and id.
THEOREM WalksAreExact == LogSpec => []WalkIsExact
<1>1. LogInv => WalkIsExact
  <2> SUFFICES ASSUME LogInv PROVE WalkIsExact
    OBVIOUS
  <2>1. CASE walk = NoWalk
    BY <2>1 DEF WalkIsExact, NoWalk
  <2>2. CASE walk # NoWalk
    <3>1. InOrder(walk) /\ (walk.pc = "done" => walk.there \subseteq Seen(walk))
      BY <2>2 DEF LogInv, WalkInv, Ready, Told
    <3> QED  BY SMTT(60), <3>1 DEF WalkIsExact, InOrder, Shown, Seen
  <2> QED  BY Zenon, <2>1, <2>2
<1> QED  BY <1>1, LogIsKept, PTL

\* outcome_for calls an entry by the outcome whose range it was found in.
LEMMA RangesAgree ==
    ASSUME NEW outcome \in Outcomes, NEW status \in OUTCOME_RANGES(outcome)
    PROVE  outcome_for(status) = outcome
BY FilterAssumption DEF OUTCOME_RANGES, outcome_for

\* Every entry shown is by outcome_for of the outcome that was asked for, and
\* without the scope "all" of the viewer's own requests: for all status codes
\* and all users, on every page.
THEOREM ShownIsAsked == LogSpec => []ShownAsAsked
<1>1. LogInv => ShownAsAsked
  <2> SUFFICES ASSUME LogInv, NEW x \in Shown
               PROVE  /\ walk.outcome # Unfiltered => outcome_for(req[Writer(x)].status) = walk.outcome
                      /\ walk.scope = "own" => req[Writer(x)].user = Viewer
    BY Zenon DEF ShownAsAsked
  <2>1. CASE walk = NoWalk
    BY <2>1 DEF Shown, NoWalk
  <2>2. CASE walk # NoWalk
    <3>1. Told(walk)
      BY SMTT(60), <2>2 DEF LogInv, WalkInv, Ready
    <3>2. Matches(x, walk.outcome, walk.user) /\ (walk.scope = "own" => walk.user = Viewer)
      BY <3>1 DEF Told, Seen, Shown
    <3>3. walk.outcome \in Outcomes \cup {Unfiltered}
      BY DEF LogInv, LogTypeOK, Walk
    <3>4. walk.outcome # Unfiltered => outcome_for(req[Writer(x)].status) = walk.outcome
      BY Zenon, <3>2, <3>3, RangesAgree DEF Matches
    <3>5. walk.scope = "own" => req[Writer(x)].user = Viewer
      BY <3>2, FilterAssumption DEF Matches
    <3> QED  BY Zenon, <3>4, <3>5
  <2> QED  BY Zenon, <2>1, <2>2
<1> QED  BY <1>1, LogIsKept, PTL

=============================================================================
