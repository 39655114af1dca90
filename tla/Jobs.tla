--------------------------------- MODULE Jobs ---------------------------------
(***************************************************************************)
(* The background jobs: Scheduler, the advisory lock that lets one replica *)
(* run a job, and the retention work of app/jobs/maintenance.py, with the  *)
(* operator's prune command beside them.                                   *)
(*                                                                         *)
(* Each replica runs every job in a task of its own.  A run takes one      *)
(* pooled connection for the lock and a second one for the work; the lock  *)
(* belongs to the connection, so PostgreSQL frees it when that is lost.    *)
(* The operator's command does the same work without the lock.             *)
(***************************************************************************)
EXTENDS Integers, FiniteSets

CONSTANTS
    Replicas,     \* API processes
    Operator,     \* the prune command, or a script, run by hand
    Nobody,       \* the holder of a free lock
    Jobs,         \* names of the jobs
    Retention,    \* how long each job's rows are kept, in instants
    Pool,         \* pool_size + max_overflow of a replica
    BatchSize,    \* DELETE_BATCH_SIZE
    Ids,          \* row ids
    MaxClock,     \* bound: the last instant
    MaxFaults     \* bound: stops, crashes, failures and lost connections

ASSUME RunnersAssumption == Operator \notin Replicas /\ Nobody \notin Replicas
ASSUME SizesAssumption == Pool \in Nat \ {0} /\ BatchSize \in Nat \ {0} /\ Ids \subseteq Nat
ASSUME BoundsAssumption == MaxClock \in Nat /\ MaxFaults \in Nat /\ Retention \in [Jobs -> Nat]

VARIABLES
    clock,     \* datetime.now
    rows,      \* the table each job prunes, as committed
    lock,      \* the advisory lock of each job: whose connection holds it
    task,      \* what each runner is doing about each job
    faults     \* faults so far

vars == <<clock, rows, lock, task, faults>>

Runners == Replicas \cup {Operator}
Time == 0..MaxClock
Row == [at : Time, id : Ids]

\* off: no task; asleep: between two runs; work: has the lock, wants a
\* connection; batch, deleting, deleted: a statement; unlock: the run is over;
\* leaving: the same, and the task was cancelled.
Pcs == {"off", "asleep", "work", "batch", "deleting", "deleted", "unlock", "leaving"}
Working == {"work", "batch", "deleting", "deleted"}
Task == [pc : Pcs, cutoff : Int, doomed : SUBSET Row, taken : SUBSET Row, lost : BOOLEAN]
Idle == [pc |-> "off", cutoff |-> 0, doomed |-> {}, taken |-> {}, lost |-> FALSE]

TypeOK ==
    /\ clock \in Time
    /\ rows \in [Jobs -> SUBSET Row]
    /\ lock \in [Jobs -> Replicas \cup {Nobody}]
    /\ task \in [Runners -> [Jobs -> Task]]
    /\ faults \in 0..MaxFaults

Set(r, j, fields) == task' = [task EXCEPT ![r][j] = fields]
Fault == faults < MaxFaults /\ faults' = faults + 1

\* Connections a replica's tasks have checked out.
LockConns(r) == {j \in Jobs : task[r][j].pc \in Working \cup {"unlock", "leaving"}}
WorkConns(r) == {j \in Jobs : task[r][j].pc \in Working \ {"work"}}
InUse(r) == Cardinality(LockConns(r)) + Cardinality(WorkConns(r))

-----------------------------------------------------------------------------
\* lifespan and Scheduler.start: one task per job, which sleeps first.
start(r) ==
    /\ \A j \in Jobs : task[r][j].pc = "off"
    /\ task' = [task EXCEPT ![r] = [j \in Jobs |-> [Idle EXCEPT !.pc = "asleep"]]]
    /\ UNCHANGED <<clock, rows, lock, faults>>

\* Scheduler.stop: every task is cancelled where it waits.  A transaction that
\* is open is rolled back; a run gives its lock back on the way out, and one
\* that was doing so loses the connection, and the lock with it.
stop(r) ==
    /\ Fault
    /\ \E j \in Jobs : task[r][j].pc # "off"
    /\ task' = [task EXCEPT ![r] = [j \in Jobs |->
                   IF task[r][j].pc \in Working
                   THEN [Idle EXCEPT !.pc = "leaving", !.lost = task[r][j].lost]
                   ELSE Idle]]
    /\ lock' = [j \in Jobs |-> IF lock[j] = r /\ task[r][j].pc \notin Working THEN Nobody ELSE lock[j]]
    /\ UNCHANGED <<clock, rows>>

\* The process dies: PostgreSQL rolls back and frees what its connections held.
crash(r) ==
    /\ Fault
    /\ \E j \in Jobs : task[r][j].pc # "off"
    /\ task' = [task EXCEPT ![r] = [j \in Jobs |-> Idle]]
    /\ lock' = [j \in Jobs |-> IF lock[j] = r THEN Nobody ELSE lock[j]]
    /\ UNCHANGED <<clock, rows>>

LockOrNot(r, j) ==
    /\ task[r][j].pc = "asleep"
    /\ InUse(r) < Pool
    /\ lock' = [lock EXCEPT ![j] = r] /\ Set(r, j, [Idle EXCEPT !.pc = "work"])
    /\ UNCHANGED <<clock, rows, faults>>

\* Scheduler._loop wakes and once_across_replicas tries the lock; a run that
\* does not get it returns 0 and sleeps again.
held_by_one_replica(r, j) ==
    /\ task[r][j].pc = "asleep"
    /\ InUse(r) < Pool
    /\ IF lock[j] = Nobody
       THEN lock' = [lock EXCEPT ![j] = r] /\ Set(r, j, [Idle EXCEPT !.pc = "work"])
       ELSE UNCHANGED <<lock, task>>
    /\ UNCHANGED <<clock, rows, faults>>

NeverTimesOut(r, j) == FALSE /\ UNCHANGED vars

\* The pool has no second connection to give, perhaps because every one it has
\* is held by a run that waits for a second: the checkout times out, and the
\* run fails.
pool_timeout(r, j) ==
    /\ task[r][j].pc = "work"
    /\ InUse(r) >= Pool
    /\ Set(r, j, [task[r][j] EXCEPT !.pc = "unlock"])
    /\ UNCHANGED <<clock, rows, lock, faults>>

\* The prune command and the scripts work on one table after the other.
prune(j) ==
    /\ \A k \in Jobs : task[Operator][k].pc = "off"
    /\ Set(Operator, j, [Idle EXCEPT !.pc = "batch"])
    /\ UNCHANGED <<clock, rows, lock, faults>>

\* The first rows, by id, of those that aged out.
Oldest(aged, n) == {x \in aged : Cardinality({y \in aged : y.id < x.id}) < n}

\* prune_before and BaseRepository._delete_batch_before: the cutoff, and the
\* rows the statement's snapshot dooms.  expire_tokens asks for all of them.
_delete_batch_before(r, j) ==
    /\ \/ task[r][j].pc = "batch"
       \/ task[r][j].pc = "work" /\ InUse(r) < Pool
    /\ LET cutoff == clock - Retention[j]
           aged == {x \in rows[j] : x.at < cutoff} IN
       Set(r, j, [task[r][j] EXCEPT !.pc = "deleting", !.cutoff = cutoff,
                     !.doomed = IF j = "expire-tokens" THEN aged ELSE Oldest(aged, BatchSize)])
    /\ UNCHANGED <<clock, rows, lock, faults>>

\* The statement waits for rows a rival has deleted and not committed, and
\* counts those it still finds.
_affected(r, j) ==
    /\ task[r][j].pc = "deleting"
    /\ \A s \in Runners \ {r} : task[s][j].taken \cap task[r][j].doomed = {}
    /\ Set(r, j, [task[r][j] EXCEPT !.pc = "deleted", !.taken = task[r][j].doomed \cap rows[j]])
    /\ UNCHANGED <<clock, rows, lock, faults>>

\* Where a run goes when its work is over.
Finished(r, j) == IF r = Operator THEN Idle ELSE [Idle EXCEPT !.pc = "unlock", !.lost = task[r][j].lost]

StopsEarly(r, j) ==
    /\ task[r][j].pc = "deleted"
    /\ rows' = [rows EXCEPT ![j] = @ \ task[r][j].taken]
    /\ Set(r, j, Finished(r, j))
    /\ UNCHANGED <<clock, lock, faults>>

\* _drain: the batch is committed, and a full one asks for another.
_drain(r, j) ==
    /\ task[r][j].pc = "deleted"
    /\ rows' = [rows EXCEPT ![j] = @ \ task[r][j].taken]
    /\ Set(r, j, IF j # "expire-tokens" /\ Cardinality(task[r][j].taken) >= BatchSize
                 THEN [task[r][j] EXCEPT !.pc = "batch", !.doomed = {}, !.taken = {}]
                 ELSE Finished(r, j))
    /\ UNCHANGED <<clock, lock, faults>>

FailForgetsLock(r, j) ==
    /\ Fault
    /\ task[r][j].pc \in Working
    /\ Set(r, j, [Idle EXCEPT !.pc = IF r = Operator THEN "off" ELSE "asleep"])
    /\ UNCHANGED <<clock, rows, lock>>

\* The work raises: its transaction is rolled back, run_once logs it, and the
\* lock is given back all the same.
run_once_failed(r, j) ==
    /\ Fault
    /\ task[r][j].pc \in Working
    /\ Set(r, j, Finished(r, j))
    /\ UNCHANGED <<clock, rows, lock>>

\* held_by_one_replica's finally.
unlock(r, j) ==
    /\ task[r][j].pc \in {"unlock", "leaving"}
    /\ lock' = IF lock[j] = r THEN [lock EXCEPT ![j] = Nobody] ELSE lock
    /\ Set(r, j, [Idle EXCEPT !.pc = IF task[r][j].pc = "unlock" THEN "asleep" ELSE "off"])
    /\ UNCHANGED <<clock, rows, faults>>

\* The lock's connection is lost while the run works on another.
lose_connection(r, j) ==
    /\ Fault
    /\ lock[j] = r
    /\ task[r][j].pc \in Working
    /\ lock' = [lock EXCEPT ![j] = Nobody]
    /\ Set(r, j, [task[r][j] EXCEPT !.lost = TRUE])
    /\ UNCHANGED <<clock, rows>>

Tick ==
    /\ clock < MaxClock
    /\ clock' = clock + 1
    /\ UNCHANGED <<rows, lock, task, faults>>

-----------------------------------------------------------------------------
InitWith(now, tables) ==
    /\ clock = now
    /\ rows \in tables
    /\ lock = [j \in Jobs |-> Nobody]
    /\ task = [r \in Runners |-> [j \in Jobs |-> Idle]]
    /\ faults = 0

\* What the tables may hold: finitely many rows, and an id names one of them.
Tables ==
    {t \in [Jobs -> SUBSET Row] :
        \A j \in Jobs : IsFiniteSet(t[j]) /\ \A x, y \in t[j] : x.id = y.id => x = y}

Init == \E now \in Time : InitWith(now, Tables)

RunStep(r, j) ==
    \/ _delete_batch_before(r, j) \/ _affected(r, j) \/ _drain(r, j) \/ unlock(r, j)
    \/ pool_timeout(r, j)

FaultStep(r, j) == run_once_failed(r, j) \/ lose_connection(r, j)

Next ==
    \/ \E r \in Runners, j \in Jobs : RunStep(r, j) \/ FaultStep(r, j)
    \/ \E r \in Replicas, j \in Jobs : held_by_one_replica(r, j)
    \/ \E r \in Replicas : start(r) \/ stop(r) \/ crash(r)
    \/ \E j \in Jobs : prune(j)
    \/ Tick

Spec == Init /\ [][Next]_vars

\* A run that can go on does: the statements end, the pool's timeout fires.
Fairness == \A r \in Runners, j \in Jobs : WF_vars(RunStep(r, j))
FairSpec == Spec /\ Fairness

-----------------------------------------------------------------------------
\* "A second replica skips the run rather than doing it twice": two replicas
\* work on one job at once only if one of them has lost the connection that
\* held its lock.
SoleRunner ==
    \A r, s \in Replicas, j \in Jobs :
        r # s /\ task[r][j].pc \in Working /\ task[s][j].pc \in Working
            => task[r][j].lost \/ task[s][j].lost

\* A lock is never left behind: whatever a run dies of, the lock it took is
\* held by a run that is still going.
LockIsInUse ==
    \A j \in Jobs, r \in Replicas :
        lock[j] = r => task[r][j].pc \in Working \cup {"unlock", "leaving"} /\ ~task[r][j].lost

\* A run ends only when nothing it should delete is left, unless a rival took
\* rows away from under its last statement and made its batch look short.
DrainedWhenDone ==
    [][\A r \in Runners, j \in Jobs :
        task[r][j].pc = "deleted" /\ faults' = faults /\ task'[r][j].pc \in {"unlock", "off"}
            => \/ task[r][j].taken # task[r][j].doomed
               \/ \A x \in rows'[j] : x.at >= task[r][j].cutoff]_vars

\* Every run ends, also when the jobs of a replica hold the whole pool and
\* wait for one another.
EveryRunEnds ==
    \A r \in Runners, j \in Jobs :
        task[r][j].pc \in Working \cup {"unlock", "leaving"} ~> task[r][j].pc \in {"asleep", "off"}

=============================================================================
