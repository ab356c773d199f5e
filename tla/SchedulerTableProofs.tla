------------------------- MODULE SchedulerTableProofs -------------------------
(***************************************************************************)
(* The tables of Postgres: the rows that tasks name (RowInv), and the      *)
(* statuses of jobs and tasks (StatusInv).                                 *)
(***************************************************************************)
EXTENDS SchedulerProofs

(***************************************************************************)
(* RowInv is an invariant of Scheduler: no commit of the loop leaves a     *)
(* task that names a deleted worker row, although rows are deleted in four *)
(* places and ids are used again.                                          *)
(***************************************************************************)
USE DEF NoTaskRead, ReadBySession, Remembered

LEMMA InitRow == Init => RowInv
  BY DEF Init, NoFinished, NoOrphans, NoMerge, NoSpawn, RowInv, ForeignKey,
         WorkersExclusive, WorkerMemory, SuccessesReleased, NewRows

\* The three lists of workers change together.
LEMMA ListsStep ==
  ListsDisjoint /\ [Next]_vars => ListsDisjoint'
<1> SUFFICES ASSUME ListsDisjoint, [Next]_vars PROVE ListsDisjoint'
  OBVIOUS
<1> USE DEF ListsDisjoint, db, finishedVars, orphanVars, mergeVars, spawnVars,
            locals
<1>1. CASE ListFinished
  BY <1>1 DEF ListFinished, Listed, SucceededJobs, FailedJobs
<1>2. CASE ReadExitCodes
  BY <1>2 DEF ReadExitCodes, Listed
<1>3. CASE ListFinishedFails \/ DeleteWorkerJobs \/ Abort
  BY <1>3 DEF ListFinishedFails, DeleteWorkerJobs, Abort, NothingEnded, Listed
<1>4. CASE \/ ReadEndedTasks \/ ClearWorkers \/ DeleteWorkers \/ CompleteTasks
           \/ \E t \in Tasks : FailTask(t) \/ ResetForceful(t)
           \/ FailTasksDone \/ ResetForcefulDone
  BY <1>4
  DEF ReadEndedTasks, ClearWorkers, DeleteWorkers, CompleteTasks, FailTask,
      ResetForceful, FailTasksDone, ResetForcefulDone
<1>5. CASE Recover \/ Merge
  BY <1>5
  DEF Recover, ListAlive, ListAliveFails, ReadOrphans, RecoverTask, RecoverDone,
      Merge, ReadMergeJobs, SkipJob, PartitionMaps, AddReduceTasks, WriteFinal,
      CleanupJobFiles, CompleteJob, MergeRaises, MergeDone
<1>6. CASE Spawn
  BY <1>6
  DEF Spawn, PickNothing, ReadIdle, AddWorkers, AddWorkersRaises, AssignWorkers,
      CreateWorkerJob, SpawnDone, ActivateWorkers, StartTasks, RunJobs
<1>7. CASE Client \/ Cluster
  BY <1>7
  DEF Client, SubmitJob, AddMapTasks, Cluster, PodSucceeds, PodFails, PodKilled,
      PodEvicted, JobVanishes, JobDeleted, Gone
<1>8. CASE UNCHANGED vars
  BY <1>8 DEF vars
<1> QED
  BY <1>1, <1>2, <1>3, <1>4, <1>5, <1>6, <1>7, <1>8 DEF Next, Tick, Finish

LEMMA ListsInvariant == Spec => []ListsDisjoint
<1>1. Init => ListsDisjoint
  BY DEF Init, NoFinished, ListsDisjoint
<1> QED
  BY <1>1, ListsStep, PTL DEF Spec

\* What the session remembers of workers may be forgotten at any time.
LEMMA MemoryFrame ==
  ASSUME WorkerMemory, UNCHANGED taskWorker,
         \/ /\ UNCHANGED <<pc, successfulTasks>>
            /\ \A t \in Tasks : /\ endedWorker'[t] \in {None, endedWorker[t]}
                               /\ orphanWorker'[t] \in {None, orphanWorker[t]}
         \/ /\ pc \in {"delete", "complete", "fail"}
            /\ pc' \notin {"clear", "recover"}
            /\ UNCHANGED endedWorker
         \/ pc' \notin {"clear", "delete", "complete", "fail", "force", "recover"}
  PROVE  WorkerMemory'
  BY DEF WorkerMemory

\* A step that leaves the rows alone, and the tick at a place where it knows
\* nothing of them.
LEMMA RowFrame ==
  ASSUME RowInv, UNCHANGED <<taskWorker, workerPod>>, WorkerMemory',
         \/ UNCHANGED <<pc, successfulWorkers, successfulTasks, pairing>>
         \/ pc' \notin {"clear", "delete", "assign"}
  PROVE  RowInv'
  BY DEF RowInv, ForeignKey, WorkersExclusive, SuccessesReleased, NewRows,
         NewTasks, RunBy

\* No other task names the row that goes with a task's worker.
LEMMA RowReset ==
  ASSUME TypeOK, RowInv, pc' = pc, pc \in {"fail", "force", "recover"},
         NEW t \in Tasks, NEW s \in {"IDLE", "FAILED"}, Reset(t, s, taskWorker[t]),
         pc # "recover" => endedWorker' = [endedWorker EXCEPT ![t] = None],
         pc = "recover" => orphanWorker' = [orphanWorker EXCEPT ![t] = None]
  PROVE  RowInv'
<1>1. taskWorker' = [taskWorker EXCEPT ![t] = None]
  BY DEF Reset
<1>2. \A w \in Workers : w # taskWorker[t] => workerPod'[w] = workerPod[w]
  BY DEF Reset, DeleteRows
<1>3. \A u \in Tasks :
        taskWorker'[u] # None =>
          taskWorker'[u] = taskWorker[u] /\ taskWorker[u] # taskWorker[t]
  BY <1>1 DEF TypeOK, RowInv, WorkersExclusive
<1>4. ForeignKey'
  BY <1>2, <1>3 DEF TypeOK, RowInv, ForeignKey
<1>5. WorkersExclusive'
  BY <1>3 DEF RowInv, WorkersExclusive
<1>6. WorkerMemory'
  BY <1>1 DEF TypeOK, RowInv, WorkerMemory
<1> QED
  BY <1>4, <1>5, <1>6 DEF RowInv, SuccessesReleased, NewRows

LEMMA RowFinish ==
  ASSUME TypeOK, ListsDisjoint, RowInv, Finish
  PROVE  RowInv'
<1> USE DEF db, finishedVars, orphanVars, mergeVars, spawnVars, locals
<1>1. CASE ReadEndedTasks
  <2>1. WorkerMemory'
    BY <1>1 DEF ReadEndedTasks, EndedTasks, RunBy, WorkerMemory, ListsDisjoint
  <2>2. SuccessesReleased'
    BY <1>1 DEF ReadEndedTasks, EndedTasks, RunBy, SuccessesReleased
  <2> QED
    BY <1>1, <2>1, <2>2
    DEF ReadEndedTasks, RowInv, ForeignKey, WorkersExclusive, NewRows
<1>2. CASE ClearWorkers
  <2>1. \A t \in Tasks : taskWorker'[t] # None => taskWorker'[t] = taskWorker[t]
    BY <1>2 DEF ClearWorkers, Cleared
  <2>2. ForeignKey' /\ WorkersExclusive'
    BY <1>2, <2>1 DEF ClearWorkers, RowInv, ForeignKey, WorkersExclusive
  <2>3. \A t \in Tasks : taskWorker'[t] \notin successfulWorkers
    BY <1>2, NoneAssumption
    DEF ClearWorkers, Cleared, RunBy, TypeOK, RowInv, SuccessesReleased
  <2>4. WorkerMemory'
    BY <1>2 DEF ClearWorkers, Cleared, RowInv, WorkerMemory
  <2> QED
    BY <1>2, <2>2, <2>3, <2>4
    DEF ClearWorkers, RowInv, SuccessesReleased, NewRows
<1>3. CASE DeleteWorkers
  <2>1. \A t \in Tasks : taskWorker[t] \notin successfulWorkers
    BY <1>3 DEF DeleteWorkers, RowInv, SuccessesReleased
  <2>2. ForeignKey'
    BY <1>3, <2>1 DEF DeleteWorkers, DeleteRows, RowInv, ForeignKey, TypeOK
  <2>3. WorkerMemory'
    BY <1>3, MemoryFrame DEF DeleteWorkers, RowInv
  <2> QED
    BY <1>3, <2>2, <2>3
    DEF DeleteWorkers, RowInv, WorkersExclusive, SuccessesReleased, NewRows
<1>4. ASSUME NEW t \in Tasks, FailTask(t)
      PROVE  RowInv'
  <2>1. Remembered(endedWorker, t) = taskWorker[t]
    BY <1>4 DEF FailTask, RowInv, WorkerMemory
  <2>2. CASE Resettable(t)
    BY <1>4, <2>1, <2>2, RowReset DEF FailTask
  <2>3. CASE ~Resettable(t)
    <3>1. WorkerMemory'
      BY <1>4, <2>3, MemoryFrame DEF FailTask, RowInv, TypeOK
    <3> QED
      BY <1>4, <2>3, <3>1, RowFrame DEF FailTask
  <2> QED
    BY <2>2, <2>3
<1>5. ASSUME NEW t \in Tasks, ResetForceful(t)
      PROVE  RowInv'
  <2>1. Remembered(endedWorker, t) = taskWorker[t]
    BY <1>5 DEF ResetForceful, RowInv, WorkerMemory
  <2>2. CASE Resettable(t)
    BY <1>5, <2>1, <2>2, RowReset DEF ResetForceful
  <2>3. CASE ~Resettable(t)
    <3>1. WorkerMemory'
      BY <1>5, <2>3, MemoryFrame DEF ResetForceful, RowInv, TypeOK
    <3> QED
      BY <1>5, <2>3, <3>1, RowFrame DEF ResetForceful
  <2> QED
    BY <2>2, <2>3
<1>6. CASE \/ ListFinished \/ ReadExitCodes \/ ListFinishedFails \/ CompleteTasks
           \/ FailTasksDone \/ ResetForcefulDone \/ DeleteWorkerJobs
  <2>1. WorkerMemory'
    BY <1>6, MemoryFrame
    DEF ListFinished, ReadExitCodes, ListFinishedFails, CompleteTasks,
        FailTasksDone, ResetForcefulDone, DeleteWorkerJobs, RowInv
  <2> QED
    BY <1>6, <2>1, RowFrame
    DEF ListFinished, ReadExitCodes, ListFinishedFails, CompleteTasks,
        FailTasksDone, ResetForcefulDone, DeleteWorkerJobs
<1> QED
  BY <1>1, <1>2, <1>3, <1>4, <1>5, <1>6 DEF Finish

LEMMA RowRecover ==
  ASSUME TypeOK, RowInv, Recover
  PROVE  RowInv'
<1> USE DEF db, finishedVars, orphanVars, mergeVars, spawnVars, locals
<1>1. CASE ListAlive \/ ListAliveFails \/ ReadOrphans \/ RecoverDone
  <2>1. WorkerMemory'
    BY <1>1
    DEF ListAlive, ListAliveFails, AliveUnknown, ReadOrphans, RecoverDone,
        WorkerMemory
  <2> QED
    BY <1>1, <2>1, RowFrame
    DEF ListAlive, ListAliveFails, AliveUnknown, ReadOrphans, RecoverDone
<1>2. ASSUME NEW t \in Tasks, RecoverTask(t)
      PROVE  RowInv'
  <2>1. CASE Respawn(t) /\ orphanWorker' = [orphanWorker EXCEPT ![t] = None]
    <3>1. Remembered(orphanWorker, t) = taskWorker[t]
      BY <1>2 DEF RecoverTask, RowInv, WorkerMemory
    <3> QED
      BY <1>2, <2>1, <3>1, RowReset DEF RecoverTask, Respawn
  <2>2. CASE UNCHANGED db
    <3>1. WorkerMemory'
      BY <1>2, <2>2, MemoryFrame DEF RecoverTask, RowInv, TypeOK
    <3> QED
      BY <1>2, <2>2, <3>1, RowFrame DEF RecoverTask
  <2> QED
    BY <1>2, <2>1, <2>2 DEF RecoverTask
<1> QED
  BY <1>1, <1>2 DEF Recover

LEMMA RowMerge ==
  ASSUME RowInv, Merge
  PROVE  RowInv'
<1> USE DEF Visit, db, finishedVars, orphanVars, mergeVars, spawnVars, locals
<1>1. UNCHANGED <<taskWorker, workerPod>>
  BY DEF Merge, ReadMergeJobs, SkipJob, PartitionMaps, AddReduceTasks,
         WriteFinal, CleanupJobFiles, CompleteJob, MergeRaises, MergeDone
<1>2. pc' \in {"merge", "partitioned", "written", "cleaned", "pick"}
  BY DEF Merge, ReadMergeJobs, SkipJob, PartitionMaps, AddReduceTasks,
         WriteFinal, CleanupJobFiles, CompleteJob, MergeRaises, MergeDone
<1>3. WorkerMemory'
  BY <1>1, <1>2, MemoryFrame DEF RowInv
<1> QED
  BY <1>1, <1>2, <1>3, RowFrame

LEMMA RowSpawn ==
  ASSUME TypeOK, RowInv, Spawn
  PROVE  RowInv'
<1> USE DEF db, finishedVars, orphanVars, mergeVars, spawnVars, locals
<1>1. CASE AddWorkers
  <2>1. PICK p \in Pairings(toSpawn, FreshWorkers) :
          pairing' = Paired(p, toSpawn) /\ workerPod' = Named(p, toSpawn)
    BY <1>1 DEF AddWorkers
  <2>2. p \in [toSpawn -> FreshWorkers] /\ toSpawn \subseteq Tasks
    BY <2>1 DEF Pairings, TypeOK
  <2>3. \A w \in Workers : workerPod[w] # None => workerPod'[w] # None
    BY <2>1, <2>2, NoneAssumption DEF Named
  <2>4. \A t \in toSpawn : workerPod'[p[t]] # None
    BY <2>1, <2>2, NoneAssumption DEF Named, FreshWorkers
  <2>5. ForeignKey' /\ WorkersExclusive'
    BY <1>1, <2>3 DEF AddWorkers, RowInv, ForeignKey, WorkersExclusive, TypeOK
  <2>6. NewTasks' \subseteq toSpawn /\ \A t \in NewTasks' : pairing'[t] = p[t]
    BY <2>1 DEF NewTasks, Paired
  <2>7. NewRows'
    BY <1>1, <2>2, <2>4, <2>6 DEF AddWorkers, NewRows, FreshWorkers
  <2> QED
    BY <1>1, <2>5, <2>7
    DEF AddWorkers, RowInv, WorkerMemory, SuccessesReleased
<1>2. CASE AssignWorkers
  <2>1. PICK p \in Pairings(NewTasks, NewWorkers) :
          taskWorker' = [t \in Tasks |->
            IF t \in NewTasks /\ taskWorker[t] = None THEN p[t]
            ELSE taskWorker[t]]
    BY <1>2 DEF AssignWorkers
  <2>2. /\ p \in [NewTasks -> NewWorkers]
        /\ \A s, t \in NewTasks : p[s] = p[t] => s = t
    BY DEF Pairings
  <2>3. \A w \in NewWorkers :
          workerPod[w] # None /\ \A s \in Tasks : taskWorker[s] # w
    BY <1>2 DEF AssignWorkers, RowInv, NewRows, NewWorkers
  <2>4. ForeignKey'
    BY <1>2, <2>1, <2>2, <2>3 DEF AssignWorkers, RowInv, ForeignKey
  <2>5. WorkersExclusive'
    BY <2>1, <2>2, <2>3 DEF RowInv, WorkersExclusive
  <2> QED
    BY <1>2, <2>4, <2>5
    DEF AssignWorkers, RowInv, WorkerMemory, SuccessesReleased, NewRows
<1>3. ASSUME NEW t \in Tasks, CreateWorkerJob(t)
      PROVE  RowInv'
  <2>1. WorkerMemory'
    BY <1>3, MemoryFrame DEF CreateWorkerJob, RowInv
  <2> QED
    BY <1>3, <2>1, RowFrame DEF CreateWorkerJob
<1>4. CASE \/ PickNothing \/ ReadIdle \/ AddWorkersRaises \/ SpawnDone
           \/ ActivateWorkers \/ StartTasks \/ RunJobs
  <2>1. WorkerMemory'
    BY <1>4, MemoryFrame
    DEF PickNothing, ReadIdle, AddWorkersRaises, SpawnDone, ActivateWorkers,
        StartTasks, RunJobs, RowInv
  <2> QED
    BY <1>4, <2>1, RowFrame
    DEF PickNothing, ReadIdle, AddWorkersRaises, SpawnDone, ActivateWorkers,
        StartTasks, RunJobs
<1> QED
  BY <1>1, <1>2, <1>3, <1>4 DEF Spawn

LEMMA RowStep ==
  ASSUME TypeOK, ListsDisjoint, RowInv, [Next]_vars
  PROVE  RowInv'
<1> USE DEF db, finishedVars, orphanVars, mergeVars, spawnVars, locals
<1>1. CASE Tick
  BY <1>1, RowFinish, RowRecover, RowMerge, RowSpawn DEF Tick
<1>2. CASE Abort
  <2>1. WorkerMemory'
    BY <1>2, MemoryFrame DEF Abort, RowInv
  <2> QED
    BY <1>2, <2>1, RowFrame DEF Abort
<1>3. CASE Client
  <2>1. WorkerMemory'
    BY <1>3, MemoryFrame DEF Client, SubmitJob, AddMapTasks, RowInv
  <2> QED
    BY <1>3, <2>1, RowFrame DEF Client, SubmitJob, AddMapTasks
<1>4. CASE Cluster
  <2>1. UNCHANGED <<taskWorker, workerPod>>
    BY <1>4
    DEF Cluster, PodSucceeds, PodFails, PodKilled, PodEvicted, JobVanishes,
        JobDeleted, Gone
  <2>2. UNCHANGED <<pc, finishedVars, orphanVars, pairing>>
    BY <1>4
    DEF Cluster, PodSucceeds, PodFails, PodKilled, PodEvicted, JobVanishes,
        JobDeleted, Gone
  <2>3. WorkerMemory'
    BY <2>1, <2>2, MemoryFrame DEF RowInv
  <2> QED
    BY <2>1, <2>2, <2>3, RowFrame
<1>5. CASE UNCHANGED vars
  <2>1. WorkerMemory'
    BY <1>5, MemoryFrame DEF vars, RowInv
  <2> QED
    BY <1>5, <2>1, RowFrame DEF vars
<1> QED
  BY <1>1, <1>2, <1>3, <1>4, <1>5 DEF Next

\* The rows stay consistent at every commit: worker_service.py deletes rows
\* only after the tasks that name them were cleared.
THEOREM RowInvariant == Spec => []RowInv
<1>1. Init => RowInv
  BY InitRow
<1>2. TypeOK /\ ListsDisjoint /\ RowInv /\ [Next]_vars => RowInv'
  BY RowStep
<1> QED
  BY <1>1, <1>2, TypeCorrect, ListsInvariant, PTL DEF Spec

\* tasks.worker_pod_id never dangles, so no transaction of the loop is refused
\* for the foreign key, whatever fails, dies or is interleaved.
THEOREM RowsOutliveReferences == Spec => []ForeignKey
<1>1. RowInv => ForeignKey
  BY DEF RowInv
<1> QED
  BY <1>1, RowInvariant, PTL

----
(***************************************************************************)
(* StatusInv is an invariant of Scheduler, and with it the MAP barrier and *)
(* the finality of COMPLETED and FAILED.                                   *)
(***************************************************************************)
USE DEF NoJobRead, Visit, Kept, StatusRead, mergeVars

LEMMA InitStatus == Init => StatusInv
  BY TasksAssumption
  DEF Init, NoFinished, NoOrphans, NoMerge, NoSpawn, StatusInv,
      BusyTasksUnfinished, SuccessesUnfinished, PickedTasks, LockedJob,
      StatusMemory, CompletedJobs, MapBarrier, TasksOf, MapsOf, ReducesOf,
      Tasks, NewTasks

\* A step that leaves the statuses and the knowledge of the tick alone.
LEMMA StatusFrame ==
  ASSUME StatusInv,
         UNCHANGED <<jobStatus, taskStatus, taskWorker>>,
         UNCHANGED <<pc, successfulTasks, mergeVars, pairing>>,
         toSpawn' \subseteq toSpawn
  PROVE  StatusInv' /\ TerminalStep
  BY DEF StatusInv, BusyTasksUnfinished, SuccessesUnfinished, PickedTasks,
         LockedJob, StatusMemory, CompletedJobs, MapBarrier, TerminalStep,
         NewTasks, MapsDone, ReducesDone, AllCompleted, Open, StatusRead

LEMMA StatusCluster ==
  ASSUME StatusInv, Cluster
  PROVE  StatusInv' /\ TerminalStep
<1>1. /\ UNCHANGED <<jobStatus, taskStatus, taskWorker>>
      /\ UNCHANGED <<pc, successfulTasks, mergeVars, pairing, toSpawn>>
  BY DEF Cluster, PodSucceeds, PodFails, PodKilled, PodEvicted, JobVanishes,
         JobDeleted, Gone, db, locals, finishedVars, orphanVars, mergeVars,
         spawnVars
<1> QED
  BY <1>1, StatusFrame

LEMMA StatusAbort ==
  ASSUME TypeOK, StatusInv, Abort
  PROVE  StatusInv' /\ TerminalStep
  BY DEF Abort, NothingEnded, EndedTasks, StatusInv, BusyTasksUnfinished,
         SuccessesUnfinished, PickedTasks, LockedJob, StatusMemory, CompletedJobs,
         MapBarrier, TerminalStep, NewTasks, db

LEMMA StatusClient ==
  ASSUME TypeOK, StatusInv, Client
  PROVE  StatusInv' /\ TerminalStep
<1> USE DEF StatusInv, BusyTasksUnfinished, SuccessesUnfinished, PickedTasks,
            LockedJob, StatusMemory, CompletedJobs, MapBarrier, TerminalStep,
            NewTasks, MapsDone, ReducesDone, AllCompleted, Open, StatusRead,
            locals, finishedVars, mergeVars, spawnVars, TypeOK, TasksOf
<1>1. ASSUME NEW j \in Jobs, SubmitJob(j)
      PROVE  StatusInv' /\ TerminalStep
  BY <1>1 DEF SubmitJob
<1>2. ASSUME NEW j \in Jobs, AddMapTasks(j)
      PROVE  StatusInv' /\ TerminalStep
  BY <1>2, TasksAssumption DEF AddMapTasks, Added, MapsOf, ReducesOf, Tasks
<1> QED
  BY <1>1, <1>2 DEF Client

\* A task that is unfinished changes its status outside the merge and the
\* scheduling phase; its worker is cleared or stays.
LEMMA StatusReset ==
  ASSUME TypeOK, StatusInv, pc \in {"fail", "force", "recover"}, pc' = pc,
         NEW t \in Tasks, taskStatus[t] = "IN_PROGRESS",
         NEW s \in {"IDLE", "FAILED"}, \E w : Reset(t, s, w),
         \/ UNCHANGED jobStatus
         \/ jobStatus' = [jobStatus EXCEPT ![JobOf[t]] = "FAILED"],
         UNCHANGED <<mergeJobs, jobRead, current>>
  PROVE  StatusInv' /\ TerminalStep
<1> USE DEF TypeOK, Reset
<1>1. /\ taskStatus' = [taskStatus EXCEPT ![t] = s]
      /\ taskWorker' = [taskWorker EXCEPT ![t] = None]
  OBVIOUS
<1>2. BusyTasksUnfinished'
  BY <1>1 DEF StatusInv, BusyTasksUnfinished
<1>3. SuccessesUnfinished' /\ PickedTasks'
  BY DEF SuccessesUnfinished, PickedTasks
<1>4. \A j \in Jobs : MapsDone(j) => MapsDone(j)'
  BY <1>1 DEF MapsDone, AllCompleted, MapsOf, Tasks
<1>5. LockedJob'
  BY <1>4 DEF StatusInv, LockedJob
<1>6. \A j \in Jobs : t \in TasksOf(j) => jobStatus[j] # "COMPLETED"
  BY DEF StatusInv, CompletedJobs
<1>7. CompletedJobs'
  BY <1>1, <1>6 DEF StatusInv, CompletedJobs, TasksOf, MapsOf, ReducesOf, Tasks
<1>8. MapBarrier'
  BY <1>1 DEF StatusInv, MapBarrier, MapsOf, ReducesOf, Tasks
<1>9. TerminalStep
  BY <1>1, <1>6, TasksAssumption
  DEF TerminalStep, TasksOf, MapsOf, ReducesOf, Tasks
<1>10. StatusMemory'
  BY DEF StatusInv, StatusMemory
<1> QED
  BY <1>2, <1>3, <1>5, <1>7, <1>8, <1>9, <1>10 DEF StatusInv

LEMMA StatusFinish ==
  ASSUME TypeOK, StatusInv, Finish
  PROVE  StatusInv' /\ TerminalStep
<1> USE DEF db, finishedVars, orphanVars, mergeVars, spawnVars, locals
<1>1. CASE ListFinished \/ ReadExitCodes \/ ListFinishedFails
  BY <1>1
  DEF ListFinished, ReadExitCodes, ListFinishedFails, StatusInv,
      BusyTasksUnfinished, SuccessesUnfinished, PickedTasks, LockedJob,
      StatusMemory, CompletedJobs, MapBarrier, TerminalStep, MapsDone,
      AllCompleted
<1>2. CASE ClearWorkers
  BY <1>2
  DEF ClearWorkers, Cleared, StatusInv, BusyTasksUnfinished,
      SuccessesUnfinished, PickedTasks, LockedJob, StatusMemory, CompletedJobs,
      MapBarrier, TerminalStep, MapsDone, AllCompleted, TypeOK
<1>3. CASE DeleteWorkers
  BY <1>3
  DEF DeleteWorkers, DeleteRows, StatusInv, BusyTasksUnfinished,
      SuccessesUnfinished, PickedTasks, LockedJob, StatusMemory, CompletedJobs,
      MapBarrier, TerminalStep, MapsDone, AllCompleted
<1>4. CASE CompleteTasks
  BY <1>4
  DEF CompleteTasks, SetStatus, StatusInv, BusyTasksUnfinished,
      SuccessesUnfinished, PickedTasks, LockedJob, StatusMemory, CompletedJobs,
      MapBarrier, TerminalStep, MapsDone, AllCompleted, TypeOK, MapsOf,
      ReducesOf, TasksOf, Tasks
<1>5. ASSUME NEW t \in Tasks, FailTask(t)
      PROVE  StatusInv' /\ TerminalStep
  <2>1. CASE Resettable(t)
    BY <1>5, <2>1, StatusReset DEF FailTask, Resettable
  <2>2. CASE ~Resettable(t)
    BY <1>5, <2>2, StatusFrame DEF FailTask
  <2> QED
    BY <2>1, <2>2
<1>6. ASSUME NEW t \in Tasks, ResetForceful(t)
      PROVE  StatusInv' /\ TerminalStep
  <2>1. CASE Resettable(t)
    BY <1>6, <2>1, StatusReset DEF ResetForceful, Resettable
  <2>2. CASE ~Resettable(t)
    BY <1>6, <2>2, StatusFrame DEF ResetForceful
  <2> QED
    BY <2>1, <2>2
<1>7. CASE FailTasksDone \/ ResetForcefulDone \/ DeleteWorkerJobs
  BY <1>7
  DEF FailTasksDone, ResetForcefulDone, DeleteWorkerJobs, StatusInv,
      BusyTasksUnfinished, SuccessesUnfinished, PickedTasks, LockedJob,
      StatusMemory, CompletedJobs, MapBarrier, TerminalStep, MapsDone,
      AllCompleted
<1>8. CASE ReadEndedTasks
  <2>1. \A t \in successfulTasks' : t \in Tasks /\ taskWorker[t] # None
    BY <1>8, NoneAssumption DEF ReadEndedTasks, EndedTasks, RunBy, TypeOK
  <2> QED
    BY <1>8, <2>1
    DEF ReadEndedTasks, StatusInv, BusyTasksUnfinished, SuccessesUnfinished,
        PickedTasks, LockedJob, StatusMemory, CompletedJobs, MapBarrier,
        TerminalStep, MapsDone, AllCompleted
<1> QED
  BY <1>1, <1>2, <1>3, <1>4, <1>5, <1>6, <1>7, <1>8 DEF Finish

LEMMA StatusRecover ==
  ASSUME TypeOK, WorkerMemory, StatusInv, Recover
  PROVE  StatusInv' /\ TerminalStep
<1> USE DEF db, finishedVars, orphanVars, mergeVars, spawnVars, locals
<1>1. CASE ListAlive \/ ListAliveFails \/ ReadOrphans \/ RecoverDone
  BY <1>1
  DEF ListAlive, ListAliveFails, AliveUnknown, ReadOrphans, RecoverDone,
      StatusInv, BusyTasksUnfinished, SuccessesUnfinished, PickedTasks,
      LockedJob, StatusMemory, CompletedJobs, MapBarrier, TerminalStep,
      MapsDone, AllCompleted
<1>2. ASSUME NEW t \in Tasks, RecoverTask(t)
      PROVE  StatusInv' /\ TerminalStep
  <2>1. CASE Orphaned(t) /\ Respawn(t) /\ UNCHANGED jobStatus
    <3>1. taskStatus[t] = "IN_PROGRESS"
      BY <1>2, <2>1
      DEF RecoverTask, Orphaned, Remembered, WorkerMemory, StatusInv,
          BusyTasksUnfinished
    <3> QED
      BY <1>2, <2>1, <3>1, StatusReset DEF RecoverTask, Respawn
  <2>2. CASE UNCHANGED db
    BY <1>2, <2>2, StatusFrame DEF RecoverTask
  <2> QED
    BY <1>2, <2>1, <2>2 DEF RecoverTask
<1> QED
  BY <1>1, <1>2 DEF Recover

LEMMA StatusMerge ==
  ASSUME TypeOK, StatusInv, Merge
  PROVE  StatusInv' /\ TerminalStep
<1> USE DEF db, finishedVars, orphanVars, mergeVars, spawnVars, locals,
            StatusInv, BusyTasksUnfinished, SuccessesUnfinished, PickedTasks,
            LockedJob, StatusMemory, CompletedJobs, MapBarrier, TerminalStep,
            TypeOK
<1>1. CASE ReadMergeJobs
  BY <1>1 DEF ReadMergeJobs, MapsDone, AllCompleted
<1>2. ASSUME NEW j \in Jobs, SkipJob(j)
      PROVE  StatusInv' /\ TerminalStep
  BY <1>2 DEF SkipJob, MapsDone, AllCompleted
<1>3. ASSUME NEW j \in Jobs, PartitionMaps(j)
      PROVE  StatusInv' /\ TerminalStep
  BY <1>3 DEF PartitionMaps, Shufflable, Reducing, MapsDone, AllCompleted
<1>4. ASSUME NEW j \in Jobs, WriteFinal(j)
      PROVE  StatusInv' /\ TerminalStep
  BY <1>4
  DEF WriteFinal, Finalizable, Open, ReducesDone, MapsDone, AllCompleted
<1>5. CASE AddReduceTasks
  <2>1. current \in Jobs /\ MapsDone(current)
    BY <1>5 DEF AddReduceTasks
  <2>2. \A t \in Tasks : taskStatus[t] # "NONE" => taskStatus'[t] = taskStatus[t]
    BY <1>5 DEF AddReduceTasks, Added
  <2>3. \A t \in Tasks : taskStatus'[t] # taskStatus[t] => t \in ReducesOf(current)
    BY <1>5 DEF AddReduceTasks, Added
  <2>4. \A j \in Jobs : MapsDone(j) => MapsDone(j)'
    BY <2>2 DEF MapsDone, AllCompleted, MapsOf, Tasks
  <2>5. MapBarrier'
    BY <2>1, <2>3, <2>4 DEF MapsDone, AllCompleted, MapsOf, ReducesOf, Tasks
  <2>6. CompletedJobs'
    <3>1. jobStatus' = jobStatus
      BY <1>5 DEF AddReduceTasks
    <3>2. \A j \in Jobs : TasksOf(j) \subseteq Tasks
      BY DEF TasksOf, MapsOf, ReducesOf, Tasks
    <3> QED
      BY <2>2, <3>1, <3>2
  <2>7. TerminalStep
    BY <1>5, <2>2 DEF AddReduceTasks
  <2>8. BusyTasksUnfinished'
    BY <1>5, <2>2 DEF AddReduceTasks, Added
  <2>9. StatusMemory'
    BY <1>5 DEF AddReduceTasks
  <2>10. LockedJob' /\ SuccessesUnfinished' /\ PickedTasks'
    BY <1>5, <2>4 DEF AddReduceTasks
  <2> QED
    BY <2>5, <2>6, <2>7, <2>8, <2>9, <2>10
<1>6. CASE CleanupJobFiles
  BY <1>6 DEF CleanupJobFiles, Open, MapsDone, ReducesDone, AllCompleted
<1>7. CASE CompleteJob
  BY <1>7
  DEF CompleteJob, Open, TasksOf, MapsDone, ReducesDone, AllCompleted
<1>8. CASE MergeRaises \/ MergeDone
  BY <1>8 DEF MergeRaises, MergeDone, MapsDone, AllCompleted
<1> QED
  BY <1>1, <1>2, <1>3, <1>4, <1>5, <1>6, <1>7, <1>8 DEF Merge

LEMMA StatusSpawn ==
  ASSUME TypeOK, StatusInv, Spawn
  PROVE  StatusInv' /\ TerminalStep
<1> USE DEF db, finishedVars, orphanVars, mergeVars, spawnVars, locals,
            StatusInv, BusyTasksUnfinished, SuccessesUnfinished, PickedTasks,
            LockedJob, StatusMemory, CompletedJobs, MapBarrier, TerminalStep,
            TypeOK
<1>1. CASE PickNothing \/ AddWorkersRaises
  BY <1>1 DEF PickNothing, AddWorkersRaises, MapsDone, AllCompleted
<1>2. CASE AddWorkers
  <2>1. PICK p \in Pairings(toSpawn, FreshWorkers) :
          pairing' = Paired(p, toSpawn)
    BY <1>2 DEF AddWorkers
  <2>2. NewTasks' \subseteq toSpawn
    BY <2>1 DEF NewTasks, Paired
  <2> QED
    BY <1>2, <2>2 DEF AddWorkers, MapsDone, AllCompleted
<1>3. CASE AssignWorkers
  <2>1. PICK p \in Pairings(NewTasks, NewWorkers) :
          /\ pairing' = Paired(p, NewTasks)
          /\ taskWorker' = [t \in Tasks |->
               IF t \in NewTasks /\ taskWorker[t] = None THEN p[t]
               ELSE taskWorker[t]]
    BY <1>3 DEF AssignWorkers
  <2>2. NewTasks' \subseteq NewTasks
    BY <2>1 DEF NewTasks, Paired
  <2> QED
    BY <1>3, <2>1, <2>2 DEF AssignWorkers, MapsDone, AllCompleted
<1>4. ASSUME NEW t \in Tasks, CreateWorkerJob(t)
      PROVE  StatusInv' /\ TerminalStep
  BY <1>4, StatusFrame DEF CreateWorkerJob
<1>5. CASE SpawnDone \/ ActivateWorkers
  BY <1>5
  DEF SpawnDone, ActivateWorkers, NewTasks, MapsDone, AllCompleted
<1>6. CASE StartTasks
  BY <1>6
  DEF StartTasks, SetStatus, NewTasks, MapsDone, AllCompleted, MapsOf,
      ReducesOf, TasksOf, Tasks
<1>7. CASE RunJobs
  <2>1. \A j \in RunningJobs(NewTasks) : j \in Jobs /\ jobStatus[j] # "COMPLETED"
    BY <1>7, TasksAssumption
    DEF RunJobs, RunningJobs, NewTasks, TasksOf, MapsOf, ReducesOf, Tasks
  <2> QED
    BY <1>7, <2>1 DEF RunJobs, MapsDone, AllCompleted
<1>8. CASE ReadIdle
  BY <1>8 DEF ReadIdle, Batches, IdleTasks, MapsDone, AllCompleted
<1> QED
  BY <1>1, <1>2, <1>3, <1>4, <1>5, <1>6, <1>7, <1>8 DEF Spawn

LEMMA StatusStep ==
  ASSUME TypeOK, RowInv, StatusInv, [Next]_vars
  PROVE  StatusInv' /\ [TerminalStep]_vars
<1>1. CASE Next
  BY <1>1, StatusFinish, StatusRecover, StatusMerge, StatusSpawn,
     StatusAbort, StatusClient, StatusCluster DEF Next, Tick, RowInv
<1>2. CASE UNCHANGED vars
  BY <1>2, StatusFrame
  DEF vars, db, locals, finishedVars, mergeVars, spawnVars
<1> QED
  BY <1>1, <1>2

\* What the tick read is still so when it writes: StatusInv holds in
\* every reachable state.
THEOREM StatusInvariant == Spec => []StatusInv
<1>1. Init => StatusInv
  BY InitStatus
<1>2. TypeOK /\ RowInv /\ StatusInv /\ [Next]_vars => StatusInv'
  BY StatusStep
<1> QED
  BY <1>1, <1>2, TypeCorrect, RowInvariant, PTL DEF Spec

\* The REDUCE tasks of a job exist only when all its MAP tasks are COMPLETED.
THEOREM MapsBeforeReduces == Spec => []MapBarrier
<1>1. StatusInv => MapBarrier
  BY DEF StatusInv
<1> QED
  BY <1>1, StatusInvariant, PTL

\* COMPLETED is final for a job, COMPLETED and FAILED for a task, and no step
\* makes a FAILED job COMPLETED.
THEOREM FinalStatuses == Spec => TerminalStates
<1>1. TypeOK /\ RowInv /\ StatusInv /\ [Next]_vars => [TerminalStep]_vars
  BY StatusStep
<1> QED
  BY <1>1, TypeCorrect, RowInvariant, StatusInvariant, PTL
  DEF Spec, TerminalStates
=============================================================================
