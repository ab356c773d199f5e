--------------------------- MODULE SchedulerProofs ---------------------------
(***************************************************************************)
(* Theorems about Scheduler, for any jobs, tasks, workers, limits, faults  *)
(* and number of dead ticks.                                               *)
(***************************************************************************)
EXTENDS SchedulerProperties, TLAPS

USE DEF Phases, KJobState, Content, JobStatus, TaskStatus
USE DEF NoTaskRead, NoJobRead, ReadBySession, Visit, Kept

\* The tables, the cluster, the store and the locals of the tick keep their
\* types.
LEMMA InitType == Init => TypeOK
  BY BoundsAssumption DEF Init, TypeOK, NoFinished, NoOrphans, NoMerge, NoSpawn

LEMMA TypeFinish ==
  TypeOK /\ Finish => TypeOK'
<1> SUFFICES ASSUME TypeOK, Finish PROVE TypeOK'
  OBVIOUS
<1> USE DEF TypeOK, db, k8s, minio, finishedVars, orphanVars, mergeVars,
            spawnVars, locals
<1>1. CASE ListFinished \/ ReadExitCodes
  BY <1>1 DEF ListFinished, ReadExitCodes, Listed, SucceededJobs, FailedJobs
<1>2. CASE ListFinishedFails
  BY <1>2 DEF ListFinishedFails, Listed
<1>3. CASE ClearWorkers
  BY <1>3 DEF ClearWorkers, Cleared
<1>4. CASE DeleteWorkers
  BY <1>4 DEF DeleteWorkers, DeleteRows
<1>5. CASE CompleteTasks
  BY <1>5 DEF CompleteTasks, SetStatus
<1>6. ASSUME NEW t \in Tasks, FailTask(t) PROVE TypeOK'
  BY <1>6, TasksAssumption DEF FailTask, Reset, DeleteRows
<1>7. ASSUME NEW t \in Tasks, ResetForceful(t) PROVE TypeOK'
  BY <1>7 DEF ResetForceful, Reset, DeleteRows
<1>8. CASE FailTasksDone
  BY <1>8 DEF FailTasksDone
<1>9. CASE ResetForcefulDone
  BY <1>9 DEF ResetForcefulDone
<1>10. CASE DeleteWorkerJobs
  BY <1>10 DEF DeleteWorkerJobs, ListedWorkers, NothingEnded, Listed, EndedTasks
<1>11. CASE ReadEndedTasks
  BY <1>11 DEF ReadEndedTasks, EndedTasks, RunBy
<1> QED
  BY <1>1, <1>2, <1>3, <1>4, <1>5, <1>6, <1>7, <1>8, <1>9, <1>10, <1>11
  DEF Finish

LEMMA TypeRecover ==
  TypeOK /\ Recover => TypeOK'
<1> SUFFICES ASSUME TypeOK, Recover PROVE TypeOK'
  OBVIOUS
<1> USE DEF TypeOK, db, k8s, minio, finishedVars, orphanVars, mergeVars,
            spawnVars, locals
<1>1. CASE ListAlive
  BY <1>1 DEF ListAlive, ExistingJobs
<1>2. CASE ListAliveFails
  BY <1>2 DEF ListAliveFails, AliveUnknown
<1>3. ASSUME NEW t \in Tasks, RecoverTask(t) PROVE TypeOK'
  BY <1>3 DEF RecoverTask, Respawn, Reset, DeleteRows
<1>4. CASE RecoverDone
  BY <1>4 DEF RecoverDone
<1>5. CASE ReadOrphans
  BY <1>5 DEF ReadOrphans, Orphans
<1> QED
  BY <1>1, <1>2, <1>3, <1>4, <1>5 DEF Recover

LEMMA TypeMerge ==
  TypeOK /\ Merge => TypeOK'
<1> SUFFICES ASSUME TypeOK, Merge PROVE TypeOK'
  OBVIOUS
<1> USE DEF TypeOK, db, k8s, minio, finishedVars, orphanVars, mergeVars,
            spawnVars, locals
<1>1. CASE ReadMergeJobs
  BY <1>1 DEF ReadMergeJobs
<1>2. ASSUME NEW j \in Jobs, SkipJob(j) PROVE TypeOK'
  BY <1>2 DEF SkipJob
<1>3. ASSUME NEW j \in Jobs, PartitionMaps(j) PROVE TypeOK'
  <2>1. PICK c \in Merged(output, MapsOf(j)) :
          input' = [t \in Tasks |-> IF t \in ReducesOf(j) THEN c ELSE input[t]]
    BY <1>3 DEF PartitionMaps
  <2>2. c \in Content
    BY <2>1 DEF Merged
  <2> QED
    BY <1>3, <2>1, <2>2 DEF PartitionMaps
<1>4. ASSUME NEW j \in Jobs, WriteFinal(j) PROVE TypeOK'
  <2>1. PICK c \in Merged(output, ReducesOf(j)) :
          final' = [final EXCEPT ![j] = c]
    BY <1>4 DEF WriteFinal
  <2>2. c \in Content
    BY <2>1 DEF Merged
  <2> QED
    BY <1>4, <2>1, <2>2 DEF WriteFinal
<1>5. CASE AddReduceTasks
  BY <1>5 DEF AddReduceTasks, Added
<1>6. CASE CleanupJobFiles
  BY <1>6 DEF CleanupJobFiles, Without
<1>7. CASE CompleteJob
  BY <1>7 DEF CompleteJob
<1>8. CASE MergeRaises
  BY <1>8 DEF MergeRaises
<1>9. CASE MergeDone
  BY <1>9 DEF MergeDone
<1> QED
  BY <1>1, <1>2, <1>3, <1>4, <1>5, <1>6, <1>7, <1>8, <1>9 DEF Merge

LEMMA TypeSpawn ==
  TypeOK /\ Spawn => TypeOK'
<1> SUFFICES ASSUME TypeOK, Spawn PROVE TypeOK'
  OBVIOUS
<1> USE DEF TypeOK, db, k8s, minio, finishedVars, orphanVars, mergeVars,
            spawnVars, locals
<1>1. CASE PickNothing
  BY <1>1 DEF PickNothing
<1>2. CASE AddWorkers
  <2>1. PICK p \in Pairings(toSpawn, FreshWorkers) :
          pairing' = Paired(p, toSpawn) /\ workerPod' = Named(p, toSpawn)
    BY <1>2 DEF AddWorkers
  <2>2. p \in [toSpawn -> Workers]
    BY <2>1 DEF Pairings, FreshWorkers
  <2>3. pairing' \in [Tasks -> Workers \cup {None}]
    BY <2>1, <2>2 DEF Paired
  <2>4. workerPod' \in [Workers -> Tasks \cup {None}]
    BY <2>1, <2>2 DEF Named
  <2> QED
    BY <1>2, <2>3, <2>4 DEF AddWorkers
<1>3. CASE AddWorkersRaises
  BY <1>3 DEF AddWorkersRaises
<1>4. CASE AssignWorkers
  <2>1. PICK p \in Pairings(NewTasks, NewWorkers) :
          /\ pairing' = Paired(p, NewTasks)
          /\ taskWorker' = [t \in Tasks |->
               IF t \in NewTasks /\ taskWorker[t] = None THEN p[t]
               ELSE taskWorker[t]]
    BY <1>4 DEF AssignWorkers
  <2>2. NewTasks \subseteq Tasks /\ p \in [NewTasks -> Workers]
    BY <2>1 DEF NewTasks, NewWorkers, Pairings
  <2>3. pairing' \in [Tasks -> Workers \cup {None}]
    BY <2>1, <2>2 DEF Paired
  <2>4. taskWorker' \in [Tasks -> Workers \cup {None}]
    BY <2>1, <2>2
  <2> QED
    BY <1>4, <2>2, <2>3, <2>4 DEF AssignWorkers
<1>5. ASSUME NEW t \in Tasks, CreateWorkerJob(t) PROVE TypeOK'
  BY <1>5 DEF CreateWorkerJob
<1>6. CASE SpawnDone
  BY <1>6 DEF SpawnDone
<1>7. CASE ActivateWorkers
  BY <1>7 DEF ActivateWorkers
<1>8. CASE StartTasks
  BY <1>8 DEF StartTasks, SetStatus
<1>9. CASE RunJobs
  BY <1>9 DEF RunJobs
<1>10. CASE ReadIdle
  BY <1>10 DEF ReadIdle, Batches, IdleTasks
<1> QED
  BY <1>1, <1>2, <1>3, <1>4, <1>5, <1>6, <1>7, <1>8, <1>9, <1>10 DEF Spawn

LEMMA TypeAbort ==
  TypeOK /\ Abort => TypeOK'
  BY BoundsAssumption
  DEF TypeOK, Abort, NothingEnded, Listed, EndedTasks, db, k8s, minio

LEMMA TypeClient ==
  TypeOK /\ Client => TypeOK'
<1> SUFFICES ASSUME TypeOK, Client PROVE TypeOK'
  OBVIOUS
<1> USE DEF TypeOK, k8s, minio, finishedVars, orphanVars, mergeVars,
            spawnVars, locals
<1>1. ASSUME NEW j \in Jobs, SubmitJob(j) PROVE TypeOK'
  BY <1>1 DEF SubmitJob
<1>2. ASSUME NEW j \in Jobs, AddMapTasks(j) PROVE TypeOK'
  BY <1>2 DEF AddMapTasks, Added
<1> QED
  BY <1>1, <1>2 DEF Client

LEMMA TypeCluster ==
  TypeOK /\ Cluster => TypeOK'
<1> SUFFICES ASSUME TypeOK, NEW w \in Workers,
                    \/ PodSucceeds(w) \/ PodFails(w) \/ PodKilled(w)
                    \/ PodEvicted(w) \/ JobVanishes(w) \/ JobDeleted(w)
             PROVE  TypeOK'
  BY DEF Cluster
<1> USE DEF TypeOK, db, k8s, minio, finishedVars, orphanVars, mergeVars,
            spawnVars, locals
<1>1. Uploads(w) /\ ktask[w] \in Tasks => output' \in [Tasks -> Content]
  BY DEF Uploads
<1>2. Uploads(w) => output' \in [Tasks -> Content]
  <2>1. CASE ktask[w] \in Tasks
    BY <1>1, <2>1
  <2>2. CASE ktask[w] \notin Tasks
    <3> SUFFICES ASSUME Uploads(w) PROVE output' \in [Tasks -> Content]
      OBVIOUS
    <3>1. PICK c : output' = [output EXCEPT ![ktask[w]] = c]
      BY DEF Uploads
    <3>2. output' = output
      BY <2>2, <3>1
    <3> QED
      BY <3>2
  <2> QED
    BY <2>1, <2>2
<1>3. MayUpload(w) => output' \in [Tasks -> Content]
  BY <1>2 DEF MayUpload
<1>4. CASE PodSucceeds(w)
  BY <1>2, <1>4 DEF PodSucceeds, Ends
<1>5. CASE PodFails(w)
  BY <1>5 DEF PodFails, Ends
<1>6. CASE PodKilled(w)
  BY <1>3, <1>6 DEF PodKilled, Ends
<1>7. CASE PodEvicted(w)
  BY <1>3, <1>7 DEF PodEvicted, Ends
<1>8. CASE JobVanishes(w) \/ JobDeleted(w)
  BY <1>3, <1>8 DEF JobVanishes, JobDeleted, Gone, Ends
<1> QED
  BY <1>4, <1>5, <1>6, <1>7, <1>8

LEMMA TypeStep == TypeOK /\ [Next]_vars => TypeOK'
<1> SUFFICES ASSUME TypeOK, [Next]_vars PROVE TypeOK'
  OBVIOUS
<1>1. CASE Tick
  BY <1>1, TypeFinish, TypeRecover, TypeMerge, TypeSpawn DEF Tick
<1>2. CASE UNCHANGED vars
  BY <1>2 DEF TypeOK, vars, db, k8s, minio, locals, finishedVars, orphanVars,
              mergeVars, spawnVars
<1> QED
  BY <1>1, <1>2, TypeAbort, TypeClient, TypeCluster DEF Next

\* Type correctness: no step of the loop, the API or the cluster leaves a
\* table, an object or a local of the tick outside its type.
THEOREM TypeCorrect == Spec => []TypeOK
  BY InitType, TypeStep, PTL DEF Spec

----
(***************************************************************************)
(* What a step of the tick does in any typed state, whoever else writes to *)
(* the tables and the store between two of its steps.                      *)
(***************************************************************************)
TasksStay == \A t \in Tasks : taskStatus[t] # "NONE" => taskStatus'[t] # "NONE"

\* A step that plans no task and gives none a worker.
LEMMA PlanFrame ==
  ASSUME TypeOK, PlannedOnly, TasksStay,
         \A t \in Tasks : taskWorker'[t] \in {None, taskWorker[t]},
         successfulTasks' \subseteq successfulTasks,
         toSpawn' \subseteq toSpawn, pairing' \in {pairing, NoTaskRead}
  PROVE  PlannedOnly'
  BY DEF PlannedOnly, TasksStay, Exists, NewTasks, TypeOK

LEMMA PlanFinish ==
  ASSUME TypeOK, PlannedOnly, Finish
  PROVE  PlannedOnly' /\ TasksStay
<1> USE DEF db, finishedVars, orphanVars, mergeVars, spawnVars, locals, TypeOK,
            TasksStay
<1>1. CASE ReadEndedTasks
  <2>1. \A t \in successfulTasks' : t \in Tasks /\ taskWorker[t] # None
    BY <1>1, NoneAssumption DEF ReadEndedTasks, EndedTasks, RunBy
  <2> QED
    BY <1>1, <2>1
    DEF ReadEndedTasks, EndedTasks, PlannedOnly, Exists, NewTasks
<1>2. CASE CompleteTasks
  <2>1. TasksStay
    BY <1>2 DEF CompleteTasks, SetStatus
  <2> QED
    BY <1>2, <2>1, PlanFrame DEF CompleteTasks
<1>3. ASSUME NEW t \in Tasks, FailTask(t) \/ ResetForceful(t)
      PROVE  PlannedOnly' /\ TasksStay
  <2>1. TasksStay
    BY <1>3 DEF FailTask, ResetForceful, Reset
  <2>2. \A s \in Tasks : taskWorker'[s] \in {None, taskWorker[s]}
    BY <1>3 DEF FailTask, ResetForceful, Reset
  <2> QED
    BY <1>3, <2>1, <2>2, PlanFrame DEF FailTask, ResetForceful
<1>4. CASE ClearWorkers
  <2>1. \A t \in Tasks : taskWorker'[t] \in {None, taskWorker[t]}
    BY <1>4 DEF ClearWorkers, Cleared
  <2> QED
    BY <1>4, <2>1, PlanFrame DEF ClearWorkers
<1>5. CASE ListFinished \/ ReadExitCodes \/ ListFinishedFails \/ DeleteWorkers
  BY <1>5, PlanFrame DEF ListFinished, ReadExitCodes, ListFinishedFails,
                         DeleteWorkers
<1>6. CASE FailTasksDone \/ ResetForcefulDone \/ DeleteWorkerJobs
  BY <1>6, PlanFrame
  DEF FailTasksDone, ResetForcefulDone, DeleteWorkerJobs, NothingEnded,
      EndedTasks
<1> QED
  BY <1>1, <1>2, <1>3, <1>4, <1>5, <1>6 DEF Finish

LEMMA PlanRecover ==
  ASSUME TypeOK, PlannedOnly, Recover
  PROVE  PlannedOnly' /\ TasksStay
<1> USE DEF db, finishedVars, orphanVars, mergeVars, spawnVars, locals, TypeOK,
            TasksStay
<1>1. ASSUME NEW t \in Tasks, RecoverTask(t)
      PROVE  PlannedOnly' /\ TasksStay
  <2>1. TasksStay
    BY <1>1 DEF RecoverTask, Respawn, Reset
  <2>2. \A s \in Tasks : taskWorker'[s] \in {None, taskWorker[s]}
    BY <1>1 DEF RecoverTask, Respawn, Reset
  <2> QED
    BY <1>1, <2>1, <2>2, PlanFrame DEF RecoverTask
<1>2. CASE ListAlive \/ ListAliveFails \/ ReadOrphans \/ RecoverDone
  BY <1>2, PlanFrame
  DEF ListAlive, ListAliveFails, ReadOrphans, RecoverDone
<1> QED
  BY <1>1, <1>2 DEF Recover

LEMMA PlanMerge ==
  ASSUME TypeOK, PlannedOnly, Merge
  PROVE  PlannedOnly' /\ TasksStay
<1> USE DEF db, finishedVars, orphanVars, mergeVars, spawnVars, locals, TypeOK
<1>1. TasksStay
  BY DEF Merge, ReadMergeJobs, SkipJob, PartitionMaps, WriteFinal, MergeRaises,
         AddReduceTasks, Added, CleanupJobFiles, CompleteJob, MergeDone,
         TasksStay
<1>2. UNCHANGED <<taskWorker, successfulTasks, toSpawn, pairing>>
  BY DEF Merge, ReadMergeJobs, SkipJob, PartitionMaps, WriteFinal, MergeRaises,
         AddReduceTasks, CleanupJobFiles, CompleteJob, MergeDone
<1> QED
  BY <1>1, <1>2, PlanFrame

LEMMA PlanSpawn ==
  ASSUME TypeOK, PlannedOnly, Spawn
  PROVE  PlannedOnly' /\ TasksStay
<1> USE DEF db, finishedVars, orphanVars, mergeVars, spawnVars, locals, TypeOK
<1>1. CASE ReadIdle
  <2>1. toSpawn' \subseteq IdleTasks
    BY <1>1 DEF ReadIdle, Batches
  <2> QED
    BY <1>1, <2>1
    DEF ReadIdle, IdleTasks, PlannedOnly, Exists, NewTasks, TasksStay
<1>2. CASE AddWorkers
  <2>1. PICK p : pairing' = Paired(p, toSpawn)
    BY <1>2 DEF AddWorkers
  <2>2. NewTasks' \subseteq toSpawn
    BY <2>1 DEF NewTasks, Paired
  <2> QED
    BY <1>2, <2>2 DEF AddWorkers, PlannedOnly, Exists, TasksStay
<1>3. CASE AssignWorkers
  <2>1. PICK p : /\ pairing' = Paired(p, NewTasks)
                 /\ taskWorker' = [t \in Tasks |->
                      IF t \in NewTasks /\ taskWorker[t] = None THEN p[t]
                      ELSE taskWorker[t]]
    BY <1>3 DEF AssignWorkers
  <2>2. NewTasks' \subseteq NewTasks
    BY <2>1 DEF NewTasks, Paired
  <2> QED
    BY <1>3, <2>1, <2>2 DEF AssignWorkers, PlannedOnly, Exists, TasksStay
<1>4. CASE StartTasks
  <2>1. TasksStay
    BY <1>4 DEF StartTasks, SetStatus, TasksStay
  <2> QED
    BY <1>4, <2>1, PlanFrame DEF StartTasks
<1>5. CASE PickNothing \/ AddWorkersRaises \/ SpawnDone \/ ActivateWorkers \/ RunJobs
  BY <1>5, PlanFrame
  DEF PickNothing, AddWorkersRaises, SpawnDone, ActivateWorkers, RunJobs,
      TasksStay
<1>6. ASSUME NEW t \in Tasks, CreateWorkerJob(t)
      PROVE  PlannedOnly' /\ TasksStay
  BY <1>6, PlanFrame DEF CreateWorkerJob, TasksStay
<1> QED
  BY <1>1, <1>2, <1>3, <1>4, <1>5, <1>6 DEF Spawn

LEMMA PlanTick ==
  ASSUME TypeOK, PlannedOnly, Tick
  PROVE  PlannedOnly' /\ TasksStay
  BY PlanFinish, PlanRecover, PlanMerge, PlanSpawn DEF Tick
\* Outside the merge a tick holds no job; inside it, the one it visited.
LEMMA LockTick ==
  ASSUME TypeOK, LockHeld, Tick
  PROVE  /\ LockHeld'
         /\ \/ current' \in {current, None}
            \/ current' \in mergeJobs \ mergeJobs' /\ current = None
<1> USE DEF db, finishedVars, orphanVars, mergeVars, spawnVars, locals, TypeOK,
            LockHeld
<1>1. CASE Finish
  BY <1>1
  DEF Finish, ListFinished, ReadExitCodes, ListFinishedFails, ReadEndedTasks,
      ClearWorkers, DeleteWorkers, CompleteTasks, FailTask, FailTasksDone,
      ResetForceful, ResetForcefulDone, DeleteWorkerJobs
<1>2. CASE Recover
  BY <1>2
  DEF Recover, ListAlive, ListAliveFails, AliveUnknown, ReadOrphans,
      RecoverTask, RecoverDone
<1>3. CASE Merge
  BY <1>3, NoneAssumption
  DEF Merge, ReadMergeJobs, SkipJob, PartitionMaps, WriteFinal, AddReduceTasks,
      CleanupJobFiles, CompleteJob, MergeRaises, PartitionUnread,
      OutputInvalid, CommitFails, MergeDone
<1>4. CASE Spawn
  BY <1>4
  DEF Spawn, PickNothing, ReadIdle, AddWorkers, AddWorkersRaises,
      AssignWorkers, CreateWorkerJob, SpawnDone, ActivateWorkers, StartTasks,
      RunJobs
<1> QED
  BY <1>1, <1>2, <1>3, <1>4 DEF Tick

\* Only the holder of a job adds REDUCE tasks, and only to that job.
LEMMA AddedUnderLock ==
  ASSUME TypeOK, PlannedOnly, Tick, NEW t \in Tasks,
         taskStatus[t] = "NONE", taskStatus'[t] # "NONE"
  PROVE  pc = "partitioned" /\ t \in ReducesOf(current)
<1> USE DEF db, finishedVars, orphanVars, mergeVars, spawnVars, locals, TypeOK,
            PlannedOnly, Exists
<1>1. ~Finish
  <2>1. ASSUME CompleteTasks PROVE FALSE
    BY <2>1 DEF CompleteTasks, SetStatus
  <2>2. ASSUME NEW s \in Tasks, FailTask(s) \/ ResetForceful(s) PROVE FALSE
    <3>1. \/ Resettable(s) /\ \E x : taskStatus' = [taskStatus EXCEPT ![s] = x]
          \/ UNCHANGED taskStatus
      BY <2>2 DEF FailTask, ResetForceful, Reset
    <3> QED
      BY <3>1 DEF Resettable
  <2> QED
    BY <2>1, <2>2
    DEF Finish, ListFinished, ReadExitCodes, ListFinishedFails, ReadEndedTasks,
        ClearWorkers, DeleteWorkers, FailTasksDone, ResetForcefulDone,
        DeleteWorkerJobs
<1>2. ~Recover
  <2>1. ASSUME NEW s \in Tasks, RecoverTask(s) PROVE FALSE
    <3>1. \/ Orphaned(s) /\ taskStatus' = [taskStatus EXCEPT ![s] = "IDLE"]
          \/ UNCHANGED taskStatus
      BY <2>1 DEF RecoverTask, Respawn, Reset
    <3> QED
      BY <3>1 DEF Orphaned
  <2> QED
    BY <2>1 DEF Recover, ListAlive, ListAliveFails, ReadOrphans, RecoverDone
<1>3. ~Spawn
  <2>1. ASSUME StartTasks PROVE FALSE
    <3>1. t \in NewTasks
      BY <2>1 DEF StartTasks, SetStatus
    <3> QED
      BY <3>1 DEF NewTasks
  <2> QED
    BY <2>1 DEF Spawn, PickNothing, ReadIdle, AddWorkers, AddWorkersRaises,
                AssignWorkers, CreateWorkerJob, SpawnDone, ActivateWorkers,
                RunJobs
<1>4. AddReduceTasks
  BY <1>1, <1>2, <1>3
  DEF Tick, Merge, ReadMergeJobs, SkipJob, PartitionMaps, WriteFinal,
      CleanupJobFiles, CompleteJob, MergeRaises, MergeDone
<1> QED
  BY <1>4 DEF AddReduceTasks, Added

\* Parts are written only for a job without REDUCE tasks.
LEMMA ShuffledUnreduced ==
  ASSUME TypeOK, Tick, pc' = "partitioned"
  PROVE  \A t \in ReducesOf(current') : taskStatus'[t] = "NONE"
<1>1. PICK j \in Jobs : PartitionMaps(j)
  BY DEF Tick, Finish, ListFinished, ReadExitCodes, ListFinishedFails,
         ReadEndedTasks, ClearWorkers, DeleteWorkers, CompleteTasks, FailTask,
         FailTasksDone, ResetForceful, ResetForcefulDone, DeleteWorkerJobs,
         Recover, ListAlive, ListAliveFails, AliveUnknown, ReadOrphans,
         RecoverTask, RecoverDone, Merge, ReadMergeJobs, SkipJob, PartitionMaps,
         WriteFinal, AddReduceTasks, CleanupJobFiles, CompleteJob, MergeRaises,
         MergeDone, Spawn, PickNothing, ReadIdle, AddWorkers, AddWorkersRaises,
         AssignWorkers, CreateWorkerJob, SpawnDone, ActivateWorkers, StartTasks,
         RunJobs, locals, mergeVars
<1> QED
  BY <1>1 DEF PartitionMaps, Shufflable, Reducing, db
\* The phases of a merge that writes an output are reached one way each.
LEMMA MergePhases ==
  ASSUME TypeOK, Tick
  PROVE  /\ pc' = "written" => current' \in Jobs /\ WriteFinal(current')
         /\ pc' = "cleaned" => CleanupJobFiles
<1> USE DEF locals, mergeVars, TypeOK
<1>1. ~Merge => pc' \notin {"written", "cleaned"}
  BY DEF Tick, Finish, ListFinished, ReadExitCodes, ListFinishedFails,
         ReadEndedTasks, ClearWorkers, DeleteWorkers, CompleteTasks, FailTask,
         FailTasksDone, ResetForceful, ResetForcefulDone, DeleteWorkerJobs,
         Recover, ListAlive, ListAliveFails, AliveUnknown, ReadOrphans,
         RecoverTask, RecoverDone, Spawn, PickNothing, ReadIdle, AddWorkers,
         AddWorkersRaises, AssignWorkers, CreateWorkerJob, SpawnDone,
         ActivateWorkers, StartTasks, RunJobs
<1>2. Merge => /\ pc' = "written" => current' \in Jobs /\ WriteFinal(current')
               /\ pc' = "cleaned" => CleanupJobFiles
  BY DEF Merge, ReadMergeJobs, SkipJob, PartitionMaps, WriteFinal,
         AddReduceTasks, CleanupJobFiles, CompleteJob, MergeRaises, MergeDone
<1> QED
  BY <1>1, <1>2

\* Only the end of a merge makes a job COMPLETED.
LEMMA CompletedByMerge ==
  ASSUME TypeOK, Tick, NEW j \in Jobs,
         jobStatus[j] # "COMPLETED", jobStatus'[j] = "COMPLETED"
  PROVE  pc = "cleaned" /\ j = current
<1> USE DEF db, TypeOK
<1>1. ASSUME NEW t \in Tasks, FailTask(t) PROVE FALSE
  BY <1>1 DEF FailTask
<1>2. ASSUME RunJobs PROVE FALSE
  BY <1>2 DEF RunJobs
<1>3. CompleteJob
  BY <1>1, <1>2
  DEF Tick, Finish, ListFinished, ReadExitCodes, ListFinishedFails, ReadEndedTasks,
      ClearWorkers, DeleteWorkers, CompleteTasks, FailTasksDone, ResetForceful,
      ResetForcefulDone, DeleteWorkerJobs,
      Recover, ListAlive, ListAliveFails, ReadOrphans, RecoverTask, RecoverDone,
      Merge, ReadMergeJobs, SkipJob, PartitionMaps, WriteFinal, AddReduceTasks,
      CleanupJobFiles, MergeRaises, MergeDone,
      Spawn, PickNothing, ReadIdle, AddWorkers, AddWorkersRaises,
      AssignWorkers, CreateWorkerJob, SpawnDone, ActivateWorkers, StartTasks
<1> QED
  BY <1>3 DEF CompleteJob

\* No tick brings back the parts of a job that has REDUCE tasks.
LEMMA PartsStay ==
  ASSUME TypeOK, PlannedOnly, Tick, NEW j \in Jobs, PartsGone(j)
  PROVE  PartsGone(j)'
<1> USE DEF minio, TypeOK, PartsGone
<1>1. Reducing(j)'
  BY PlanTick DEF Reducing, ReducesOf, TasksStay, Tasks
<1>2. ASSUME NEW i \in Jobs, PartitionMaps(i)
      PROVE  \A t \in ReducesOf(j) : input'[t] = "absent"
  <2>1. i # j
    BY <1>2 DEF PartitionMaps, Shufflable
  <2> QED
    BY <1>2, <2>1 DEF PartitionMaps, ReducesOf, Tasks
<1>3. CASE CleanupJobFiles
  BY <1>1, <1>3 DEF CleanupJobFiles, Without, ReducesOf, Tasks
<1>4. CASE UNCHANGED input
  BY <1>1, <1>4
<1> QED
  BY <1>1, <1>2, <1>3, <1>4
  DEF Tick, Finish, ListFinished, ReadExitCodes, ListFinishedFails, ReadEndedTasks,
      ClearWorkers, DeleteWorkers, CompleteTasks, FailTask, FailTasksDone,
      ResetForceful, ResetForcefulDone, DeleteWorkerJobs,
      Recover, ListAlive, ListAliveFails, ReadOrphans, RecoverTask, RecoverDone,
      Merge, ReadMergeJobs, SkipJob, WriteFinal, AddReduceTasks, CompleteJob,
      MergeRaises, MergeDone,
      Spawn, PickNothing, ReadIdle, AddWorkers, AddWorkersRaises,
      AssignWorkers, CreateWorkerJob, SpawnDone, ActivateWorkers, StartTasks,
      RunJobs

\* A tick writes the output only of jobs that no tick completed, and removes
\* the parts of a job before it completes it.
LEMMA MergedTick ==
  ASSUME "api" \notin Faults, TypeOK, PlannedOnly, LockHeld, MergedParts, Tick,
         pc \in {"written", "cleaned"} => jobStatus[current] # "COMPLETED"
  PROVE  /\ MergedParts'
         /\ pc' \in {"written", "cleaned"} => jobStatus'[current'] # "COMPLETED"
<1> USE DEF TypeOK
<1>1. ASSUME NEW j \in Jobs, jobStatus'[j] = "COMPLETED"
      PROVE  PartsGone(j)'
  BY <1>1, CompletedByMerge, PartsStay DEF MergedParts
<1>2. CASE pc' = "written"
  <2>1. WriteFinal(current') /\ current' \in Jobs
    BY <1>2, MergePhases
  <2>2. /\ UNCHANGED db /\ Reducing(current')
        /\ \A t \in ReducesOf(current') : input[t] # "absent"
    BY <2>1 DEF WriteFinal, Finalizable, ReducersValid, ObjectsThere
  <2>3. \E t \in ReducesOf(current') : t \in Tasks
    BY <2>1, TasksAssumption DEF ReducesOf, Tasks
  <2>4. jobStatus[current'] # "COMPLETED"
    BY <2>1, <2>2, <2>3 DEF MergedParts, PartsGone
  <2>5. MergedParts'
    BY <1>1, <1>2, <2>2 DEF MergedParts, Reducing, db
  <2> QED
    BY <1>2, <2>2, <2>4, <2>5 DEF db
<1>3. CASE pc' = "cleaned"
  <2>1. CleanupJobFiles
    BY <1>3, MergePhases
  <2>2. /\ pc = "written" /\ UNCHANGED <<db, current>>
        /\ input' = Without(input, TasksOf(current))
    BY <2>1 DEF CleanupJobFiles, locals, mergeVars
  <2>3. current \in Jobs
    BY <2>2 DEF LockHeld
  <2>4. PartsGone(current)'
    BY <2>2, <2>3
    DEF MergedParts, PartsGone, Reducing, Without, TasksOf, ReducesOf, Tasks, db
  <2> QED
    BY <1>1, <1>3, <2>2, <2>4 DEF MergedParts, db
<1>4. CASE pc' \notin {"written", "cleaned"}
  BY <1>1, <1>4 DEF MergedParts
<1> QED
  BY <1>2, <1>3, <1>4
\* The client and the cluster leave the locals of the tick and every REDUCE task
\* alone, and complete no job.
Outside ==
  /\ UNCHANGED <<pc, locals>>
  /\ \A t \in ReduceTasks : taskStatus'[t] = taskStatus[t] /\ input'[t] = input[t]
  /\ \A j \in Jobs : jobStatus'[j] = "COMPLETED" <=> jobStatus[j] = "COMPLETED"

LEMMA OutsideStep ==
  ASSUME TypeOK, PlannedOnly, LockHeld, Client \/ Cluster
  PROVE  PlannedOnly' /\ LockHeld' /\ TasksStay /\ Outside
<1> USE DEF TypeOK, TasksStay, Outside
<1>1. ASSUME NEW j \in Jobs, SubmitJob(j)
      PROVE  TasksStay /\ Outside /\ UNCHANGED taskWorker
  BY <1>1 DEF SubmitJob, minio
<1>2. ASSUME NEW j \in Jobs, AddMapTasks(j)
      PROVE  TasksStay /\ Outside /\ UNCHANGED taskWorker
  BY <1>2, TasksAssumption DEF AddMapTasks, Added, MapsOf, Tasks
<1>3. ASSUME Cluster PROVE TasksStay /\ Outside /\ UNCHANGED taskWorker
  BY <1>3 DEF Cluster, PodSucceeds, PodFails, PodKilled, PodEvicted,
              JobVanishes, JobDeleted, Gone, db, minio
<1>4. TasksStay /\ Outside /\ UNCHANGED taskWorker
  BY <1>1, <1>2, <1>3 DEF Client
<1>5. PlannedOnly'
  BY <1>4, PlanFrame DEF locals, finishedVars, spawnVars
<1> QED
  BY <1>4, <1>5 DEF LockHeld, locals, mergeVars

\* A tick that dies gives its job back.
LEMMA DeadTick ==
  ASSUME TypeOK, PlannedOnly, Abort
  PROVE  /\ PlannedOnly' /\ LockHeld' /\ TasksStay
         /\ UNCHANGED <<db, minio>> /\ current' = None /\ pc' = "sleep"
<1>1. TasksStay /\ UNCHANGED <<db, minio>> /\ current' = None /\ pc' = "sleep"
  BY DEF Abort, TasksStay, db
<1>2. PlannedOnly'
  <2>1. /\ successfulTasks' = {} /\ toSpawn' = {} /\ pairing' = NoTaskRead
        /\ UNCHANGED taskWorker
    BY DEF Abort, NothingEnded, EndedTasks, db
  <2> QED
    BY <1>1, <2>1, PlanFrame
<1> QED
  BY <1>1, <1>2 DEF LockHeld
=============================================================================
