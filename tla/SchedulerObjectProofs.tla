------------------------- MODULE SchedulerObjectProofs -------------------------
(***************************************************************************)
(* ObjectInv is an invariant of Scheduler: an object is there as long as   *)
(* something is still to be made of it.  When scripts and reads succeed no *)
(* object is partial, and a COMPLETED job has its whole output.  With this *)
(* Scheduler implements JobLifecycle.                                      *)
(***************************************************************************)
EXTENDS SchedulerJobProofs

LEMMA InitObject == Init => ObjectInv
  BY DEF Init, ObjectInv, InputsKept, OutputsKept, FinalsKept

\* The pods write outputs of tasks, and only where there is an input.
LEMMA ClusterStore ==
  ASSUME TypeOK, JobInv, Cluster
  PROVE  /\ UNCHANGED <<input, final>>
         /\ \A t \in Tasks : output[t] # "absent" => output'[t] # "absent"
         /\ \A w \in Workers : kjob'[w] = "succeeded" =>
              /\ ktask'[w] = ktask[w] /\ ktask[w] \in Tasks
              /\ kjob[w] # "succeeded" => output'[ktask[w]] # "absent"
<1>1. PICK w \in Workers : \/ PodSucceeds(w) \/ PodFails(w) \/ PodKilled(w)
                           \/ PodEvicted(w) \/ JobVanishes(w) \/ JobDeleted(w)
  BY DEF Cluster
<1>2. UNCHANGED <<input, final>>
  BY <1>1
  DEF PodSucceeds, PodFails, PodKilled, PodEvicted, JobVanishes, JobDeleted, Gone,
      minio
<1>3. Live(w) => ktask[w] \in Tasks
  BY DEF Live, JobInv, JobNamesTask
<1>4. ASSUME Live(w), input[ktask[w]] # "absent", Uploads(w)
      PROVE  /\ \A t \in Tasks : output[t] # "absent" => output'[t] # "absent"
             /\ output'[ktask[w]] # "absent"
  BY <1>3, <1>4 DEF Uploads, TypeOK
<1>5. \A t \in Tasks : output[t] # "absent" => output'[t] # "absent"
  BY <1>1, <1>4
  DEF PodSucceeds, PodFails, PodKilled, PodEvicted, JobVanishes, JobDeleted, Gone,
      MayUpload, Live, minio
<1>6. \A v \in Workers : kjob'[v] = "succeeded" =>
        /\ ktask'[v] = ktask[v]
        /\ kjob[v] # "succeeded" => v = w /\ PodSucceeds(w)
  BY <1>1
  DEF PodSucceeds, PodFails, PodKilled, PodEvicted, JobVanishes, JobDeleted, Gone,
      Ends, TypeOK
<1>7. \A v \in Workers : kjob'[v] = "succeeded" /\ kjob[v] # "succeeded" =>
        ktask[v] \in Tasks /\ output'[ktask[v]] # "absent"
  BY <1>3, <1>4, <1>6 DEF PodSucceeds
<1>8. \A v \in Workers : kjob[v] = "succeeded" => ktask[v] \in Tasks
  BY DEF JobInv, JobNamesTask
<1> QED
  BY <1>2, <1>5, <1>6, <1>7, <1>8

\* Nothing else touches the store.
LEMMA StoreFrame ==
  ASSUME [Next]_vars
  PROVE  \/ UNCHANGED minio
         \/ Cluster
         \/ \E j \in Jobs : AddMapTasks(j) \/ PartitionMaps(j) \/ WriteFinal(j)
         \/ CleanupJobFiles
<1>1. CASE Finish \/ Recover \/ Abort
  BY <1>1
  DEF Finish, ListFinished, ReadExitCodes, ListFinishedFails, ReadEndedTasks,
      ClearWorkers, DeleteWorkers, CompleteTasks, FailTask, ResetForceful,
      FailTasksDone, ResetForcefulDone, DeleteWorkerJobs, Recover, ListAlive,
      ListAliveFails, ReadOrphans, RecoverTask, RecoverDone, Abort
<1>2. CASE Spawn
  BY <1>2
  DEF Spawn, PickNothing, ReadIdle, AddWorkers, AddWorkersRaises,
      AssignWorkers, CreateWorkerJob, SpawnDone, ActivateWorkers, StartTasks,
      RunJobs
<1>3. CASE Merge \/ Client \/ UNCHANGED vars
  BY <1>3
  DEF Merge, ReadMergeJobs, SkipJob, AddReduceTasks, CompleteJob, MergeRaises,
      MergeDone, Client, SubmitJob, vars
<1> QED
  BY <1>1, <1>2, <1>3 DEF Next, Tick

\* A merge of objects yields something.
LEMMA MergedThere ==
  ASSUME NEW objects, NEW ts, NEW c \in Merged(objects, ts)
  PROVE  c \in {"partial", "whole"}
  BY DEF Merged

\* The output of a job stays, and so does what was made of a task: its own
\* output or that of its job.
LEMMA StoreStep ==
  ASSUME TypeOK, StatusInv, JobInv, ObjectInv, [Next]_vars
  PROVE  /\ \A j \in Jobs : final[j] # "absent" => final'[j] # "absent"
         /\ \A t \in Tasks : Produced(t) => Produced(t)'
<1> USE TasksAssumption DEF Produced
<1>1. CASE UNCHANGED minio
  BY <1>1 DEF minio
<1>2. CASE Cluster
  BY <1>2, ClusterStore
<1>3. ASSUME NEW j \in Jobs, AddMapTasks(j) \/ PartitionMaps(j)
      PROVE  UNCHANGED <<output, final>>
  BY <1>3 DEF AddMapTasks, PartitionMaps
<1>4. ASSUME NEW j \in Jobs, WriteFinal(j)
      PROVE  /\ \A k \in Jobs : final[k] # "absent" => final'[k] # "absent"
             /\ UNCHANGED output
  BY <1>4, MergedThere DEF WriteFinal, TypeOK
<1>5. CASE CleanupJobFiles
  <2>1. final[current] # "absent" /\ final' = final
    BY <1>5 DEF CleanupJobFiles, ObjectInv, FinalsKept
  <2>2. \A t \in Tasks : JobOf[t] # current => output'[t] = output[t]
    BY <1>5
    DEF CleanupJobFiles, Without, TasksOf, MapsOf, ReducesOf, Tasks
  <2> QED
    BY <2>1, <2>2
<1> QED
  BY <1>1, <1>2, <1>3, <1>4, <1>5, StoreFrame

\* The input of a task that is not to be done any more is all that goes.
LEMMA InputsStep ==
  ASSUME TypeOK, StatusInv, JobInv, ObjectInv, [Next]_vars
  PROVE  InputsKept'
<1> USE DEF db, locals, mergeVars, ObjectInv, InputsKept
<1>1. ASSUME NEW j \in Jobs, AddMapTasks(j) PROVE InputsKept'
  <2>1. \A t \in Tasks : input[t] # "absent" => input'[t] # "absent"
    BY <1>1 DEF AddMapTasks
  <2>2. \A t \in Tasks : \/ taskStatus'[t] = taskStatus[t]
                         \/ input'[t] # "absent"
    BY <1>1 DEF AddMapTasks, Added
  <2>3. pc' = pc /\ current' = current
    BY <1>1 DEF AddMapTasks
  <2> QED
    BY <2>1, <2>2, <2>3 DEF ReducesOf, Tasks
<1>2. ASSUME NEW j \in Jobs, PartitionMaps(j) PROVE InputsKept'
  <2>1. PICK c \in Merged(output, MapsOf(j)) :
          input' = [t \in Tasks |-> IF t \in ReducesOf(j) THEN c ELSE input[t]]
    BY <1>2 DEF PartitionMaps
  <2>2. c # "absent"
    BY MergedThere
  <2> QED
    BY <1>2, <2>1, <2>2 DEF PartitionMaps, ReducesOf, Tasks
<1>3. CASE CleanupJobFiles
  <2>1. \A t \in TasksOf(current) : taskStatus[t] = "COMPLETED"
    BY <1>3
    DEF CleanupJobFiles, StatusInv, LockedJob, TasksOf, MapsDone, ReducesDone,
        AllCompleted
  <2>2. \A t \in Tasks \ TasksOf(current) : input'[t] = input[t]
    BY <1>3 DEF CleanupJobFiles, Without
  <2> QED
    BY <1>3, <2>1, <2>2 DEF CleanupJobFiles
<1>4. CASE AddReduceTasks
  <2>1. \A t \in Tasks : taskStatus'[t] = taskStatus[t] \/ t \in ReducesOf(current)
    BY <1>4 DEF AddReduceTasks, Added
  <2> QED
    BY <1>4, <2>1 DEF AddReduceTasks, minio
<1>5. ASSUME UNCHANGED input,
             pc' = "partitioned" => pc = "partitioned" /\ current' = current,
             \A t \in Tasks : \/ taskStatus'[t] = taskStatus[t]
                              \/ taskStatus'[t] = "COMPLETED"
                              \/ taskStatus[t] \notin {"NONE", "COMPLETED"}
      PROVE  InputsKept'
  BY <1>5
<1>6. CASE Finish
  <2>1. \A t \in Tasks : \/ taskStatus'[t] = taskStatus[t]
                         \/ taskStatus'[t] = "COMPLETED"
                         \/ taskStatus[t] = "IN_PROGRESS"
    <3>1. CASE CompleteTasks
      BY <3>1 DEF CompleteTasks, SetStatus
    <3>2. ASSUME NEW s \in Tasks, FailTask(s) \/ ResetForceful(s)
          PROVE  \A t \in Tasks : \/ taskStatus'[t] = taskStatus[t]
                                 \/ taskStatus[t] = "IN_PROGRESS"
      BY <3>2 DEF FailTask, ResetForceful, Resettable, Reset, TypeOK
    <3>3. CASE UNCHANGED taskStatus
      BY <3>3
    <3> QED
      BY <1>6, <3>1, <3>2, <3>3
      DEF Finish, ListFinished, ReadExitCodes, ListFinishedFails, ReadEndedTasks,
          ClearWorkers, DeleteWorkers, FailTasksDone, ResetForcefulDone,
          DeleteWorkerJobs
  <2> QED
    BY <1>5, <1>6, <2>1
    DEF Finish, ListFinished, ReadExitCodes, ListFinishedFails, ReadEndedTasks,
        ClearWorkers, DeleteWorkers, CompleteTasks, FailTask, ResetForceful,
        FailTasksDone, ResetForcefulDone, DeleteWorkerJobs, minio
<1>7. CASE Recover
  <2>1. \A t \in Tasks : \/ taskStatus'[t] = taskStatus[t]
                         \/ taskStatus[t] \in {"IN_PROGRESS", "FAILED"}
    BY <1>7
    DEF Recover, ListAlive, ListAliveFails, ReadOrphans, RecoverTask, Orphaned,
        Respawn, Reset, RecoverDone, TypeOK
  <2> QED
    BY <1>5, <1>7, <2>1
    DEF Recover, ListAlive, ListAliveFails, AliveUnknown, ReadOrphans,
        RecoverTask, RecoverDone, minio
<1>8. CASE Spawn
  <2>1. \A t \in Tasks : \/ taskStatus'[t] = taskStatus[t]
                         \/ taskStatus[t] = "IDLE"
    BY <1>8
    DEF Spawn, PickNothing, ReadIdle, AddWorkers, AddWorkersRaises,
        AssignWorkers, CreateWorkerJob, SpawnDone, ActivateWorkers, StartTasks,
        SetStatus, RunJobs, StatusInv, PickedTasks
  <2> QED
    BY <1>5, <1>8, <2>1
    DEF Spawn, PickNothing, ReadIdle, AddWorkers, AddWorkersRaises,
        AssignWorkers, CreateWorkerJob, SpawnDone, ActivateWorkers, StartTasks,
        RunJobs, minio
<1>9. ASSUME NEW j \in Jobs, SkipJob(j) \/ WriteFinal(j) \/ SubmitJob(j)
      PROVE  InputsKept'
  BY <1>5, <1>9 DEF SkipJob, WriteFinal, SubmitJob, Visit, minio
<1>10. CASE \/ ReadMergeJobs \/ CompleteJob \/ MergeRaises \/ MergeDone
            \/ Abort \/ Cluster \/ UNCHANGED vars
  <2>1. UNCHANGED <<taskStatus, input>>
    BY <1>10, ClusterStore
    DEF ReadMergeJobs, CompleteJob, MergeRaises, MergeDone, Abort, vars, minio,
        Cluster, PodSucceeds, PodFails, PodKilled, PodEvicted, JobVanishes,
        JobDeleted, Gone
  <2>2. pc' = "partitioned" => pc = "partitioned" /\ current' = current
    BY <1>10
    DEF ReadMergeJobs, CompleteJob, MergeRaises, MergeDone, Abort, vars, Cluster,
        PodSucceeds, PodFails, PodKilled, PodEvicted, JobVanishes, JobDeleted,
        Gone
  <2> QED
    BY <1>5, <2>1, <2>2
<1> QED
  BY <1>1, <1>2, <1>3, <1>4, <1>6, <1>7, <1>8, <1>9, <1>10
  DEF Next, Tick, Merge, Client

\* The tick completes tasks of Jobs that succeeded, and these left an output.
LEMMA OutputsStep ==
  ASSUME TypeOK, StatusInv, JobInv, ObjectInv, [Next]_vars
  PROVE  OutputsKept'
<1> USE DEF db, k8s, finishedVars, locals, mergeVars, ObjectInv, OutputsKept
<1>1. \A t \in Tasks : Produced(t) => Produced(t)'
  BY StoreStep
<1>2. \A w \in Workers : kjob'[w] = "succeeded" =>
        ktask'[w] \in Tasks /\ Produced(ktask[w])' /\ ktask'[w] = ktask[w]
  <2>1. CASE Cluster
    BY <1>1, <2>1, ClusterStore DEF Produced
  <2>2. CASE ~Cluster
    <3>1. \A w \in Workers : kjob'[w] = "succeeded" =>
            kjob[w] = "succeeded" /\ ktask'[w] = ktask[w]
      <4>1. CASE Finish \/ Recover \/ Abort
        BY <4>1
        DEF Finish, ListFinished, ReadExitCodes, ListFinishedFails, ReadEndedTasks,
            ClearWorkers, DeleteWorkers, CompleteTasks, FailTask,
            ResetForceful, FailTasksDone, ResetForcefulDone, DeleteWorkerJobs,
            Recover, ListAlive, ListAliveFails, ReadOrphans,
            RecoverTask, RecoverDone, Abort, TypeOK
      <4>2. CASE Spawn
        BY <4>2
        DEF Spawn, PickNothing, ReadIdle, AddWorkers, AddWorkersRaises,
            AssignWorkers, CreateWorkerJob, SpawnDone, ActivateWorkers,
            StartTasks, RunJobs, TypeOK
      <4>3. CASE Merge \/ Client \/ UNCHANGED vars
        BY <4>3
        DEF Merge, ReadMergeJobs, SkipJob, PartitionMaps, AddReduceTasks,
            WriteFinal, CleanupJobFiles, CompleteJob, MergeRaises, MergeDone,
            Client, SubmitJob, AddMapTasks, vars
      <4> QED
        BY <2>2, <4>1, <4>2, <4>3 DEF Next, Tick
    <3>2. \A w \in Workers : kjob[w] = "succeeded" => ktask[w] \in Tasks
      BY DEF JobInv, JobNamesTask
    <3> QED
      BY <1>1, <3>1, <3>2
  <2> QED
    BY <2>1, <2>2
<1>3. ASSUME \A t \in Tasks : taskStatus'[t] = "COMPLETED" =>
               taskStatus[t] = "COMPLETED" \/ Produced(t),
             \A t \in successfulTasks' : t \in successfulTasks,
             pc' \notin {"pods", "ended"},
             pc' \in {"clear", "delete", "complete"} =>
               pc \in {"clear", "delete", "complete"}
      PROVE  OutputsKept'
  BY <1>1, <1>2, <1>3 DEF TypeOK, Produced
<1>4. CASE ListFinished
  <2>1. \A t \in Tasks : taskWorker[t] \in SucceededJobs => Produced(t)
    BY DEF SucceededJobs, JobInv, JobNamesTask
  <2>2. \A t \in RunBy(successfulWorkers)' : t \in Tasks /\ Produced(t)
    BY <1>4, <2>1 DEF ListFinished, Listed, RunBy
  <2>3. pc' = "pods" /\ UNCHANGED taskStatus
    BY <1>4 DEF ListFinished
  <2> QED
    BY <1>1, <1>2, <2>2, <2>3 DEF Produced
<1>5. CASE ReadExitCodes \/ ListFinishedFails
  <2>1. /\ successfulWorkers' \in {successfulWorkers, {}}
        /\ successfulWorkers' # {} => pc = "pods"
        /\ pc' = "ended" /\ UNCHANGED <<taskStatus, taskWorker>>
    BY <1>5 DEF ReadExitCodes, ListFinishedFails, Listed
  <2>2. \A t \in RunBy(successfulWorkers)' : t \in Tasks /\ Produced(t)
    BY <2>1 DEF RunBy
  <2> QED
    BY <1>1, <1>2, <2>1, <2>2 DEF Produced
<1>6. CASE ReadEndedTasks
  <2>1. \A t \in successfulTasks' : t \in Tasks /\ Produced(t)
    BY <1>6 DEF ReadEndedTasks, EndedTasks, RunBy
  <2> QED
    BY <1>1, <1>2, <1>6, <2>1 DEF ReadEndedTasks, Produced
<1>7. CASE CompleteTasks
  BY <1>3, <1>7 DEF CompleteTasks, SetStatus
<1>8. ASSUME NEW t \in Tasks, FailTask(t) \/ ResetForceful(t)
      PROVE  OutputsKept'
  <2>1. \A u \in Tasks : taskStatus'[u] = "COMPLETED" => taskStatus[u] = "COMPLETED"
    BY <1>8 DEF FailTask, ResetForceful, Reset, TypeOK
  <2> QED
    BY <1>3, <1>8, <2>1 DEF FailTask, ResetForceful
<1>9. CASE \/ ClearWorkers \/ DeleteWorkers \/ FailTasksDone
           \/ ResetForcefulDone \/ DeleteWorkerJobs
  BY <1>3, <1>9
  DEF ClearWorkers, DeleteWorkers, FailTasksDone, ResetForcefulDone,
      DeleteWorkerJobs, NothingEnded, EndedTasks
<1>10. CASE Recover
  <2>1. \A u \in Tasks : taskStatus'[u] = "COMPLETED" => taskStatus[u] = "COMPLETED"
    BY <1>10
    DEF Recover, ListAlive, ListAliveFails, ReadOrphans, RecoverTask, Respawn,
        Reset, RecoverDone, TypeOK
  <2> QED
    BY <1>3, <1>10, <2>1
    DEF Recover, ListAlive, ListAliveFails, AliveUnknown, ReadOrphans,
        RecoverTask, RecoverDone
<1>11. CASE Merge
  <2>1. \A u \in Tasks : taskStatus'[u] = "COMPLETED" => taskStatus[u] = "COMPLETED"
    BY <1>11
    DEF Merge, ReadMergeJobs, SkipJob, PartitionMaps, AddReduceTasks, Added,
        WriteFinal, CleanupJobFiles, CompleteJob, MergeRaises, MergeDone
  <2>2. pc' \in {"merge", "partitioned", "written", "cleaned", "pick"}
    BY <1>11
    DEF Merge, Visit, ReadMergeJobs, SkipJob, PartitionMaps, AddReduceTasks,
        WriteFinal, CleanupJobFiles, CompleteJob, MergeRaises, MergeDone
  <2>3. successfulTasks' = successfulTasks
    BY <1>11
    DEF Merge, ReadMergeJobs, SkipJob, PartitionMaps, AddReduceTasks,
        WriteFinal, CleanupJobFiles, CompleteJob, MergeRaises, MergeDone
  <2> QED
    BY <1>3, <2>1, <2>2, <2>3
<1>12. CASE Spawn
  <2>1. \A u \in Tasks : taskStatus'[u] = "COMPLETED" => taskStatus[u] = "COMPLETED"
    BY <1>12
    DEF Spawn, PickNothing, ReadIdle, AddWorkers, AddWorkersRaises,
        AssignWorkers, CreateWorkerJob, SpawnDone, ActivateWorkers, StartTasks,
        SetStatus, RunJobs
  <2> QED
    BY <1>3, <1>12, <2>1
    DEF Spawn, PickNothing, ReadIdle, AddWorkers, AddWorkersRaises,
        AssignWorkers, CreateWorkerJob, SpawnDone, ActivateWorkers, StartTasks,
        RunJobs
<1>13. CASE Abort
  BY <1>3, <1>13 DEF Abort, NothingEnded, EndedTasks
<1>14. CASE Client \/ Cluster \/ UNCHANGED vars
  <2>1. UNCHANGED <<taskWorker, pc, successfulWorkers, successfulTasks>>
    BY <1>14
    DEF Client, SubmitJob, AddMapTasks, Cluster, PodSucceeds, PodFails,
        PodKilled, PodEvicted, JobVanishes, JobDeleted, Gone, vars
  <2>2. \A u \in Tasks : taskStatus'[u] = "COMPLETED" => taskStatus[u] = "COMPLETED"
    BY <1>14
    DEF Client, SubmitJob, AddMapTasks, Added, Cluster, PodSucceeds, PodFails,
        PodKilled, PodEvicted, JobVanishes, JobDeleted, Gone, vars
  <2>3. RunBy(successfulWorkers)' = RunBy(successfulWorkers)
    BY <2>1 DEF RunBy
  <2>4. RunBy(successfulWorkers) \subseteq Tasks /\ successfulTasks \subseteq Tasks
    BY DEF RunBy, TypeOK
  <2> QED
    BY <1>1, <1>2, <2>1, <2>2, <2>3, <2>4 DEF Produced
<1> QED
  BY <1>4, <1>5, <1>6, <1>7, <1>8, <1>9, <1>10, <1>11, <1>12, <1>13, <1>14
  DEF Next, Tick, Finish

LEMMA FinalsStep ==
  ASSUME TypeOK, StatusInv, JobInv, ObjectInv, [Next]_vars
  PROVE  FinalsKept'
<1> USE DEF db, locals, mergeVars, minio, ObjectInv, FinalsKept
<1>1. \A j \in Jobs : final[j] # "absent" => final'[j] # "absent"
  BY StoreStep
<1>2. pc \in {"written", "cleaned"} => current \in Jobs
  BY DEF StatusInv, LockedJob
<1>3. ASSUME \A j \in Jobs : jobStatus'[j] = "COMPLETED" =>
               jobStatus[j] = "COMPLETED" \/ final[j] # "absent",
             pc' \in {"written", "cleaned"} =>
               pc \in {"written", "cleaned"} /\ current' = current
      PROVE  FinalsKept'
  BY <1>1, <1>2, <1>3
<1>4. ASSUME NEW j \in Jobs, WriteFinal(j) PROVE FinalsKept'
  BY <1>4, <1>1, MergedThere DEF WriteFinal, TypeOK
<1>5. CASE CleanupJobFiles \/ CompleteJob
  BY <1>2, <1>3, <1>5 DEF CleanupJobFiles, CompleteJob, TypeOK
<1>6. ASSUME NEW j \in Jobs, \/ SkipJob(j) \/ PartitionMaps(j) \/ SubmitJob(j)
                             \/ AddMapTasks(j)
      PROVE  FinalsKept'
  <2>1. \A k \in Jobs : jobStatus'[k] \in {jobStatus[k], "SUBMITTED"}
    BY <1>6 DEF SkipJob, PartitionMaps, SubmitJob, AddMapTasks, TypeOK
  <2> QED
    BY <1>3, <1>6, <2>1
    DEF SkipJob, PartitionMaps, SubmitJob, AddMapTasks, Visit
<1>7. CASE \/ ReadMergeJobs \/ AddReduceTasks \/ MergeRaises \/ MergeDone
           \/ Abort \/ UNCHANGED vars
  BY <1>3, <1>7
  DEF ReadMergeJobs, AddReduceTasks, MergeRaises, MergeDone, Abort, vars
<1>8. CASE Cluster
  BY <1>3, <1>8
  DEF Cluster, PodSucceeds, PodFails, PodKilled, PodEvicted, JobVanishes,
      JobDeleted, Gone
<1>9. CASE Finish
  <2>1. \A j \in Jobs : jobStatus'[j] \in {jobStatus[j], "FAILED"}
    BY <1>9
    DEF Finish, ListFinished, ReadExitCodes, ListFinishedFails, ReadEndedTasks,
        ClearWorkers, DeleteWorkers, CompleteTasks, FailTask, ResetForceful,
        FailTasksDone, ResetForcefulDone, DeleteWorkerJobs, TypeOK
  <2> QED
    BY <1>3, <1>9, <2>1
    DEF Finish, ListFinished, ReadExitCodes, ListFinishedFails, ReadEndedTasks,
        ClearWorkers, DeleteWorkers, CompleteTasks, FailTask, ResetForceful,
        FailTasksDone, ResetForcefulDone, DeleteWorkerJobs
<1>10. CASE Recover
  BY <1>3, <1>10
  DEF Recover, ListAlive, ListAliveFails, AliveUnknown, ReadOrphans,
      RecoverTask, RecoverDone
<1>11. CASE Spawn
  <2>1. \A j \in Jobs : jobStatus'[j] \in {jobStatus[j], "RUNNING"}
    BY <1>11
    DEF Spawn, PickNothing, ReadIdle, AddWorkers, AddWorkersRaises,
        AssignWorkers, CreateWorkerJob, SpawnDone, ActivateWorkers, StartTasks,
        RunJobs
  <2> QED
    BY <1>3, <1>11, <2>1
    DEF Spawn, PickNothing, ReadIdle, AddWorkers, AddWorkersRaises,
        AssignWorkers, CreateWorkerJob, SpawnDone, ActivateWorkers, StartTasks,
        RunJobs
<1> QED
  BY <1>4, <1>5, <1>6, <1>7, <1>8, <1>9, <1>10, <1>11
  DEF Next, Tick, Merge, Client

\* Inputs, outputs and the outputs of jobs are there as long as the tick, or a
\* pod, counts on them.
THEOREM ObjectInvariant == Spec => []ObjectInv
<1>1. TypeOK /\ StatusInv /\ JobInv /\ ObjectInv /\ [Next]_vars => ObjectInv'
  BY InputsStep, OutputsStep, FinalsStep DEF ObjectInv
<1> QED
  BY <1>1, InitObject, TypeCorrect, StatusInvariant, JobInvariant, PTL DEF Spec

\* A COMPLETED task has its output in MinIO until the output of its job is
\* there, whatever died or failed on the way.
THEOREM OutputsKeptForMerge == Spec => []CompletedTaskHasOutput
<1>1. ObjectInv => CompletedTaskHasOutput
  BY DEF ObjectInv, OutputsKept, Produced, CompletedTaskHasOutput
<1> QED
  BY <1>1, ObjectInvariant, PTL

\* The cleanup never removes the input of a pod whose task is still to be done.
THEOREM InputsKeptForPods == Spec => []InputOutlivesTask
<1>1. JobInv /\ ObjectInv => InputOutlivesTask
  BY DEF JobInv, JobNamesTask, ObjectInv, InputsKept, InputOutlivesTask, Live
<1> QED
  BY <1>1, JobInvariant, ObjectInvariant, PTL

----
\* Every object of a merge was validated to be there, so if none is partial and
\* each can be read the result is whole.
LEMMA MergedWhole ==
  ASSUME "read" \notin Faults, NEW objects, NEW ts,
         \A t \in ts : objects[t] = "whole",
         NEW c \in Merged(objects, ts)
  PROVE  c = "whole"
  BY DEF Merged

LEMMA UploadWhole ==
  ASSUME "script" \notin Faults, TypeOK, JobInv, NothingPartial, Cluster
  PROVE  NothingPartial'
<1>1. PICK w \in Workers : \/ PodSucceeds(w) \/ PodFails(w) \/ PodKilled(w)
                           \/ PodEvicted(w) \/ JobVanishes(w) \/ JobDeleted(w)
  BY DEF Cluster
<1>2. UNCHANGED <<input, final>>
  BY ClusterStore
<1>3. Live(w) => ktask[w] \in Tasks
  BY DEF Live, JobInv, JobNamesTask
<1>4. Live(w) /\ Uploads(w) => \A t \in Tasks : output'[t] # "partial"
  BY <1>3 DEF Uploads, NothingPartial, TypeOK
<1>5. \A t \in Tasks : output'[t] # "partial"
  BY <1>1, <1>4
  DEF PodSucceeds, PodFails, PodKilled, PodEvicted, JobVanishes, JobDeleted, Gone,
      MayUpload, NothingPartial, Live, minio
<1> QED
  BY <1>2, <1>5 DEF NothingPartial

LEMMA WholeStep ==
  ASSUME "script" \notin Faults, "read" \notin Faults, TypeOK, JobInv,
         NothingPartial, [Next]_vars
  PROVE  NothingPartial' /\ [OutputStep]_vars
<1>1. CASE UNCHANGED minio
  BY <1>1 DEF minio, NothingPartial, OutputStep
<1>2. CASE Cluster
  BY <1>2, UploadWhole, ClusterStore DEF OutputStep
<1>3. ASSUME NEW j \in Jobs, AddMapTasks(j)
      PROVE  NothingPartial' /\ OutputStep
  BY <1>3 DEF AddMapTasks, NothingPartial, OutputStep
<1>4. ASSUME NEW j \in Jobs, PartitionMaps(j)
      PROVE  NothingPartial' /\ OutputStep
  <2>1. PICK c \in Merged(output, MapsOf(j)) :
          input' = [t \in Tasks |-> IF t \in ReducesOf(j) THEN c ELSE input[t]]
    BY <1>4 DEF PartitionMaps
  <2>2. \A t \in MapsOf(j) : output[t] = "whole"
    BY <1>4
    DEF PartitionMaps, MapOutputsValid, ObjectsThere, NothingPartial, TypeOK,
        Content, MapsOf, Tasks
  <2>3. c = "whole"
    BY <2>2, MergedWhole
  <2> QED
    BY <1>4, <2>1, <2>3 DEF PartitionMaps, NothingPartial, OutputStep
<1>5. ASSUME NEW j \in Jobs, WriteFinal(j)
      PROVE  NothingPartial' /\ OutputStep
  <2>1. PICK c \in Merged(output, ReducesOf(j)) : final' = [final EXCEPT ![j] = c]
    BY <1>5 DEF WriteFinal
  <2>2. \A t \in ReducesOf(j) : output[t] = "whole"
    BY <1>5
    DEF WriteFinal, ReducersValid, ObjectsThere, NothingPartial, TypeOK,
        Content, ReducesOf, Tasks
  <2>3. c = "whole"
    BY <2>2, MergedWhole
  <2> QED
    BY <1>5, <2>1, <2>3 DEF WriteFinal, NothingPartial, OutputStep, TypeOK
<1>6. CASE CleanupJobFiles
  BY <1>6 DEF CleanupJobFiles, Without, NothingPartial, OutputStep
<1> QED
  BY <1>1, <1>2, <1>3, <1>4, <1>5, <1>6, StoreFrame

\* No object is partial while scripts write all their output and every object
\* can be read.
LEMMA WholeInvariant ==
  ASSUME "script" \notin Faults, "read" \notin Faults
  PROVE  Spec => []NothingPartial
<1>1. Init => NothingPartial
  BY DEF Init, NothingPartial
<1>2. TypeOK /\ JobInv /\ NothingPartial /\ [Next]_vars => NothingPartial'
  BY WholeStep
<1> QED
  BY <1>1, <1>2, TypeCorrect, JobInvariant, PTL DEF Spec

\* A COMPLETED job has all its tasks COMPLETED and the whole of its output, while
\* scripts write all their output and objects can be read; pods may be killed,
\* Jobs vanish, calls fail and ticks die.
THEOREM CompletedJobsWhole ==
  ASSUME "script" \notin Faults, "read" \notin Faults
  PROVE  Spec => []CompletedJobIsWhole
<1>1. TypeOK /\ StatusInv /\ ObjectInv /\ NothingPartial => CompletedJobIsWhole
  BY DEF TypeOK, Content, StatusInv, CompletedJobs, ObjectInv, FinalsKept,
         NothingPartial, CompletedJobIsWhole
<1> QED
  BY <1>1, TypeCorrect, StatusInvariant, ObjectInvariant, WholeInvariant, PTL

----
\* No second merge, by a tick that starts over after a dead one, spoils a whole
\* output, although the first one may have removed what it was merged from, and
\* pods that are still being deleted may write: it merges nothing where an object
\* is missing.  Objects can be read and scripts write all of their output.
THEOREM WholeOutputsStay ==
  ASSUME "read" \notin Faults, "script" \notin Faults
  PROVE  Spec => FinalOutputStable
<1>1. TypeOK /\ JobInv /\ NothingPartial /\ [Next]_vars => [OutputStep]_vars
  BY WholeStep
<1> QED
  BY <1>1, TypeCorrect, JobInvariant, WholeInvariant, PTL
  DEF Spec, FinalOutputStable

----
\* Scheduler implements JobLifecycle: the steps of the tick, of the pods and of a
\* restart are steps in the life of a job that a client sees, or cannot be seen.

\* A task is planned only in a job that was submitted.
LEMMA SubmittedStep ==
  ASSUME TypeOK, StatusInv, TasksSubmitted, [Next]_vars
  PROVE  /\ TasksSubmitted'
         /\ \A j \in Jobs : jobStatus[j] # "NONE" => jobStatus'[j] # "NONE"
<1> USE DEF db, locals
<1>1. \A j \in Jobs : jobStatus[j] # "NONE" => jobStatus'[j] # "NONE"
  <2>1. CASE Finish \/ Recover \/ Abort \/ Client \/ Cluster \/ UNCHANGED vars
    BY <2>1
    DEF Finish, ListFinished, ReadExitCodes, ListFinishedFails, ReadEndedTasks,
        ClearWorkers, DeleteWorkers, CompleteTasks, FailTask, ResetForceful,
        FailTasksDone, ResetForcefulDone, DeleteWorkerJobs, Recover, ListAlive,
        ListAliveFails, ReadOrphans, RecoverTask, RecoverDone, Abort, Client,
        SubmitJob, AddMapTasks, Cluster, PodSucceeds, PodFails, PodKilled,
        PodEvicted, JobVanishes, JobDeleted, Gone, vars, TypeOK
  <2>2. CASE Merge
    BY <2>2
    DEF Merge, ReadMergeJobs, SkipJob, PartitionMaps, AddReduceTasks,
        WriteFinal, CleanupJobFiles, CompleteJob, MergeRaises, MergeDone, TypeOK
  <2>3. CASE Spawn
    BY <2>3
    DEF Spawn, PickNothing, ReadIdle, AddWorkers, AddWorkersRaises,
        AssignWorkers, CreateWorkerJob, SpawnDone, ActivateWorkers, StartTasks,
        RunJobs
  <2> QED
    BY <2>1, <2>2, <2>3 DEF Next, Tick
<1>2. ASSUME \A t \in Tasks : taskStatus'[t] # "NONE" =>
               taskStatus[t] # "NONE" \/ jobStatus[JobOf[t]] # "NONE"
      PROVE  TasksSubmitted'
  BY <1>1, <1>2, TasksAssumption DEF TasksSubmitted
<1>3. ASSUME NEW j \in Jobs, AddMapTasks(j)
      PROVE  TasksSubmitted'
  BY <1>2, <1>3 DEF AddMapTasks, Added, MapsOf
<1>4. CASE AddReduceTasks
  <2>1. current \in Jobs /\ MapsDone(current)
    BY <1>4 DEF AddReduceTasks, StatusInv, LockedJob
  <2>2. jobStatus[current] # "NONE"
    BY <2>1, TasksAssumption
    DEF TasksSubmitted, MapsDone, AllCompleted, MapsOf, Tasks
  <2> QED
    BY <1>2, <1>4, <2>2 DEF AddReduceTasks, Added, ReducesOf
<1>5. CASE Finish
  <2>1. ASSUME CompleteTasks
        PROVE  \A t \in Tasks : taskStatus'[t] # "NONE" => taskStatus[t] # "NONE"
    BY <2>1 DEF CompleteTasks, SetStatus, StatusInv, SuccessesUnfinished
  <2>2. ASSUME NEW s \in Tasks, FailTask(s) \/ ResetForceful(s)
        PROVE  \A t \in Tasks : taskStatus'[t] # "NONE" => taskStatus[t] # "NONE"
    BY <2>2 DEF FailTask, ResetForceful, Resettable, Reset, TypeOK
  <2>3. CASE UNCHANGED taskStatus
    BY <1>1, <1>2, <2>3
  <2> QED
    BY <1>1, <1>2, <1>5, <2>1, <2>2, <2>3
    DEF Finish, ListFinished, ReadExitCodes, ListFinishedFails, ReadEndedTasks,
        ClearWorkers, DeleteWorkers, FailTasksDone, ResetForcefulDone,
        DeleteWorkerJobs
<1>6. CASE Recover
  <2>1. \A t \in Tasks : taskStatus'[t] = taskStatus[t] \/ taskStatus[t] # "NONE"
    BY <1>6
    DEF Recover, ListAlive, ListAliveFails, ReadOrphans, RecoverTask, Orphaned,
        Respawn, Reset, RecoverDone, TypeOK
  <2> QED
    BY <1>1, <1>2, <2>1
<1>7. CASE Spawn
  <2>1. \A t \in Tasks : taskStatus'[t] = taskStatus[t] \/ taskStatus[t] # "NONE"
    BY <1>7
    DEF Spawn, PickNothing, ReadIdle, AddWorkers, AddWorkersRaises,
        AssignWorkers, CreateWorkerJob, SpawnDone, ActivateWorkers, StartTasks,
        SetStatus, RunJobs, StatusInv, PickedTasks
  <2> QED
    BY <1>1, <1>2, <2>1
<1>8. ASSUME UNCHANGED taskStatus
      PROVE  TasksSubmitted'
  BY <1>2, <1>8
<1>9. ASSUME NEW j \in Jobs, \/ SubmitJob(j) \/ SkipJob(j) \/ PartitionMaps(j)
                             \/ WriteFinal(j)
      PROVE  TasksSubmitted'
  BY <1>8, <1>9 DEF SubmitJob, SkipJob, PartitionMaps, WriteFinal
<1>10. CASE \/ ReadMergeJobs \/ CleanupJobFiles \/ CompleteJob \/ MergeRaises
            \/ MergeDone \/ Abort \/ Cluster \/ UNCHANGED vars
  BY <1>1, <1>8, <1>10
  DEF ReadMergeJobs, CleanupJobFiles, CompleteJob, MergeRaises, MergeDone, Abort,
      Cluster, PodSucceeds, PodFails, PodKilled, PodEvicted, JobVanishes,
      JobDeleted, Gone, vars
<1> QED
  BY <1>1, <1>3, <1>4, <1>5, <1>6, <1>7, <1>9, <1>10
  DEF Next, Tick, Merge, Client

LEMMA SubmittedInvariant == Spec => []TasksSubmitted
<1>1. Init => TasksSubmitted
  BY DEF Init, TasksSubmitted
<1>2. TypeOK /\ StatusInv /\ TasksSubmitted /\ [Next]_vars => TasksSubmitted'
  BY SubmittedStep
<1> QED
  BY <1>1, <1>2, TypeCorrect, StatusInvariant, PTL DEF Spec

----
LEMMA InitRefines == Init => Lifecycle!Init
  BY DEF Init, Lifecycle!Init

\* What the client does not see: workers, Jobs, inputs and outputs of tasks, and
\* changes between IDLE and IN_PROGRESS or SUBMITTED, RUNNING and FAILED.
LEMMA Unseen ==
  ASSUME \A j \in Jobs : /\ jobStatus'[j] = "NONE" <=> jobStatus[j] = "NONE"
                         /\ jobStatus'[j] = "COMPLETED" <=> jobStatus[j] = "COMPLETED"
                         /\ final'[j] = "absent" <=> final[j] = "absent",
         \A t \in Tasks : \/ taskStatus'[t] = taskStatus[t]
                          \/ /\ taskStatus'[t] \in {"IDLE", "IN_PROGRESS"}
                             /\ taskStatus[t] \in {"IDLE", "IN_PROGRESS"}
  PROVE  UNCHANGED Lifecycle!vars
<1>1. {j \in Jobs : jobStatus[j] # "NONE"}' = {j \in Jobs : jobStatus[j] # "NONE"}
  OBVIOUS
<1>2. {j \in Jobs : jobStatus[j] = "COMPLETED"}' = {j \in Jobs : jobStatus[j] = "COMPLETED"}
  OBVIOUS
<1>3. {j \in Jobs : final[j] # "absent"}' = {j \in Jobs : final[j] # "absent"}
  OBVIOUS
<1>4. {t \in Tasks : taskStatus[t] # "NONE"}' = {t \in Tasks : taskStatus[t] # "NONE"}
  OBVIOUS
<1>5. {t \in Tasks : taskStatus[t] = "COMPLETED"}' = {t \in Tasks : taskStatus[t] = "COMPLETED"}
  OBVIOUS
<1>6. {t \in Tasks : taskStatus[t] = "FAILED"}' = {t \in Tasks : taskStatus[t] = "FAILED"}
  OBVIOUS
<1> QED
  BY <1>1, <1>2, <1>3, <1>4, <1>5, <1>6 DEF Lifecycle!vars

\* An API call plans the MAP tasks, the shuffle the REDUCE tasks.
LEMMA PlanRefines ==
  ASSUME TypeOK, StatusInv, NEW j \in Jobs,
         \/ AddMapTasks(j)
         \/ AddReduceTasks /\ current = j
  PROVE  Lifecycle!Next
<1> USE DEF db, locals, minio
<1>1. CASE AddMapTasks(j)
  <2>1. \A t \in Tasks : taskStatus'[t] = Added(MapsOf(j), t)
    BY <1>1 DEF AddMapTasks
  <2>2. \A t \in MapsOf(j) : t \in Tasks /\ taskStatus[t] = "NONE"
    BY <1>1 DEF AddMapTasks, MapsOf, Tasks
  <2>3. {t \in Tasks : taskStatus'[t] # "NONE"} =
          {t \in Tasks : taskStatus[t] # "NONE"} \cup MapsOf(j)
    BY <2>1, <2>2 DEF Added
  <2>4. {t \in Tasks : taskStatus'[t] = "COMPLETED"} =
          {t \in Tasks : taskStatus[t] = "COMPLETED"}
    BY <2>1, <2>2 DEF Added
  <2>5. {t \in Tasks : taskStatus'[t] = "FAILED"} =
          {t \in Tasks : taskStatus[t] = "FAILED"}
    BY <2>1, <2>2 DEF Added
  <2>6. jobStatus[j] # "NONE" /\ UNCHANGED <<jobStatus, final>>
    BY <1>1 DEF AddMapTasks
  <2>7. Lifecycle!PlanMaps(j)
    BY <2>2, <2>3, <2>4, <2>5, <2>6
    DEF Lifecycle!PlanMaps, Lifecycle!Maps, MapsOf
  <2> QED
    BY <2>7 DEF Lifecycle!Next
<1>2. CASE AddReduceTasks /\ current = j
  <2>1. \A t \in Tasks : taskStatus'[t] = Added(ReducesOf(j), t)
    BY <1>2 DEF AddReduceTasks
  <2>2. /\ MapsDone(j)
        /\ \A t \in ReducesOf(j) : t \in Tasks /\ taskStatus[t] = "NONE"
    BY <1>2 DEF AddReduceTasks, StatusInv, LockedJob, ReducesOf, Tasks
  <2>3. {t \in Tasks : taskStatus'[t] # "NONE"} =
          {t \in Tasks : taskStatus[t] # "NONE"} \cup ReducesOf(j)
    BY <2>1, <2>2 DEF Added
  <2>4. {t \in Tasks : taskStatus'[t] = "COMPLETED"} =
          {t \in Tasks : taskStatus[t] = "COMPLETED"}
    BY <2>1, <2>2 DEF Added
  <2>5. {t \in Tasks : taskStatus'[t] = "FAILED"} =
          {t \in Tasks : taskStatus[t] = "FAILED"}
    BY <2>1, <2>2 DEF Added
  <2>6. UNCHANGED <<jobStatus, final>>
    BY <1>2 DEF AddReduceTasks
  <2>7. Lifecycle!PlanReduces(j)
    BY <2>2, <2>3, <2>4, <2>5, <2>6
    DEF Lifecycle!PlanReduces, Lifecycle!Maps, Lifecycle!Reduces, MapsDone,
        AllCompleted, MapsOf, ReducesOf, Tasks
  <2> QED
    BY <2>7 DEF Lifecycle!Next
<1> QED
  BY <1>1, <1>2

LEMMA MergeRefines ==
  ASSUME TypeOK, StatusInv, ObjectInv, TasksSubmitted, Merge
  PROVE  Lifecycle!Next \/ UNCHANGED Lifecycle!vars
<1> USE DEF db, minio
<1>1. CASE AddReduceTasks
  BY <1>1, PlanRefines DEF AddReduceTasks, StatusInv, LockedJob
<1>2. ASSUME NEW j \in Jobs, WriteFinal(j)
      PROVE  Lifecycle!Next
  <2>1. PICK c \in Merged(output, ReducesOf(j)) : final' = [final EXCEPT ![j] = c]
    BY <1>2 DEF WriteFinal
  <2>2. c # "absent"
    BY MergedThere
  <2>3. {k \in Jobs : final'[k] # "absent"} =
          {k \in Jobs : final[k] # "absent"} \cup {j}
    BY <2>1, <2>2 DEF TypeOK
  <2>4. \A t \in TasksOf(j) : t \in Tasks /\ taskStatus[t] = "COMPLETED"
    BY <1>2
    DEF WriteFinal, Visit, Finalizable, StatusInv, LockedJob, MapsDone,
        ReducesDone, AllCompleted, TasksOf, MapsOf, ReducesOf, Tasks
  <2>5. jobStatus[j] # "COMPLETED"
    BY <1>2
    DEF WriteFinal, Finalizable, Open, StatusRead, StatusInv, StatusMemory
  <2>6. UNCHANGED <<jobStatus, taskStatus>>
    BY <1>2 DEF WriteFinal
  <2>7. Lifecycle!Write(j)
    BY <2>3, <2>4, <2>5, <2>6
    DEF Lifecycle!Write, Lifecycle!All, Lifecycle!Maps, Lifecycle!Reduces,
        TasksOf, MapsOf, ReducesOf
  <2> QED
    BY <2>7 DEF Lifecycle!Next
<1>3. ASSUME NEW j \in Jobs, j = current, CompleteJob
      PROVE  Lifecycle!Next
  <2>1. \A t \in TasksOf(j) : t \in Tasks /\ taskStatus[t] = "COMPLETED"
    BY <1>3
    DEF CompleteJob, StatusInv, LockedJob, MapsDone, ReducesDone, AllCompleted,
        TasksOf, MapsOf, ReducesOf, Tasks
  <2>2. final[j] # "absent"
    BY <1>3 DEF CompleteJob, StatusInv, LockedJob, ObjectInv, FinalsKept
  <2>3. jobStatus[j] # "NONE"
    BY <2>1, TasksAssumption DEF TasksSubmitted, TasksOf, MapsOf
  <2>4. /\ jobStatus' = [jobStatus EXCEPT ![j] = "COMPLETED"]
        /\ UNCHANGED <<taskStatus, final>>
    BY <1>3 DEF CompleteJob
  <2>5. {k \in Jobs : jobStatus'[k] = "COMPLETED"} =
          {k \in Jobs : jobStatus[k] = "COMPLETED"} \cup {j}
    BY <2>4 DEF TypeOK
  <2>6. {k \in Jobs : jobStatus'[k] # "NONE"} = {k \in Jobs : jobStatus[k] # "NONE"}
    BY <2>3, <2>4 DEF TypeOK
  <2>7. Lifecycle!Deliver(j)
    BY <2>1, <2>2, <2>4, <2>5, <2>6
    DEF Lifecycle!Deliver, Lifecycle!All, Lifecycle!Maps, Lifecycle!Reduces,
        TasksOf, MapsOf, ReducesOf
  <2> QED
    BY <2>7 DEF Lifecycle!Next
<1>4. ASSUME UNCHANGED <<jobStatus, taskStatus, final>>
      PROVE  UNCHANGED Lifecycle!vars
  BY <1>4, Unseen
<1>5. CASE \/ ReadMergeJobs \/ CleanupJobFiles \/ MergeRaises \/ MergeDone
           \/ \E j \in Jobs : SkipJob(j) \/ PartitionMaps(j)
  BY <1>4, <1>5
  DEF ReadMergeJobs, CleanupJobFiles, MergeRaises, MergeDone, SkipJob,
      PartitionMaps
<1>6. CompleteJob => current \in Jobs
  BY DEF CompleteJob, StatusInv, LockedJob
<1> QED
  BY <1>1, <1>2, <1>3, <1>5, <1>6 DEF Merge

LEMMA FinishRefines ==
  ASSUME TypeOK, StatusInv, TasksSubmitted, Finish
  PROVE  Lifecycle!Next \/ UNCHANGED Lifecycle!vars
<1> USE DEF db, minio
<1>1. ASSUME NEW ts \in SUBSET Tasks, ts = successfulTasks, CompleteTasks
      PROVE  Lifecycle!Next
  <2>1. \A t \in ts : taskStatus[t] \in {"IDLE", "IN_PROGRESS"}
    BY <1>1 DEF CompleteTasks, StatusInv, SuccessesUnfinished
  <2>2. \A t \in Tasks : taskStatus'[t] =
          IF t \in ts THEN "COMPLETED" ELSE taskStatus[t]
    BY <1>1 DEF CompleteTasks, SetStatus
  <2>3. {t \in Tasks : taskStatus'[t] = "COMPLETED"} =
          {t \in Tasks : taskStatus[t] = "COMPLETED"} \cup ts
    BY <2>1, <2>2
  <2>4. {t \in Tasks : taskStatus'[t] # "NONE"} = {t \in Tasks : taskStatus[t] # "NONE"}
    BY <2>1, <2>2
  <2>5. {t \in Tasks : taskStatus'[t] = "FAILED"} = {t \in Tasks : taskStatus[t] = "FAILED"}
    BY <2>1, <2>2
  <2>6. UNCHANGED <<jobStatus, final>>
    BY <1>1 DEF CompleteTasks
  <2>7. Lifecycle!Finish(ts)
    BY <2>1, <2>3, <2>4, <2>5, <2>6 DEF Lifecycle!Finish
  <2> QED
    BY <2>7 DEF Lifecycle!Next, Tasks
<1>2. ASSUME NEW t \in Tasks, FailTask(t), Resettable(t)
      PROVE  Lifecycle!Next
  <2>1. /\ taskStatus[t] = "IN_PROGRESS"
        /\ taskStatus' = [taskStatus EXCEPT ![t] = "FAILED"]
        /\ jobStatus' = [jobStatus EXCEPT ![JobOf[t]] = "FAILED"]
        /\ final' = final
    BY <1>2 DEF FailTask, Resettable, Reset
  <2>2. /\ JobOf[t] \in Jobs /\ jobStatus[JobOf[t]] # "NONE"
        /\ jobStatus[JobOf[t]] # "COMPLETED"
    BY <2>1, TasksAssumption
    DEF TasksSubmitted, StatusInv, CompletedJobs, TasksOf, MapsOf, ReducesOf,
        Tasks
  <2>3. {u \in Tasks : taskStatus'[u] = "COMPLETED"} =
          {u \in Tasks : taskStatus[u] = "COMPLETED"}
    BY <2>1 DEF TypeOK
  <2>4. {u \in Tasks : taskStatus'[u] # "NONE"} = {u \in Tasks : taskStatus[u] # "NONE"}
    BY <2>1 DEF TypeOK
  <2>5. {u \in Tasks : taskStatus'[u] = "FAILED"} =
          {u \in Tasks : taskStatus[u] = "FAILED"} \cup {t}
    BY <2>1 DEF TypeOK
  <2>6. {j \in Jobs : jobStatus'[j] # "NONE"} = {j \in Jobs : jobStatus[j] # "NONE"}
    BY <2>1, <2>2 DEF TypeOK
  <2>7. {j \in Jobs : jobStatus'[j] = "COMPLETED"} =
          {j \in Jobs : jobStatus[j] = "COMPLETED"}
    BY <2>1, <2>2 DEF TypeOK
  <2>8. Lifecycle!Fail(t)
    BY <2>1, <2>3, <2>4, <2>5, <2>6, <2>7 DEF Lifecycle!Fail
  <2> QED
    BY <2>8 DEF Lifecycle!Next, Tasks
<1>3. ASSUME NEW t \in Tasks, ResetForceful(t), Resettable(t)
      PROVE  UNCHANGED Lifecycle!vars
  <2>1. /\ taskStatus[t] = "IN_PROGRESS"
        /\ taskStatus' = [taskStatus EXCEPT ![t] = "IDLE"]
        /\ UNCHANGED <<jobStatus, final>>
    BY <1>3 DEF ResetForceful, Resettable, Reset
  <2> QED
    BY <2>1, Unseen DEF TypeOK
<1>4. ASSUME UNCHANGED <<jobStatus, taskStatus, final>>
      PROVE  UNCHANGED Lifecycle!vars
  BY <1>4, Unseen
<1>5. ASSUME NEW t \in Tasks, FailTask(t) \/ ResetForceful(t), ~Resettable(t)
      PROVE  UNCHANGED Lifecycle!vars
  BY <1>4, <1>5 DEF FailTask, ResetForceful
<1>6. CASE \/ ListFinished \/ ReadExitCodes \/ ListFinishedFails \/ ReadEndedTasks
           \/ ClearWorkers \/ DeleteWorkers \/ FailTasksDone
           \/ ResetForcefulDone \/ DeleteWorkerJobs
  BY <1>4, <1>6
  DEF ListFinished, ReadExitCodes, ListFinishedFails, ReadEndedTasks, ClearWorkers,
      DeleteWorkers, FailTasksDone, ResetForcefulDone, DeleteWorkerJobs
<1>7. successfulTasks \in SUBSET Tasks
  BY DEF TypeOK
<1> QED
  BY <1>1, <1>2, <1>3, <1>5, <1>6, <1>7 DEF Finish

LEMMA RecoverRefines ==
  ASSUME TypeOK, RowInv, StatusInv, Recover
  PROVE  UNCHANGED Lifecycle!vars
<1> USE DEF db, minio
<1>1. UNCHANGED <<jobStatus, final>>
  BY DEF Recover, ListAlive, ListAliveFails, ReadOrphans, RecoverTask,
         RecoverDone
<1>2. CASE UNCHANGED taskStatus
  BY <1>1, <1>2, Unseen
<1>3. ASSUME NEW t \in Tasks, RecoverTask(t), Orphaned(t), Respawn(t)
      PROVE  UNCHANGED Lifecycle!vars
  <2>1. taskStatus[t] = "IN_PROGRESS"
    BY <1>3
    DEF RecoverTask, Orphaned, Remembered, RowInv, WorkerMemory, StatusInv,
        BusyTasksUnfinished
  <2>2. taskStatus' = [taskStatus EXCEPT ![t] = "IDLE"]
    BY <1>3 DEF Respawn, Reset
  <2> QED
    BY <1>1, <2>1, <2>2, Unseen DEF TypeOK
<1> QED
  BY <1>2, <1>3
  DEF Recover, ListAlive, ListAliveFails, ReadOrphans, RecoverTask, RecoverDone

LEMMA SpawnRefines ==
  ASSUME TypeOK, StatusInv, TasksSubmitted, Spawn
  PROVE  UNCHANGED Lifecycle!vars
<1> USE DEF db, minio
<1>1. CASE StartTasks
  <2>1. \A t \in Tasks : \/ taskStatus'[t] = taskStatus[t]
                         \/ taskStatus[t] = "IDLE" /\ taskStatus'[t] = "IN_PROGRESS"
    BY <1>1 DEF StartTasks, SetStatus, StatusInv, PickedTasks
  <2> QED
    BY <1>1, <2>1, Unseen DEF StartTasks
<1>2. CASE RunJobs
  <2>1. \A t \in NewTasks : t \in Tasks /\ taskStatus[t] = "IN_PROGRESS"
    BY <1>2 DEF RunJobs, StatusInv, PickedTasks, NewTasks
  <2>2. \A j \in RunningJobs(NewTasks) : jobStatus[j] \notin {"NONE", "COMPLETED"}
    BY <2>1, TasksAssumption
    DEF RunningJobs, TasksSubmitted, StatusInv, CompletedJobs, TasksOf, MapsOf,
        ReducesOf, Tasks
  <2>3. \A j \in Jobs : \/ jobStatus'[j] = jobStatus[j]
                        \/ /\ jobStatus'[j] = "RUNNING"
                           /\ jobStatus[j] \notin {"NONE", "COMPLETED"}
    BY <1>2, <2>2 DEF RunJobs
  <2>4. UNCHANGED <<taskStatus, final>>
    BY <1>2 DEF RunJobs
  <2> QED
    BY <2>3, <2>4, Unseen
<1>3. CASE ~StartTasks /\ ~RunJobs
  <2>1. UNCHANGED <<jobStatus, taskStatus, final>>
    BY <1>3
    DEF Spawn, PickNothing, ReadIdle, AddWorkers, AddWorkersRaises,
        AssignWorkers, CreateWorkerJob, SpawnDone, ActivateWorkers
  <2> QED
    BY <2>1, Unseen
<1> QED
  BY <1>1, <1>2, <1>3

LEMMA StepRefines ==
  ASSUME TypeOK, RowInv, StatusInv, JobInv, ObjectInv, TasksSubmitted,
         [Next]_vars
  PROVE  [Lifecycle!Next]_(Lifecycle!vars)
<1> USE DEF db, minio
<1>1. CASE Tick
  BY <1>1, FinishRefines, RecoverRefines, MergeRefines, SpawnRefines DEF Tick
<1>2. ASSUME NEW j \in Jobs, SubmitJob(j)
      PROVE  Lifecycle!Next
  <2>1. /\ jobStatus[j] = "NONE"
        /\ jobStatus' = [jobStatus EXCEPT ![j] = "SUBMITTED"]
        /\ UNCHANGED <<taskStatus, final>>
    BY <1>2 DEF SubmitJob
  <2>2. {k \in Jobs : jobStatus'[k] # "NONE"} =
          {k \in Jobs : jobStatus[k] # "NONE"} \cup {j}
    BY <2>1 DEF TypeOK
  <2>3. {k \in Jobs : jobStatus'[k] = "COMPLETED"} =
          {k \in Jobs : jobStatus[k] = "COMPLETED"}
    BY <2>1 DEF TypeOK
  <2>4. Lifecycle!Submit(j)
    BY <2>1, <2>2, <2>3 DEF Lifecycle!Submit
  <2> QED
    BY <2>4 DEF Lifecycle!Next
<1>3. ASSUME NEW j \in Jobs, AddMapTasks(j)
      PROVE  Lifecycle!Next
  BY <1>3, PlanRefines
<1>4. CASE Abort \/ UNCHANGED vars
  BY <1>4, Unseen DEF Abort, vars
<1>5. CASE Cluster
  <2>1. UNCHANGED <<jobStatus, taskStatus>>
    BY <1>5
    DEF Cluster, PodSucceeds, PodFails, PodKilled, PodEvicted, JobVanishes,
        JobDeleted, Gone
  <2> QED
    BY <1>5, <2>1, ClusterStore, Unseen
<1> QED
  BY <1>1, <1>2, <1>3, <1>4, <1>5 DEF Next, Client

\* The manager implements the life of a job: MAP phase, REDUCE phase, one
\* output, delivered when all of it is there.
THEOREM Refinement == Spec => ImplementsLifecycle
<1>1. Init => Lifecycle!Init
  BY InitRefines
<1>2. TypeOK /\ RowInv /\ StatusInv /\ JobInv /\ ObjectInv /\ TasksSubmitted
        /\ [Next]_vars => [Lifecycle!Next]_(Lifecycle!vars)
  BY StepRefines
<1> QED
  BY <1>1, <1>2, TypeCorrect, RowInvariant, StatusInvariant, JobInvariant,
     ObjectInvariant, SubmittedInvariant, PTL
  DEF Spec, ImplementsLifecycle, Lifecycle!Spec
=============================================================================
