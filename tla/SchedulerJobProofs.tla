-------------------------- MODULE SchedulerJobProofs --------------------------
(***************************************************************************)
(* JobInv is an invariant of Scheduler: what a list of Kubernetes Jobs     *)
(* said stays true while the tick acts on it.  With it, no healthy pod     *)
(* loses its task, and no task has two live Jobs.                          *)
(***************************************************************************)
EXTENDS SchedulerTableProofs

LEMMA InitJob == Init => JobInv
  BY DEF Init, NoFinished, NoOrphans, NoSpawn, JobInv, ListedEnded, ResetsListed,
         AliveKnown, JobNamesTask, RunningOwned, NewJobs, ListedWorkers,
         FinishPhases

\* A step that leaves the Jobs alone: tasks may lose a worker that does not run.
LEMMA JobFrame ==
  ASSUME TypeOK, JobInv,
         UNCHANGED <<kjob, ktask, successfulWorkers, failedWorkers, forcefulWorkers>>,
         \A t \in Tasks : taskStatus'[t] = "NONE" => taskStatus[t] = "NONE",
         \A t \in Tasks :
           \/ taskWorker'[t] = taskWorker[t]
           \/ /\ taskWorker'[t] = None
              /\ pc \notin {"insert", "assign", "spawn"}
              /\ \A w \in Workers : taskWorker[t] = w => kjob[w] # "running",
         failedTasks' \subseteq failedTasks,
         forcefulTasks' \subseteq forcefulTasks,
         \/ UNCHANGED <<pc, alive, pairing, toSpawn>>
         \/ /\ pc' \notin {"orphans", "recover", "insert", "assign", "spawn"}
            /\ pc \in FinishPhases => pc' \in FinishPhases
            /\ pc' \in FinishPhases \ {"pods", "ended"} =>
                 pc \in FinishPhases \ {"pods", "ended"}
  PROVE  JobInv'
<1> USE DEF JobInv
<1>1. ListedEnded'
  BY DEF ListedEnded, ListedWorkers
<1>2. ResetsListed'
  BY DEF ResetsListed, TypeOK
<1>3. AliveKnown'
  BY DEF AliveKnown, ExistingJobs
<1>4. JobNamesTask'
  BY NoneAssumption DEF JobNamesTask
<1>5. RunningOwned'
  BY DEF RunningOwned, JobNamesTask, TypeOK
<1>6. NewJobs'
  BY DEF NewJobs, NewTasks, TypeOK
<1> QED
  BY <1>1, <1>2, <1>3, <1>4, <1>5, <1>6

\* A step that ends or removes Jobs, while the tick stays where it is or has
\* dealt with the Jobs it listed.
LEMMA JobsEnd ==
  ASSUME TypeOK, JobInv,
         UNCHANGED <<taskStatus, taskWorker>>,
         \A w \in Workers : kjob'[w] # "absent" => ktask'[w] = ktask[w],
         \A w \in Workers :
           /\ kjob'[w] = "running" => kjob[w] = "running"
           /\ kjob[w] = "absent" => kjob'[w] = "absent"
           /\ kjob[w] = "succeeded" => kjob'[w] \in {"succeeded", "absent"},
         \/ UNCHANGED <<pc, alive, pairing, toSpawn, finishedVars>>
         \/ pc' = "alive" /\ ListedWorkers' = {}
  PROVE  JobInv'
<1> USE DEF JobInv, finishedVars
<1>1. ListedEnded'
  BY DEF ListedEnded, ListedWorkers, TypeOK
<1>2. ResetsListed'
  BY DEF ResetsListed, FinishPhases
<1>3. AliveKnown'
  BY DEF AliveKnown, ExistingJobs
<1>4. JobNamesTask'
  BY DEF JobNamesTask
<1>5. RunningOwned'
  BY DEF RunningOwned
<1>6. NewJobs'
  BY DEF NewJobs, NewTasks, TypeOK
<1> QED
  BY <1>1, <1>2, <1>3, <1>4, <1>5, <1>6

\* The locked transaction of the loops over ended tasks and over orphans.
LEMMA JobReset ==
  ASSUME TypeOK, JobInv, pc' = pc, pc \in {"fail", "force", "recover"},
         UNCHANGED <<k8s, alive, pairing, toSpawn, successfulWorkers,
                     failedWorkers, forcefulWorkers>>,
         failedTasks' \subseteq failedTasks, forcefulTasks' \subseteq forcefulTasks,
         NEW t \in Tasks, NEW s \in {"IDLE", "FAILED"}, \E w : Reset(t, s, w),
         \A w \in Workers : taskWorker[t] = w => kjob[w] # "running"
  PROVE  JobInv' /\ HealthyStep
<1>1. /\ taskStatus' = [taskStatus EXCEPT ![t] = s]
      /\ taskWorker' = [taskWorker EXCEPT ![t] = None]
  BY DEF Reset
<1>2. JobInv'
  BY <1>1, JobFrame DEF k8s, TypeOK
<1>3. HealthyStep
  BY <1>1 DEF HealthyStep, TypeOK
<1> QED
  BY <1>2, <1>3

LEMMA JobFinish ==
  ASSUME TypeOK, RowInv, JobInv, Finish
  PROVE  JobInv' /\ HealthyStep
<1> USE DEF db, k8s, finishedVars, orphanVars, mergeVars, spawnVars, locals
<1>1. CASE ListFinished \/ ReadExitCodes \/ ListFinishedFails
  <2>1. /\ pc' \in {"pods", "ended"}
        /\ UNCHANGED <<kjob, ktask, taskStatus, taskWorker>>
    BY <1>1 DEF ListFinished, ReadExitCodes, ListFinishedFails
  <2>2. ListedEnded'
    BY <1>1, <2>1
    DEF ListFinished, ReadExitCodes, ListFinishedFails, Listed, SucceededJobs,
        FailedJobs, JobInv, ListedEnded, ListedWorkers, FinishPhases
  <2> QED
    BY <2>1, <2>2
    DEF JobInv, ResetsListed, AliveKnown, JobNamesTask, RunningOwned, NewJobs,
        HealthyStep
<1>2. CASE ReadEndedTasks
  <2>1. ResetsListed'
    BY <1>2 DEF ReadEndedTasks, EndedTasks, RunBy, ResetsListed
  <2>2. ListedEnded'
    BY <1>2 DEF ReadEndedTasks, JobInv, ListedEnded, ListedWorkers, FinishPhases
  <2> QED
    BY <1>2, <2>1, <2>2
    DEF ReadEndedTasks, JobInv, AliveKnown, JobNamesTask, RunningOwned, NewJobs,
        HealthyStep
<1>3. CASE ClearWorkers
  <2>1. \A t \in successfulTasks : \A w \in Workers :
          taskWorker[t] = w => kjob[w] # "running"
    BY <1>3
    DEF ClearWorkers, RowInv, SuccessesReleased, RunBy, JobInv, ListedEnded
  <2>2. \A t \in Tasks : \/ taskWorker'[t] = taskWorker[t]
                         \/ taskWorker'[t] = None /\ t \in successfulTasks
    BY <1>3 DEF ClearWorkers, Cleared
  <2>3. JobInv'
    BY <1>3, <2>1, <2>2, JobFrame DEF ClearWorkers, FinishPhases
  <2> QED
    BY <1>3, <2>3 DEF ClearWorkers, HealthyStep
<1>4. CASE CompleteTasks
  <2>1. JobInv'
    BY <1>4, JobFrame DEF CompleteTasks, SetStatus, FinishPhases
  <2> QED
    BY <1>4, <2>1 DEF CompleteTasks, SetStatus, HealthyStep
<1>5. ASSUME NEW t \in Tasks, FailTask(t)
      PROVE  JobInv' /\ HealthyStep
  <2>1. \A w \in Workers : taskWorker[t] = w => kjob[w] # "running"
    BY <1>5, NoneAssumption
    DEF FailTask, JobInv, ResetsListed, ListedEnded, ListedWorkers, FinishPhases
  <2>2. CASE Resettable(t)
    BY <1>5, <2>1, <2>2, JobReset DEF FailTask
  <2>3. CASE ~Resettable(t)
    <3>1. JobInv'
      BY <1>5, <2>3, JobFrame DEF FailTask
    <3> QED
      BY <1>5, <2>3, <3>1 DEF FailTask, HealthyStep
  <2> QED
    BY <2>2, <2>3
<1>6. ASSUME NEW t \in Tasks, ResetForceful(t)
      PROVE  JobInv' /\ HealthyStep
  <2>1. \A w \in Workers : taskWorker[t] = w => kjob[w] # "running"
    BY <1>6, NoneAssumption
    DEF ResetForceful, JobInv, ResetsListed, ListedEnded, ListedWorkers,
        FinishPhases
  <2>2. CASE Resettable(t)
    BY <1>6, <2>1, <2>2, JobReset DEF ResetForceful
  <2>3. CASE ~Resettable(t)
    <3>1. JobInv'
      BY <1>6, <2>3, JobFrame DEF ResetForceful
    <3> QED
      BY <1>6, <2>3, <3>1 DEF ResetForceful, HealthyStep
  <2> QED
    BY <2>2, <2>3
<1>7. CASE DeleteWorkerJobs
  <2>1. JobInv'
    BY <1>7, JobsEnd
    DEF DeleteWorkerJobs, NothingEnded, Listed, ListedWorkers, TypeOK
  <2> QED
    BY <1>7, <2>1 DEF DeleteWorkerJobs, HealthyStep
<1>8. CASE DeleteWorkers \/ FailTasksDone \/ ResetForcefulDone
  <2>1. JobInv'
    BY <1>8, JobFrame
    DEF DeleteWorkers, FailTasksDone, ResetForcefulDone, FinishPhases
  <2> QED
    BY <1>8, <2>1
    DEF DeleteWorkers, FailTasksDone, ResetForcefulDone, HealthyStep
<1> QED
  BY <1>1, <1>2, <1>3, <1>4, <1>5, <1>6, <1>7, <1>8 DEF Finish

LEMMA JobRecover ==
  ASSUME TypeOK, RowInv, JobInv, Recover
  PROVE  JobInv' /\ HealthyStep
<1> USE DEF db, k8s, finishedVars, orphanVars, mergeVars, spawnVars, locals
<1>1. CASE ListAlive \/ ReadOrphans
  BY <1>1
  DEF ListAlive, ReadOrphans, JobInv, ListedEnded, ListedWorkers, ResetsListed,
      AliveKnown, ExistingJobs, JobNamesTask, RunningOwned, NewJobs, NewTasks,
      FinishPhases, HealthyStep
<1>2. CASE ListAliveFails \/ RecoverDone
  <2>1. JobInv'
    BY <1>2, JobFrame DEF ListAliveFails, AliveUnknown, RecoverDone, FinishPhases
  <2> QED
    BY <1>2, <2>1 DEF ListAliveFails, RecoverDone, HealthyStep
<1>3. ASSUME NEW t \in Tasks, RecoverTask(t)
      PROVE  JobInv' /\ HealthyStep
  <2>1. CASE Orphaned(t) /\ Respawn(t)
    <3>1. \A w \in Workers : taskWorker[t] = w => kjob[w] # "running"
      BY <1>3, <2>1
      DEF RecoverTask, Orphaned, Remembered, RowInv, WorkerMemory, JobInv,
          AliveKnown, ExistingJobs
    <3> QED
      BY <1>3, <2>1, <3>1, JobReset DEF RecoverTask, Respawn
  <2>2. CASE UNCHANGED db
    <3>1. JobInv'
      BY <1>3, <2>2, JobFrame DEF RecoverTask
    <3> QED
      BY <2>2, <3>1 DEF HealthyStep
  <2> QED
    BY <1>3, <2>1, <2>2 DEF RecoverTask
<1> QED
  BY <1>1, <1>2, <1>3 DEF Recover

LEMMA JobMerge ==
  ASSUME TypeOK, StatusInv, JobInv, Merge
  PROVE  JobInv' /\ HealthyStep
<1> USE DEF db, k8s, finishedVars, orphanVars, mergeVars, spawnVars, locals
<1>1. UNCHANGED <<kjob, ktask, taskWorker, alive, pairing, toSpawn>>
  BY DEF Merge, Visit, ReadMergeJobs, SkipJob, PartitionMaps, AddReduceTasks,
         WriteFinal, CleanupJobFiles, CompleteJob, MergeRaises, MergeDone
<1>2. /\ UNCHANGED <<successfulWorkers, failedWorkers, forcefulWorkers>>
      /\ UNCHANGED <<failedTasks, forcefulTasks>>
  BY DEF Merge, Visit, ReadMergeJobs, SkipJob, PartitionMaps, AddReduceTasks,
         WriteFinal, CleanupJobFiles, CompleteJob, MergeRaises, MergeDone
<1>3. /\ pc' \in {"merge", "partitioned", "written", "cleaned", "pick"}
      /\ pc \notin FinishPhases
  BY DEF Merge, Visit, ReadMergeJobs, SkipJob, PartitionMaps, AddReduceTasks,
         WriteFinal, CleanupJobFiles, CompleteJob, MergeRaises, MergeDone,
         PartitionUnread, OutputInvalid, CommitFails, FinishPhases
<1>4. \A t \in Tasks : \/ taskStatus'[t] = taskStatus[t]
                       \/ taskStatus[t] = "NONE" /\ taskStatus'[t] = "IDLE"
  <2>1. CASE AddReduceTasks
    BY <2>1 DEF AddReduceTasks, Added, StatusInv, LockedJob
  <2>2. CASE ~AddReduceTasks
    BY <2>2
    DEF Merge, ReadMergeJobs, SkipJob, PartitionMaps, WriteFinal,
        CleanupJobFiles, CompleteJob, MergeRaises, MergeDone
  <2> QED
    BY <2>1, <2>2
<1>5. JobInv'
  BY <1>1, <1>2, <1>3, <1>4, JobFrame DEF FinishPhases
<1>6. HealthyStep
  BY <1>4 DEF HealthyStep
<1> QED
  BY <1>5, <1>6

\* The tick that inserts, assigns and creates what it picked.
LEMMA JobSpawn ==
  ASSUME TypeOK, RowInv, StatusInv, JobInv, Spawn
  PROVE  JobInv' /\ HealthyStep
<1> USE DEF db, k8s, finishedVars, orphanVars, mergeVars, spawnVars, locals,
            FinishPhases
<1>1. CASE \/ PickNothing \/ AddWorkersRaises \/ SpawnDone \/ ActivateWorkers
           \/ StartTasks \/ RunJobs
  <2>1. \A t \in Tasks : \/ taskStatus'[t] = taskStatus[t]
                         \/ taskStatus'[t] = "IN_PROGRESS"
    BY <1>1
    DEF PickNothing, AddWorkersRaises, SpawnDone, ActivateWorkers, StartTasks,
        SetStatus, RunJobs
  <2>2. JobInv'
    BY <1>1, <2>1, JobFrame
    DEF PickNothing, AddWorkersRaises, SpawnDone, ActivateWorkers, StartTasks,
        RunJobs
  <2>3. HealthyStep
    BY <2>1 DEF HealthyStep
  <2> QED
    BY <2>2, <2>3
<1>2. CASE ReadIdle
  <2>1. \A t \in toSpawn' : t \in Tasks /\ taskWorker[t] = None
    BY <1>2 DEF ReadIdle, Batches, IdleTasks
  <2>2. NewJobs'
    BY <1>2, <2>1 DEF ReadIdle, NewJobs
  <2> QED
    BY <1>2, <2>2
    DEF ReadIdle, JobInv, ListedEnded, ListedWorkers, ResetsListed, AliveKnown,
        JobNamesTask, RunningOwned, HealthyStep
<1>3. CASE AddWorkers
  <2>1. PICK p \in Pairings(toSpawn, FreshWorkers) :
          pairing' = Paired(p, toSpawn)
    BY <1>3 DEF AddWorkers
  <2>2. p \in [toSpawn -> FreshWorkers] /\ toSpawn \subseteq Tasks
    BY DEF Pairings, TypeOK
  <2>3. NewTasks' = toSpawn /\ \A t \in toSpawn : pairing'[t] = p[t]
    BY <2>1, <2>2, NoneAssumption DEF NewTasks, Paired, FreshWorkers
  <2>4. NewJobs'
    BY <1>3, <2>2, <2>3 DEF AddWorkers, JobInv, NewJobs, FreshWorkers
  <2> QED
    BY <1>3, <2>4
    DEF AddWorkers, JobInv, ListedEnded, ListedWorkers, ResetsListed,
        AliveKnown, JobNamesTask, RunningOwned, HealthyStep
<1>4. CASE AssignWorkers
  <2>1. PICK p \in Pairings(NewTasks, NewWorkers) :
          /\ pairing' = Paired(p, NewTasks)
          /\ taskWorker' = [t \in Tasks |->
               IF t \in NewTasks /\ taskWorker[t] = None THEN p[t]
               ELSE taskWorker[t]]
    BY <1>4 DEF AssignWorkers
  <2>2. p \in [NewTasks -> NewWorkers] /\ NewTasks \subseteq Tasks
    BY DEF Pairings, NewTasks
  <2>3. toSpawn = NewTasks /\ \A t \in NewTasks : taskWorker[t] = None
    BY <1>4 DEF AssignWorkers, JobInv, NewJobs
  <2>4. \A w \in NewWorkers : w \in Workers /\ kjob[w] = "absent"
    BY <1>4 DEF AssignWorkers, JobInv, NewJobs, NewWorkers, NewTasks, TypeOK
  <2>5. NewTasks' = NewTasks
    BY <2>1, <2>2, <2>4, NoneAssumption DEF NewTasks, Paired
  <2>6. \A t \in NewTasks : pairing'[t] = p[t] /\ taskWorker'[t] = p[t]
    BY <2>1, <2>2, <2>3 DEF Paired
  <2>7. \A t \in Tasks \ NewTasks : taskWorker'[t] = taskWorker[t]
    BY <2>1
  <2>8. NewJobs'
    BY <1>4, <2>2, <2>3, <2>4, <2>5, <2>6 DEF AssignWorkers, NewJobs
  <2>9. JobNamesTask'
    BY <1>4, <2>2, <2>4, <2>6, <2>7
    DEF AssignWorkers, JobInv, JobNamesTask
  <2>10. \A w \in Workers : kjob[w] = "running" => ktask[w] \in Tasks \ NewTasks
    BY <2>3, NoneAssumption DEF JobInv, RunningOwned, JobNamesTask
  <2>11. RunningOwned'
    BY <1>4, <2>7, <2>10 DEF AssignWorkers, JobInv, RunningOwned
  <2> QED
    BY <1>4, <2>8, <2>9, <2>11
    DEF AssignWorkers, JobInv, ListedEnded, ListedWorkers, ResetsListed,
        AliveKnown, HealthyStep
<1>5. ASSUME NEW t \in Tasks, CreateWorkerJob(t)
      PROVE  JobInv' /\ HealthyStep
  <2> DEFINE w == pairing[t]
  <2>1. /\ t \in NewTasks /\ taskWorker[t] = w /\ kjob[w] = "absent"
        /\ w \in Workers /\ taskStatus[t] = "IDLE"
    BY <1>5
    DEF CreateWorkerJob, JobInv, NewJobs, NewTasks, StatusInv, PickedTasks,
        TypeOK
  <2>2. /\ kjob' = [kjob EXCEPT ![w] = "running"]
        /\ ktask' = [ktask EXCEPT ![w] = t]
        /\ toSpawn' = toSpawn \ {t} /\ pc = "spawn" /\ pc' = "spawn"
        /\ UNCHANGED <<taskStatus, taskWorker, pairing>>
    BY <1>5 DEF CreateWorkerJob
  <2>3. kjob'[w] = "running" /\ ktask'[w] = t
    BY <2>1, <2>2 DEF TypeOK
  <2>4. \A v \in Workers : v # w => kjob'[v] = kjob[v] /\ ktask'[v] = ktask[v]
    BY <2>2 DEF TypeOK
  <2>5. \A s \in Tasks : taskWorker[s] = w => s = t
    BY <2>1, NoneAssumption DEF RowInv, WorkersExclusive
  <2> HIDE DEF w
  <2>6. JobNamesTask'
    BY <2>1, <2>2, <2>3, <2>4, <2>5 DEF JobInv, JobNamesTask
  <2>7. RunningOwned'
    BY <2>1, <2>2, <2>3, <2>4 DEF JobInv, RunningOwned
  <2>8. \A s \in NewTasks : s # t => taskWorker[s] # w
    BY <2>5 DEF NewTasks
  <2>9. NewJobs'
    <3>1. NewTasks' = NewTasks
      BY <2>2 DEF NewTasks
    <3>2. \A s \in NewTasks : s \in toSpawn' =>
            kjob'[taskWorker[s]] = "absent"
      BY <2>2, <2>4, <2>8 DEF JobInv, NewJobs, NewTasks, TypeOK
    <3> QED
      BY <2>2, <3>1, <3>2 DEF JobInv, NewJobs
  <2>10. /\ UNCHANGED <<successfulWorkers, failedWorkers, forcefulWorkers>>
         /\ UNCHANGED <<failedTasks, forcefulTasks, alive>>
    BY <1>5 DEF CreateWorkerJob
  <2>11. ListedEnded'
    BY <2>2, <2>10 DEF JobInv, ListedEnded, ListedWorkers
  <2> QED
    BY <2>2, <2>6, <2>7, <2>9, <2>10, <2>11
    DEF JobInv, ResetsListed, AliveKnown, HealthyStep
<1> QED
  BY <1>1, <1>2, <1>3, <1>4, <1>5 DEF Spawn

LEMMA JobAbort ==
  ASSUME TypeOK, JobInv, Abort
  PROVE  JobInv' /\ HealthyStep
  BY DEF Abort, NothingEnded, Listed, EndedTasks, JobInv, ListedEnded,
         ListedWorkers, ResetsListed, AliveKnown, JobNamesTask, RunningOwned,
         NewJobs, FinishPhases, HealthyStep, db, k8s

LEMMA JobClient ==
  ASSUME TypeOK, JobInv, Client
  PROVE  JobInv' /\ HealthyStep
<1>1. /\ UNCHANGED <<kjob, ktask, taskWorker, pc, alive, pairing, toSpawn>>
      /\ UNCHANGED <<successfulWorkers, failedWorkers, forcefulWorkers>>
      /\ UNCHANGED <<failedTasks, forcefulTasks>>
  BY DEF Client, SubmitJob, AddMapTasks, k8s, locals, finishedVars, orphanVars,
         spawnVars
<1>2. \A t \in Tasks : \/ taskStatus'[t] = taskStatus[t]
                       \/ taskStatus[t] = "NONE" /\ taskStatus'[t] = "IDLE"
  BY DEF Client, SubmitJob, AddMapTasks, Added
<1>3. JobInv'
  BY <1>1, <1>2, JobFrame
<1> QED
  BY <1>2, <1>3 DEF HealthyStep

LEMMA JobCluster ==
  ASSUME TypeOK, JobInv, Cluster
  PROVE  JobInv' /\ HealthyStep
<1>1. UNCHANGED <<taskStatus, taskWorker, pc, alive, pairing, toSpawn, finishedVars>>
  BY DEF Cluster, PodSucceeds, PodFails, PodKilled, PodEvicted, JobVanishes,
         JobDeleted, Gone, db, locals, orphanVars, spawnVars
<1>2. PICK w \in Workers : \/ PodSucceeds(w) \/ PodFails(w) \/ PodKilled(w)
                           \/ PodEvicted(w) \/ JobVanishes(w) \/ JobDeleted(w)
  BY DEF Cluster
<1>3. \A v \in Workers : v # w => kjob'[v] = kjob[v] /\ ktask'[v] = ktask[v]
  BY <1>2
  DEF PodSucceeds, PodFails, PodKilled, PodEvicted, JobVanishes,
      JobDeleted, Gone, Ends, TypeOK
<1>4. \/ Live(w) /\ kjob'[w] \in KJobState \ {"running"} /\ ktask'[w] = ktask[w]
      \/ kjob'[w] = "absent"
  BY <1>2
  DEF PodSucceeds, PodFails, PodKilled, PodEvicted, JobVanishes,
      JobDeleted, Gone, Ends, Live, KJobState, TypeOK
<1>5. \A v \in Workers :
        /\ kjob'[v] # "absent" => ktask'[v] = ktask[v]
        /\ kjob'[v] = "running" => kjob[v] = "running"
        /\ kjob[v] = "absent" => kjob'[v] = "absent"
        /\ kjob[v] = "succeeded" => kjob'[v] \in {"succeeded", "absent"}
  BY <1>3, <1>4 DEF Live
<1>6. JobInv'
  BY <1>1, <1>5, JobsEnd
<1> QED
  BY <1>1, <1>6 DEF HealthyStep

LEMMA JobStep ==
  ASSUME TypeOK, RowInv, StatusInv, JobInv, [Next]_vars
  PROVE  JobInv' /\ [HealthyStep]_vars
<1>1. CASE Next
  BY <1>1, JobFinish, JobRecover, JobMerge, JobSpawn, JobAbort, JobClient,
     JobCluster DEF Next, Tick
<1>2. CASE UNCHANGED vars
  BY <1>2, JobFrame
  DEF vars, db, k8s, locals, finishedVars, orphanVars, mergeVars, spawnVars
<1> QED
  BY <1>1, <1>2

\* What a list of Jobs said still holds while the tick acts on it, and a Job
\* that runs undisturbed is the one that its task names.
THEOREM JobInvariant == Spec => []JobInv
<1>1. TypeOK /\ RowInv /\ StatusInv /\ JobInv /\ [Next]_vars => JobInv'
  BY JobStep
<1> QED
  BY <1>1, InitJob, TypeCorrect, RowInvariant, StatusInvariant, PTL DEF Spec

\* No step takes a task back from a pod that runs undisturbed, whatever
\* Kubernetes answers and whenever a tick dies.
THEOREM HealthyWorkersKeepTasks == Spec => HealthyWorkerNeverReset
<1>1. TypeOK /\ RowInv /\ StatusInv /\ JobInv /\ [Next]_vars => [HealthyStep]_vars
  BY JobStep
<1> QED
  BY <1>1, TypeCorrect, RowInvariant, StatusInvariant, JobInvariant, PTL
  DEF Spec, HealthyWorkerNeverReset

----
\* A step after which a Job is retrying only if it was live, that takes tasks
\* only from Jobs that are not live and that stays in its part of the tick.
LEMMA RetryingFrame ==
  ASSUME JobInv, RetryingOwned, UNCHANGED <<failedWorkers, forcefulWorkers>>,
         \A w \in Workers \ deleting' : kjob'[w] = "retrying" =>
           w \notin deleting /\ Live(w) /\ ktask'[w] = ktask[w],
         \A t \in Tasks : \/ taskWorker'[t] = taskWorker[t]
                          \/ \A w \in Workers : taskWorker[t] = w => ~Live(w),
         \/ pc' = pc
         \/ pc' = "sleep"
         \/ pc \notin FinishPhases \cup {"sleep"}
         \/ pc \in FinishPhases /\ pc' \in FinishPhases
  PROVE  RetryingOwned'
<1> SUFFICES ASSUME NEW w \in Workers \ deleting', kjob'[w] = "retrying",
                    pc' # "sleep"
             PROVE  \/ taskWorker'[ktask'[w]] = w
                    \/ pc' \in FinishPhases /\ w \in failedWorkers \cup forcefulWorkers
  BY DEF RetryingOwned
<1>1. w \notin deleting /\ Live(w) /\ ktask'[w] = ktask[w]
  OBVIOUS
<1>2. ktask[w] \in Tasks
  BY <1>1 DEF Live, JobInv, JobNamesTask
<1>3. CASE taskWorker[ktask[w]] = w
  BY <1>1, <1>2, <1>3
<1>4. CASE taskWorker[ktask[w]] # w
  <2>1. kjob[w] = "retrying"
    BY <1>1, <1>4 DEF Live, JobInv, RunningOwned
  <2> QED
    BY <1>1, <1>4, <2>1 DEF RetryingOwned, FinishPhases
<1> QED
  BY <1>3, <1>4

LEMMA RetryingFinish ==
  ASSUME "api" \notin Faults, TypeOK, RowInv, JobInv, RetryingOwned, Finish
  PROVE  RetryingOwned'
<1> USE DEF db, k8s, finishedVars, locals, FinishPhases, Live
<1>1. CASE ListFinished \/ ReadExitCodes
  <2>1. UNCHANGED <<kjob, ktask, deleting, taskWorker>> /\ pc' \in {"pods", "ended"}
    BY <1>1 DEF ListFinished, ReadExitCodes
  <2>2. CASE ListFinished
    <3>1. forcefulWorkers' = FailedJobs
      BY <2>2 DEF ListFinished, Listed
    <3> QED
      BY <2>1, <3>1 DEF FailedJobs, RetryingOwned
  <2>3. CASE ReadExitCodes
    <3>1. /\ failedWorkers' \cup forcefulWorkers' = failedWorkers \cup forcefulWorkers
          /\ pc = "pods"
      BY <2>3 DEF ReadExitCodes, Listed
    <3> QED
      BY <2>1, <3>1 DEF RetryingOwned
  <2> QED
    BY <1>1, <2>2, <2>3
<1>2. CASE ClearWorkers
  <2>1. \A t \in Tasks : \/ taskWorker'[t] = taskWorker[t]
                         \/ t \in RunBy(successfulWorkers)
    BY <1>2 DEF ClearWorkers, Cleared, RowInv, SuccessesReleased
  <2>2. \A w \in successfulWorkers : ~Live(w)
    BY DEF JobInv, ListedEnded
  <2> QED
    BY <1>2, <2>1, <2>2, RetryingFrame DEF ClearWorkers, RunBy
<1>3. ASSUME NEW t \in Tasks, FailTask(t) \/ ResetForceful(t)
      PROVE  RetryingOwned'
  <2>1. taskWorker[t] \in failedWorkers \cup forcefulWorkers \cup {None}
    BY <1>3 DEF FailTask, ResetForceful, JobInv, ResetsListed
  <2>2. \A s \in Tasks : s # t => taskWorker'[s] = taskWorker[s]
    BY <1>3 DEF FailTask, ResetForceful, Reset, TypeOK
  <2>3. /\ UNCHANGED <<kjob, ktask, deleting, failedWorkers, forcefulWorkers, pc>>
        /\ pc \in FinishPhases
    BY <1>3 DEF FailTask, ResetForceful
  <2> QED
    BY <2>1, <2>2, <2>3, NoneAssumption
    DEF RetryingOwned, JobInv, JobNamesTask
<1>4. CASE DeleteWorkerJobs
  <2>1. /\ UNCHANGED <<kjob, ktask, taskWorker>>
        /\ deleting' = deleting \cup (ListedWorkers \cap ExistingJobs)
    BY <1>4 DEF DeleteWorkerJobs
  <2>2. \A w \in Workers \ deleting' : kjob[w] = "retrying" =>
          w \notin deleting /\ w \notin failedWorkers \cup forcefulWorkers
    BY <2>1 DEF ListedWorkers, ExistingJobs
  <2>3. pc = "k8s_delete"
    BY <1>4 DEF DeleteWorkerJobs
  <2> QED
    BY <2>1, <2>2, <2>3 DEF RetryingOwned
<1>5. CASE \/ ReadEndedTasks \/ DeleteWorkers \/ CompleteTasks
           \/ FailTasksDone \/ ResetForcefulDone
  BY <1>5, RetryingFrame
  DEF ReadEndedTasks, DeleteWorkers, CompleteTasks, FailTasksDone,
      ResetForcefulDone
<1> QED
  BY <1>1, <1>2, <1>3, <1>4, <1>5 DEF Finish, ListFinishedFails

\* While calls to Kubernetes succeed, a retrying Job that lost its task is told
\* to go before the tick comes to spawn.
LEMMA RetryingStep ==
  ASSUME "api" \notin Faults, TypeOK, RowInv, StatusInv, JobInv, RetryingOwned,
         [Next]_vars
  PROVE  RetryingOwned'
<1> USE DEF db, k8s, finishedVars, orphanVars, mergeVars, spawnVars, locals, Live,
            FinishPhases
<1>1. CASE Recover
  <2>1. CASE \E t \in Tasks : RecoverTask(t) /\ taskWorker' # taskWorker
    <3>1. PICK t \in Tasks : RecoverTask(t) /\ taskWorker' # taskWorker
      BY <2>1
    <3>2. Respawn(t) /\ Remembered(orphanWorker, t) \notin alive /\ pc = "recover"
      BY <3>1 DEF RecoverTask, Orphaned
    <3>3. \A s \in Tasks : s # t => taskWorker'[s] = taskWorker[s]
      BY <3>2 DEF Respawn, Reset, TypeOK
    <3>4. \A w \in Workers : taskWorker[t] = w => kjob[w] = "absent"
      BY <3>2
      DEF Remembered, RowInv, WorkerMemory, JobInv, AliveKnown, ExistingJobs
    <3> QED
      BY <3>1, <3>2, <3>3, <3>4, RetryingFrame DEF RecoverTask
  <2>2. CASE UNCHANGED taskWorker
    BY <1>1, <2>2, RetryingFrame
    DEF Recover, ListAlive, ListAliveFails, ReadOrphans, RecoverTask, RecoverDone
  <2> QED
    BY <1>1, <2>1, <2>2
    DEF Recover, ListAlive, ListAliveFails, ReadOrphans, RecoverDone
<1>2. CASE Merge
  BY <1>2, RetryingFrame
  DEF Merge, Visit, ReadMergeJobs, SkipJob, PartitionMaps, AddReduceTasks,
      WriteFinal, CleanupJobFiles, CompleteJob, MergeRaises, MergeDone,
      PartitionUnread, OutputInvalid, CommitFails
<1>3. CASE AssignWorkers
  <2>1. \A t \in Tasks : taskWorker[t] # None => taskWorker'[t] = taskWorker[t]
    BY <1>3 DEF AssignWorkers
  <2> QED
    BY <1>3, <2>1, RetryingFrame, NoneAssumption DEF AssignWorkers
<1>4. ASSUME NEW t \in Tasks, CreateWorkerJob(t)
      PROVE  RetryingOwned'
  <2>1. \A w \in Workers : kjob'[w] = "retrying" =>
          kjob[w] = "retrying" /\ ktask'[w] = ktask[w]
    BY <1>4 DEF CreateWorkerJob, TypeOK
  <2> QED
    BY <1>4, <2>1, RetryingFrame DEF CreateWorkerJob
<1>5. CASE \/ PickNothing \/ ReadIdle \/ AddWorkers \/ AddWorkersRaises
           \/ SpawnDone \/ ActivateWorkers \/ StartTasks \/ RunJobs
  BY <1>5, RetryingFrame
  DEF PickNothing, ReadIdle, AddWorkers, AddWorkersRaises, SpawnDone,
      ActivateWorkers, StartTasks, RunJobs
<1>6. CASE Abort
  BY <1>6 DEF Abort, RetryingOwned
<1>7. CASE Client
  BY <1>7, RetryingFrame DEF Client, SubmitJob, AddMapTasks
<1>8. CASE Cluster
  <2>1. \A w \in Workers \ deleting' : kjob'[w] = "retrying" =>
          /\ w \notin deleting
          /\ kjob[w] \in {"running", "retrying"} /\ ktask'[w] = ktask[w]
    BY <1>8
    DEF Cluster, PodSucceeds, PodFails, PodKilled, PodEvicted, JobVanishes,
        JobDeleted, Gone, Ends, TypeOK
  <2>2. UNCHANGED <<taskWorker, pc, failedWorkers, forcefulWorkers>>
    BY <1>8
    DEF Cluster, PodSucceeds, PodFails, PodKilled, PodEvicted, JobVanishes,
        JobDeleted, Gone
  <2> QED
    BY <2>1, <2>2, RetryingFrame
<1>9. CASE UNCHANGED vars
  BY <1>9, RetryingFrame DEF vars
<1> QED
  BY <1>1, <1>2, <1>3, <1>4, <1>5, <1>6, <1>7, <1>8, <1>9, RetryingFinish
  DEF Next, Tick, Spawn

LEMMA RetryingInvariant ==
  ASSUME "api" \notin Faults
  PROVE  Spec => []RetryingOwned
<1>1. Init => RetryingOwned
  BY DEF Init, RetryingOwned
<1>2. TypeOK /\ RowInv /\ StatusInv /\ JobInv /\ RetryingOwned /\ [Next]_vars
        => RetryingOwned'
  BY RetryingStep
<1> QED
  BY <1>1, <1>2, TypeCorrect, RowInvariant, StatusInvariant, JobInvariant, PTL
  DEF Spec

LEMMA DoubleSpawnStep ==
  ASSUME TypeOK, RowInv, StatusInv, JobInv, RetryingOwned, NoDoubleSpawn,
         [Next]_vars
  PROVE  NoDoubleSpawn'
<1>1. ASSUME NEW t \in Tasks, CreateWorkerJob(t)
      PROVE  NoDoubleSpawn'
  <2> DEFINE w == pairing[t]
  <2>1. taskWorker[t] = w /\ kjob[w] = "absent" /\ w \in Workers
    BY <1>1 DEF CreateWorkerJob, JobInv, NewJobs, NewTasks, TypeOK
  <2>2. \A v \in Workers \ deleting : Live(v) => ktask[v] # t
    BY <1>1, <2>1
    DEF CreateWorkerJob, JobInv, RunningOwned, RetryingOwned, Live, FinishPhases
  <2>3. \A v \in Workers : v # w => kjob'[v] = kjob[v] /\ ktask'[v] = ktask[v]
    BY <1>1 DEF CreateWorkerJob, TypeOK
  <2>4. ktask'[w] = t /\ deleting' = deleting
    BY <1>1, <2>1 DEF CreateWorkerJob, TypeOK
  <2> HIDE DEF w
  <2> QED
    BY <2>2, <2>3, <2>4 DEF NoDoubleSpawn, Live
<1>2. CASE \A w \in Workers \ deleting' : Live(w)' =>
             w \notin deleting /\ Live(w) /\ ktask'[w] = ktask[w]
  BY <1>2 DEF NoDoubleSpawn
<1>3. CASE Finish \/ Abort \/ Cluster
  <2>1. \A w \in Workers \ deleting' : Live(w)' =>
          w \notin deleting /\ Live(w) /\ ktask'[w] = ktask[w]
    BY <1>3
    DEF Finish, ListFinished, ReadExitCodes, ListFinishedFails, ReadEndedTasks,
        ClearWorkers, DeleteWorkers, CompleteTasks, FailTask, ResetForceful,
        FailTasksDone, ResetForcefulDone, DeleteWorkerJobs, Abort, Cluster,
        PodSucceeds, PodFails, PodKilled, PodEvicted, JobVanishes, JobDeleted,
        Gone, Ends, Live, TypeOK, k8s
  <2> QED
    BY <1>2, <2>1
<1>4. CASE \/ Recover \/ Merge \/ Client \/ UNCHANGED vars
           \/ Spawn /\ ~\E t \in Tasks : CreateWorkerJob(t)
  <2>1. UNCHANGED k8s
    BY <1>4
    DEF Recover, ListAlive, ListAliveFails, ReadOrphans, RecoverTask,
        RecoverDone, Merge, ReadMergeJobs, SkipJob, PartitionMaps,
        AddReduceTasks, WriteFinal, CleanupJobFiles, CompleteJob, MergeRaises,
        MergeDone, Client, SubmitJob, AddMapTasks, Spawn, PickNothing,
        ReadIdle, AddWorkers, AddWorkersRaises, AssignWorkers, SpawnDone,
        ActivateWorkers, StartTasks, RunJobs, vars, k8s
  <2> QED
    BY <1>2, <2>1 DEF Live, k8s
<1> QED
  BY <1>1, <1>3, <1>4 DEF Next, Tick

\* While calls to Kubernetes succeed, no task has two live Kubernetes Jobs neither
\* of which was told to go: the deletion of the one is requested before the other
\* is created.  A deletion that is still going on is not excluded.
THEOREM OneLiveJobPerTask ==
  ASSUME "api" \notin Faults
  PROVE  Spec => []NoDoubleSpawn
<1>1. Init => NoDoubleSpawn
  BY DEF Init, NoDoubleSpawn, Live
<1>2. TypeOK /\ RowInv /\ StatusInv /\ JobInv /\ RetryingOwned /\ NoDoubleSpawn
        /\ [Next]_vars => NoDoubleSpawn'
  BY DoubleSpawnStep
<1> QED
  BY <1>1, <1>2, TypeCorrect, RowInvariant, StatusInvariant, JobInvariant,
     RetryingInvariant, PTL DEF Spec
=============================================================================
