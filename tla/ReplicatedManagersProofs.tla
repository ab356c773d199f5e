----------------------- MODULE ReplicatedManagersProofs -----------------------
(***************************************************************************)
(* Theorems about two replicas of the manager, for any jobs, tasks,        *)
(* workers, limits, faults and number of dead ticks.                       *)
(***************************************************************************)
EXTENDS ReplicatedManagers, TLAPS

\* The lemmas of SchedulerProofs about a step of one tick, for each replica.
PA == INSTANCE SchedulerProofs
  WITH pc <- pcA, successfulWorkers <- successfulWorkersA,
       failedWorkers <- failedWorkersA, forcefulWorkers <- forcefulWorkersA,
       successfulTasks <- successfulTasksA, failedTasks <- failedTasksA,
       forcefulTasks <- forcefulTasksA, endedWorker <- endedWorkerA,
       alive <- aliveA, candidates <- candidatesA,
       orphanWorker <- orphanWorkerA, mergeJobs <- mergeJobsA,
       jobRead <- jobReadA, current <- currentA, pairing <- pairingA,
       toSpawn <- toSpawnA

PB == INSTANCE SchedulerProofs
  WITH pc <- pcB, successfulWorkers <- successfulWorkersB,
       failedWorkers <- failedWorkersB, forcefulWorkers <- forcefulWorkersB,
       successfulTasks <- successfulTasksB, failedTasks <- failedTasksB,
       forcefulTasks <- forcefulTasksB, endedWorker <- endedWorkerB,
       alive <- aliveB, candidates <- candidatesB,
       orphanWorker <- orphanWorkerB, mergeJobs <- mergeJobsB,
       jobRead <- jobReadB, current <- currentB, pairing <- pairingB,
       toSpawn <- toSpawnB

\* The provers do not see that two instances of one module say the same, so the
\* definitions of both are expanded once, here.
LEMMA SameStatesA ==
  /\ A!TypeOK <=> PA!TypeOK
  /\ A!TypeOK' <=> PA!TypeOK'
  /\ A!PlannedOnly <=> PA!PlannedOnly
  /\ A!PlannedOnly' <=> PA!PlannedOnly'
  /\ A!LockHeld <=> PA!LockHeld
  /\ A!LockHeld' <=> PA!LockHeld'
  /\ A!MergedParts <=> PA!MergedParts
  /\ A!MergedParts' <=> PA!MergedParts'
  BY DEF
      A!Tasks, A!MapsOf, A!ReducesOf, A!JobStatus, A!TaskStatus, A!KJobState,
      A!Phases, A!Content, A!Exists, A!NewTasks, A!Reducing, A!PartsGone,
      A!TypeOK, A!PlannedOnly, A!LockHeld, A!MergedParts, PA!Tasks, PA!MapsOf,
      PA!ReducesOf, PA!JobStatus, PA!TaskStatus, PA!KJobState, PA!Phases,
      PA!Content, PA!Exists, PA!NewTasks, PA!Reducing, PA!PartsGone, PA!TypeOK,
      PA!PlannedOnly, PA!LockHeld, PA!MergedParts

LEMMA SameStepsA ==
  /\ A!Tick <=> PA!Tick
  /\ A!Client <=> PA!Client
  /\ A!Cluster <=> PA!Cluster
  /\ A!Abort <=> PA!Abort
  BY DEF
      A!Cardinality, A!Tasks, A!MapsOf, A!ReducesOf, A!db, A!k8s, A!minio,
      A!finishedVars, A!orphanVars, A!mergeVars, A!spawnVars, A!locals,
      A!NoTaskRead, A!NoJobRead, A!SubmitJob, A!Added, A!AddMapTasks, A!RunBy,
      A!ReadBySession, A!Listed, A!EndedTasks, A!NothingEnded, A!SucceededJobs,
      A!FailedJobs, A!ListFinished, A!ExitedBelow128, A!ReadExitCodes,
      A!ListFinishedFails, A!ReadEndedTasks, A!Cleared, A!ClearWorkers,
      A!DeleteRows, A!DeleteWorkers, A!SetStatus, A!CompleteTasks, A!Remembered,
      A!Reset, A!Resettable, A!FailTask, A!FailTasksDone, A!ResetForceful,
      A!ResetForcefulDone, A!ListedWorkers, A!DeleteWorkerJobs, A!ExistingJobs,
      A!Orphans, A!ListAlive, A!AliveUnknown, A!ListAliveFails, A!ReadOrphans,
      A!Orphaned, A!Respawn, A!RecoverTask, A!RecoverDone, A!AllCompleted,
      A!MapsDone, A!ReadMergeJobs, A!StatusRead, A!Open, A!Reducing,
      A!ReducesDone, A!Shufflable, A!Finalizable, A!ObjectsThere,
      A!MapOutputsValid, A!ReducersValid, A!Merged, A!Raises, A!Visit, A!Kept,
      A!SkipJob, A!PartitionMaps, A!AddReduceTasks, A!WriteFinal, A!TasksOf,
      A!Without, A!CleanupJobFiles, A!CompleteJob, A!PartitionUnread,
      A!OutputInvalid, A!CommitFails, A!MergeRaises, A!MergeDone, A!ActiveCount,
      A!Room, A!IdleTasks, A!Batches, A!FreshWorkers, A!Pairings, A!NewTasks,
      A!NewWorkers, A!Paired, A!Named, A!NameTaken, A!PickNothing, A!ReadIdle,
      A!AddWorkers, A!AddWorkersRaises, A!AssignWorkers, A!CreateWorkerJob,
      A!SpawnDone, A!ActivateWorkers, A!StartTasks, A!RunningJobs, A!RunJobs,
      A!Live, A!Ends, A!Uploads, A!MayUpload, A!PodSucceeds, A!PodFails,
      A!PodKilled, A!PodEvicted, A!JobVanishes, A!JobDeleted, A!Gone, A!Finish,
      A!Recover, A!Merge, A!Spawn, A!Tick, A!Client, A!Cluster, A!Abort,
      PA!Cardinality, PA!Tasks, PA!MapsOf, PA!ReducesOf, PA!db, PA!k8s, PA!minio,
      PA!finishedVars, PA!orphanVars, PA!mergeVars, PA!spawnVars, PA!locals,
      PA!NoTaskRead, PA!NoJobRead, PA!SubmitJob, PA!Added, PA!AddMapTasks,
      PA!RunBy, PA!ReadBySession, PA!Listed, PA!EndedTasks, PA!NothingEnded,
      PA!SucceededJobs, PA!FailedJobs, PA!ListFinished, PA!ExitedBelow128,
      PA!ReadExitCodes, PA!ListFinishedFails, PA!ReadEndedTasks, PA!Cleared,
      PA!ClearWorkers, PA!DeleteRows, PA!DeleteWorkers, PA!SetStatus,
      PA!CompleteTasks, PA!Remembered, PA!Reset, PA!Resettable, PA!FailTask,
      PA!FailTasksDone, PA!ResetForceful, PA!ResetForcefulDone, PA!ListedWorkers,
      PA!DeleteWorkerJobs, PA!ExistingJobs, PA!Orphans, PA!ListAlive,
      PA!AliveUnknown, PA!ListAliveFails, PA!ReadOrphans, PA!Orphaned, PA!Respawn,
      PA!RecoverTask, PA!RecoverDone, PA!AllCompleted, PA!MapsDone,
      PA!ReadMergeJobs, PA!StatusRead, PA!Open, PA!Reducing, PA!ReducesDone,
      PA!Shufflable, PA!Finalizable, PA!ObjectsThere, PA!MapOutputsValid,
      PA!ReducersValid, PA!Merged, PA!Raises, PA!Visit, PA!Kept, PA!SkipJob,
      PA!PartitionMaps, PA!AddReduceTasks, PA!WriteFinal, PA!TasksOf, PA!Without,
      PA!CleanupJobFiles, PA!CompleteJob, PA!PartitionUnread, PA!OutputInvalid,
      PA!CommitFails, PA!MergeRaises, PA!MergeDone, PA!ActiveCount, PA!Room,
      PA!IdleTasks, PA!Batches, PA!FreshWorkers, PA!Pairings, PA!NewTasks,
      PA!NewWorkers, PA!Paired, PA!Named, PA!NameTaken, PA!PickNothing,
      PA!ReadIdle, PA!AddWorkers, PA!AddWorkersRaises, PA!AssignWorkers,
      PA!CreateWorkerJob, PA!SpawnDone, PA!ActivateWorkers, PA!StartTasks,
      PA!RunningJobs, PA!RunJobs, PA!Live, PA!Ends, PA!Uploads, PA!MayUpload,
      PA!PodSucceeds, PA!PodFails, PA!PodKilled, PA!PodEvicted, PA!JobVanishes,
      PA!JobDeleted, PA!Gone, PA!Finish, PA!Recover, PA!Merge, PA!Spawn, PA!Tick,
      PA!Client, PA!Cluster, PA!Abort

LEMMA SameStatesB ==
  /\ B!TypeOK <=> PB!TypeOK
  /\ B!TypeOK' <=> PB!TypeOK'
  /\ B!PlannedOnly <=> PB!PlannedOnly
  /\ B!PlannedOnly' <=> PB!PlannedOnly'
  /\ B!LockHeld <=> PB!LockHeld
  /\ B!LockHeld' <=> PB!LockHeld'
  /\ B!MergedParts <=> PB!MergedParts
  /\ B!MergedParts' <=> PB!MergedParts'
  BY DEF
      B!Tasks, B!MapsOf, B!ReducesOf, B!JobStatus, B!TaskStatus, B!KJobState,
      B!Phases, B!Content, B!Exists, B!NewTasks, B!Reducing, B!PartsGone,
      B!TypeOK, B!PlannedOnly, B!LockHeld, B!MergedParts, PB!Tasks, PB!MapsOf,
      PB!ReducesOf, PB!JobStatus, PB!TaskStatus, PB!KJobState, PB!Phases,
      PB!Content, PB!Exists, PB!NewTasks, PB!Reducing, PB!PartsGone, PB!TypeOK,
      PB!PlannedOnly, PB!LockHeld, PB!MergedParts

LEMMA SameStepsB ==
  /\ B!Tick <=> PB!Tick
  /\ B!Client <=> PB!Client
  /\ B!Cluster <=> PB!Cluster
  /\ B!Abort <=> PB!Abort
  BY DEF
      B!Cardinality, B!Tasks, B!MapsOf, B!ReducesOf, B!db, B!k8s, B!minio,
      B!finishedVars, B!orphanVars, B!mergeVars, B!spawnVars, B!locals,
      B!NoTaskRead, B!NoJobRead, B!SubmitJob, B!Added, B!AddMapTasks, B!RunBy,
      B!ReadBySession, B!Listed, B!EndedTasks, B!NothingEnded, B!SucceededJobs,
      B!FailedJobs, B!ListFinished, B!ExitedBelow128, B!ReadExitCodes,
      B!ListFinishedFails, B!ReadEndedTasks, B!Cleared, B!ClearWorkers,
      B!DeleteRows, B!DeleteWorkers, B!SetStatus, B!CompleteTasks, B!Remembered,
      B!Reset, B!Resettable, B!FailTask, B!FailTasksDone, B!ResetForceful,
      B!ResetForcefulDone, B!ListedWorkers, B!DeleteWorkerJobs, B!ExistingJobs,
      B!Orphans, B!ListAlive, B!AliveUnknown, B!ListAliveFails, B!ReadOrphans,
      B!Orphaned, B!Respawn, B!RecoverTask, B!RecoverDone, B!AllCompleted,
      B!MapsDone, B!ReadMergeJobs, B!StatusRead, B!Open, B!Reducing,
      B!ReducesDone, B!Shufflable, B!Finalizable, B!ObjectsThere,
      B!MapOutputsValid, B!ReducersValid, B!Merged, B!Raises, B!Visit, B!Kept,
      B!SkipJob, B!PartitionMaps, B!AddReduceTasks, B!WriteFinal, B!TasksOf,
      B!Without, B!CleanupJobFiles, B!CompleteJob, B!PartitionUnread,
      B!OutputInvalid, B!CommitFails, B!MergeRaises, B!MergeDone, B!ActiveCount,
      B!Room, B!IdleTasks, B!Batches, B!FreshWorkers, B!Pairings, B!NewTasks,
      B!NewWorkers, B!Paired, B!Named, B!NameTaken, B!PickNothing, B!ReadIdle,
      B!AddWorkers, B!AddWorkersRaises, B!AssignWorkers, B!CreateWorkerJob,
      B!SpawnDone, B!ActivateWorkers, B!StartTasks, B!RunningJobs, B!RunJobs,
      B!Live, B!Ends, B!Uploads, B!MayUpload, B!PodSucceeds, B!PodFails,
      B!PodKilled, B!PodEvicted, B!JobVanishes, B!JobDeleted, B!Gone, B!Finish,
      B!Recover, B!Merge, B!Spawn, B!Tick, B!Client, B!Cluster, B!Abort,
      PB!Cardinality, PB!Tasks, PB!MapsOf, PB!ReducesOf, PB!db, PB!k8s, PB!minio,
      PB!finishedVars, PB!orphanVars, PB!mergeVars, PB!spawnVars, PB!locals,
      PB!NoTaskRead, PB!NoJobRead, PB!SubmitJob, PB!Added, PB!AddMapTasks,
      PB!RunBy, PB!ReadBySession, PB!Listed, PB!EndedTasks, PB!NothingEnded,
      PB!SucceededJobs, PB!FailedJobs, PB!ListFinished, PB!ExitedBelow128,
      PB!ReadExitCodes, PB!ListFinishedFails, PB!ReadEndedTasks, PB!Cleared,
      PB!ClearWorkers, PB!DeleteRows, PB!DeleteWorkers, PB!SetStatus,
      PB!CompleteTasks, PB!Remembered, PB!Reset, PB!Resettable, PB!FailTask,
      PB!FailTasksDone, PB!ResetForceful, PB!ResetForcefulDone, PB!ListedWorkers,
      PB!DeleteWorkerJobs, PB!ExistingJobs, PB!Orphans, PB!ListAlive,
      PB!AliveUnknown, PB!ListAliveFails, PB!ReadOrphans, PB!Orphaned, PB!Respawn,
      PB!RecoverTask, PB!RecoverDone, PB!AllCompleted, PB!MapsDone,
      PB!ReadMergeJobs, PB!StatusRead, PB!Open, PB!Reducing, PB!ReducesDone,
      PB!Shufflable, PB!Finalizable, PB!ObjectsThere, PB!MapOutputsValid,
      PB!ReducersValid, PB!Merged, PB!Raises, PB!Visit, PB!Kept, PB!SkipJob,
      PB!PartitionMaps, PB!AddReduceTasks, PB!WriteFinal, PB!TasksOf, PB!Without,
      PB!CleanupJobFiles, PB!CompleteJob, PB!PartitionUnread, PB!OutputInvalid,
      PB!CommitFails, PB!MergeRaises, PB!MergeDone, PB!ActiveCount, PB!Room,
      PB!IdleTasks, PB!Batches, PB!FreshWorkers, PB!Pairings, PB!NewTasks,
      PB!NewWorkers, PB!Paired, PB!Named, PB!NameTaken, PB!PickNothing,
      PB!ReadIdle, PB!AddWorkers, PB!AddWorkersRaises, PB!AssignWorkers,
      PB!CreateWorkerJob, PB!SpawnDone, PB!ActivateWorkers, PB!StartTasks,
      PB!RunningJobs, PB!RunJobs, PB!Live, PB!Ends, PB!Uploads, PB!MayUpload,
      PB!PodSucceeds, PB!PodFails, PB!PodKilled, PB!PodEvicted, PB!JobVanishes,
      PB!JobDeleted, PB!Gone, PB!Finish, PB!Recover, PB!Merge, PB!Spawn, PB!Tick,
      PB!Client, PB!Cluster, PB!Abort

LEMMA AssumptionsA ==
  /\ PA!TasksAssumption /\ PA!NoneAssumption
  /\ PA!FiniteAssumption /\ PA!BoundsAssumption
  BY TasksAssumption, NoneAssumption, FiniteAssumption, BoundsAssumption
  DEF PA!Tasks, PA!MapsOf, PA!ReducesOf, PA!FaultKinds, PA!IsFiniteSet,
      IsFiniteSet, PA!TasksAssumption, PA!NoneAssumption, PA!FiniteAssumption,
      PA!BoundsAssumption

\* What the lemmas of SchedulerProofs say of a tick of A.
LEMMA TickFactsA ==
  ASSUME A!TypeOK, A!PlannedOnly, A!LockHeld, A!Tick
  PROVE  /\ A!TypeOK' /\ A!PlannedOnly' /\ A!LockHeld' /\ PA!TasksStay
         /\ \/ currentA' \in {currentA, None}
            \/ currentA' \in mergeJobsA \ mergeJobsA'
         /\ \A t \in PA!Tasks :
              taskStatus[t] = "NONE" /\ taskStatus'[t] # "NONE" =>
                pcA = "partitioned" /\ t \in PA!ReducesOf(currentA)
         /\ pcA' = "partitioned" =>
              \A t \in PA!ReducesOf(currentA') : taskStatus'[t] = "NONE"
<1>1. PA!TypeOK /\ PA!PlannedOnly /\ PA!LockHeld /\ PA!Tick
  BY SameStatesA, SameStepsA
<1>2. A!TypeOK'
  BY <1>1, AssumptionsA, PA!TypeStep, SameStatesA DEF PA!Next
<1>3. A!PlannedOnly' /\ PA!TasksStay
  BY <1>1, AssumptionsA, PA!PlanTick, SameStatesA
<1>4. /\ A!LockHeld'
      /\ \/ currentA' \in {currentA, None}
         \/ currentA' \in mergeJobsA \ mergeJobsA'
  BY <1>1, AssumptionsA, PA!LockTick, SameStatesA
<1>5. \A t \in PA!Tasks :
        taskStatus[t] = "NONE" /\ taskStatus'[t] # "NONE" =>
          pcA = "partitioned" /\ t \in PA!ReducesOf(currentA)
  BY <1>1, AssumptionsA, PA!AddedUnderLock
<1>6. pcA' = "partitioned" =>
        \A t \in PA!ReducesOf(currentA') : taskStatus'[t] = "NONE"
  BY <1>1, AssumptionsA, PA!ShuffledUnreduced
<1> QED
  BY <1>2, <1>3, <1>4, <1>5, <1>6

\* Steps that leave the locals of B alone and remove no task leave what B knows
\* in place.
LEMMA KnownStaysB ==
  ASSUME A!TypeOK', A!PlannedOnly', PA!TasksStay, UNCHANGED localsB,
         B!TypeOK, B!PlannedOnly, B!LockHeld
  PROVE  B!TypeOK' /\ B!PlannedOnly' /\ B!LockHeld'
<1> USE DEF localsB
<1>1. B!TypeOK'
  BY DEF A!TypeOK, B!TypeOK, A!Tasks, B!Tasks, A!JobStatus, B!JobStatus,
         A!TaskStatus, B!TaskStatus, A!KJobState, B!KJobState, A!Content,
         B!Content, B!Phases
<1>2. B!PlannedOnly'
  <2>1. \A t \in successfulTasksB \cup toSpawnB \cup B!NewTasks : t \in B!Tasks
    BY DEF B!TypeOK, B!NewTasks
  <2>2. \A t \in B!Tasks : taskWorker'[t] # None => taskStatus'[t] # "NONE"
    BY DEF A!PlannedOnly, A!Tasks, B!Tasks
  <2>3. \A t \in B!Tasks : taskStatus[t] # "NONE" => taskStatus'[t] # "NONE"
    BY DEF PA!TasksStay, PA!Tasks, B!Tasks
  <2>4. B!NewTasks' = B!NewTasks
    BY DEF B!NewTasks
  <2> QED
    BY <2>1, <2>2, <2>3, <2>4 DEF B!PlannedOnly, B!Exists
<1>3. B!LockHeld'
  BY DEF B!LockHeld
<1> QED
  BY <1>1, <1>2, <1>3

\* The shuffles of A leave alone the jobs that B holds.
LEMMA ShuffleTickA ==
  ASSUME ShuffleInv, TickA
  PROVE  ShuffleInv'
<1> USE DEF ShuffleInv, TickA, localsB
<1>1. /\ A!TypeOK' /\ A!PlannedOnly' /\ A!LockHeld' /\ PA!TasksStay
      /\ \/ currentA' \in {currentA, None}
         \/ currentA' \in mergeJobsA \ mergeJobsA'
      /\ \A t \in PA!Tasks :
           taskStatus[t] = "NONE" /\ taskStatus'[t] # "NONE" =>
             pcA = "partitioned" /\ t \in PA!ReducesOf(currentA)
      /\ pcA' = "partitioned" =>
           \A t \in PA!ReducesOf(currentA') : taskStatus'[t] = "NONE"
  BY TickFactsA
<1>2. B!TypeOK' /\ B!PlannedOnly' /\ B!LockHeld'
  BY <1>1, KnownStaysB
<1>3. LocksExclusive'
  <2>1. CASE currentA' \in mergeJobsA \ mergeJobsA'
    <3>1. currentA' \in Jobs
      BY <2>1 DEF A!TypeOK
    <3> QED
      BY <2>1, <3>1 DEF Waits, LocksExclusive
  <2> QED
    BY <1>1, <2>1 DEF LocksExclusive
<1>4. ReducersCreatedOnce'
  <2>1. pcA' = "partitioned" =>
          \A t \in A!ReducesOf(currentA') : taskStatus'[t] = "NONE"
    BY <1>1 DEF A!ReducesOf, PA!ReducesOf
  <2>2. ASSUME pcB = "partitioned", NEW t \in B!ReducesOf(currentB)
        PROVE  taskStatus'[t] = "NONE"
    <3>1. t \in PA!Tasks /\ JobOf[t] = currentB
      BY <2>2 DEF B!ReducesOf, PA!Tasks
    <3>2. taskStatus[t] = "NONE"
      BY <2>2 DEF ReducersCreatedOnce
    <3>3. currentB # None
      BY <2>2 DEF B!LockHeld
    <3>4. currentA # currentB
      BY <3>3 DEF LocksExclusive
    <3>5. t \notin PA!ReducesOf(currentA)
      BY <3>1, <3>4 DEF PA!ReducesOf
    <3> QED
      BY <1>1, <3>1, <3>2, <3>5
  <2> QED
    BY <2>1, <2>2 DEF ReducersCreatedOnce, B!ReducesOf
<1> QED
  BY <1>1, <1>2, <1>3, <1>4

\* The merges of A and those of B exclude each other, while no removal fails.
LEMMA MergeTickA ==
  ASSUME "api" \notin Faults, ShuffleInv, MergeInv, TickA
  PROVE  MergeInv'
<1> USE DEF ShuffleInv, TickA, localsB
<1>1. /\ PA!TypeOK /\ PA!PlannedOnly /\ PA!LockHeld /\ PA!MergedParts /\ PA!Tick
      /\ pcA \in {"written", "cleaned"} => jobStatus[currentA] # "COMPLETED"
  BY SameStatesA, SameStepsA DEF MergeInv, OutputMergedOnce
<1>2. /\ A!MergedParts'
      /\ pcA' \in {"written", "cleaned"} => jobStatus'[currentA'] # "COMPLETED"
  BY <1>1, AssumptionsA, PA!MergedTick, SameStatesA
<1>3. \A j \in Jobs : PA!PartsGone(j) => PA!PartsGone(j)'
  BY <1>1, AssumptionsA, PA!PartsStay
<1>4. PA!TasksStay
  BY TickFactsA
<1>5. pcB \in {"written", "cleaned"} => currentB \in Jobs
  BY DEF B!LockHeld, B!TypeOK
<1>6. B!MergedParts'
  <2>1. \A j \in Jobs : jobStatus'[j] = "COMPLETED" => B!PartsGone(j)'
    BY <1>2 DEF A!MergedParts, A!PartsGone, B!PartsGone, A!Reducing,
                B!Reducing, A!ReducesOf, B!ReducesOf
  <2>2. pcB = "written" => B!Reducing(currentB)'
    BY <1>4 DEF MergeInv, B!MergedParts, B!Reducing, B!ReducesOf,
                PA!TasksStay, PA!Tasks
  <2>3. pcB = "cleaned" => B!PartsGone(currentB)'
    BY <1>3, <1>5 DEF MergeInv, B!MergedParts, B!PartsGone, PA!PartsGone,
                      B!Reducing, PA!Reducing, B!ReducesOf, PA!ReducesOf
  <2> QED
    BY <2>1, <2>2, <2>3 DEF B!MergedParts, B!PartsGone, B!Reducing
<1>7. pcB \in {"written", "cleaned"} => jobStatus'[currentB] # "COMPLETED"
  BY <1>5 DEF Waits, MergeInv, OutputMergedOnce
<1> QED
  BY <1>2, <1>6, <1>7 DEF MergeInv, OutputMergedOnce

LEMMA AssumptionsB ==
  /\ PB!TasksAssumption /\ PB!NoneAssumption
  /\ PB!FiniteAssumption /\ PB!BoundsAssumption
  BY TasksAssumption, NoneAssumption, FiniteAssumption, BoundsAssumption
  DEF PB!Tasks, PB!MapsOf, PB!ReducesOf, PB!FaultKinds, PB!IsFiniteSet,
      IsFiniteSet, PB!TasksAssumption, PB!NoneAssumption, PB!FiniteAssumption,
      PB!BoundsAssumption

\* What the lemmas of SchedulerProofs say of a tick of B.
LEMMA TickFactsB ==
  ASSUME B!TypeOK, B!PlannedOnly, B!LockHeld, B!Tick
  PROVE  /\ B!TypeOK' /\ B!PlannedOnly' /\ B!LockHeld' /\ PB!TasksStay
         /\ \/ currentB' \in {currentB, None}
            \/ currentB' \in mergeJobsB \ mergeJobsB'
         /\ \A t \in PB!Tasks :
              taskStatus[t] = "NONE" /\ taskStatus'[t] # "NONE" =>
                pcB = "partitioned" /\ t \in PB!ReducesOf(currentB)
         /\ pcB' = "partitioned" =>
              \A t \in PB!ReducesOf(currentB') : taskStatus'[t] = "NONE"
<1>1. PB!TypeOK /\ PB!PlannedOnly /\ PB!LockHeld /\ PB!Tick
  BY SameStatesB, SameStepsB
<1>2. B!TypeOK'
  BY <1>1, AssumptionsB, PB!TypeStep, SameStatesB DEF PB!Next
<1>3. B!PlannedOnly' /\ PB!TasksStay
  BY <1>1, AssumptionsB, PB!PlanTick, SameStatesB
<1>4. /\ B!LockHeld'
      /\ \/ currentB' \in {currentB, None}
         \/ currentB' \in mergeJobsB \ mergeJobsB'
  BY <1>1, AssumptionsB, PB!LockTick, SameStatesB
<1>5. \A t \in PB!Tasks :
        taskStatus[t] = "NONE" /\ taskStatus'[t] # "NONE" =>
          pcB = "partitioned" /\ t \in PB!ReducesOf(currentB)
  BY <1>1, AssumptionsB, PB!AddedUnderLock
<1>6. pcB' = "partitioned" =>
        \A t \in PB!ReducesOf(currentB') : taskStatus'[t] = "NONE"
  BY <1>1, AssumptionsB, PB!ShuffledUnreduced
<1> QED
  BY <1>2, <1>3, <1>4, <1>5, <1>6

\* Steps that leave the locals of A alone and remove no task leave what A knows
\* in place.
LEMMA KnownStaysA ==
  ASSUME B!TypeOK', B!PlannedOnly', PB!TasksStay, UNCHANGED localsA,
         A!TypeOK, A!PlannedOnly, A!LockHeld
  PROVE  A!TypeOK' /\ A!PlannedOnly' /\ A!LockHeld'
<1> USE DEF localsA
<1>1. A!TypeOK'
  BY DEF B!TypeOK, A!TypeOK, B!Tasks, A!Tasks, B!JobStatus, A!JobStatus,
         B!TaskStatus, A!TaskStatus, B!KJobState, A!KJobState, B!Content,
         A!Content, A!Phases
<1>2. A!PlannedOnly'
  <2>1. \A t \in successfulTasksA \cup toSpawnA \cup A!NewTasks : t \in A!Tasks
    BY DEF A!TypeOK, A!NewTasks
  <2>2. \A t \in A!Tasks : taskWorker'[t] # None => taskStatus'[t] # "NONE"
    BY DEF B!PlannedOnly, B!Tasks, A!Tasks
  <2>3. \A t \in A!Tasks : taskStatus[t] # "NONE" => taskStatus'[t] # "NONE"
    BY DEF PB!TasksStay, PB!Tasks, A!Tasks
  <2>4. A!NewTasks' = A!NewTasks
    BY DEF A!NewTasks
  <2> QED
    BY <2>1, <2>2, <2>3, <2>4 DEF A!PlannedOnly, A!Exists
<1>3. A!LockHeld'
  BY DEF A!LockHeld
<1> QED
  BY <1>1, <1>2, <1>3

\* The shuffles of B leave alone the jobs that A holds.
LEMMA ShuffleTickB ==
  ASSUME ShuffleInv, TickB
  PROVE  ShuffleInv'
<1> USE DEF ShuffleInv, TickB, localsA
<1>1. /\ B!TypeOK' /\ B!PlannedOnly' /\ B!LockHeld' /\ PB!TasksStay
      /\ \/ currentB' \in {currentB, None}
         \/ currentB' \in mergeJobsB \ mergeJobsB'
      /\ \A t \in PB!Tasks :
           taskStatus[t] = "NONE" /\ taskStatus'[t] # "NONE" =>
             pcB = "partitioned" /\ t \in PB!ReducesOf(currentB)
      /\ pcB' = "partitioned" =>
           \A t \in PB!ReducesOf(currentB') : taskStatus'[t] = "NONE"
  BY TickFactsB
<1>2. A!TypeOK' /\ A!PlannedOnly' /\ A!LockHeld'
  BY <1>1, KnownStaysA
<1>3. LocksExclusive'
  <2>1. CASE currentB' \in mergeJobsB \ mergeJobsB'
    <3>1. currentB' \in Jobs
      BY <2>1 DEF B!TypeOK
    <3> QED
      BY <2>1, <3>1 DEF Waits, LocksExclusive
  <2> QED
    BY <1>1, <2>1 DEF LocksExclusive
<1>4. ReducersCreatedOnce'
  <2>1. pcB' = "partitioned" =>
          \A t \in B!ReducesOf(currentB') : taskStatus'[t] = "NONE"
    BY <1>1 DEF B!ReducesOf, PB!ReducesOf
  <2>2. ASSUME pcA = "partitioned", NEW t \in A!ReducesOf(currentA)
        PROVE  taskStatus'[t] = "NONE"
    <3>1. t \in PB!Tasks /\ JobOf[t] = currentA
      BY <2>2 DEF A!ReducesOf, PB!Tasks
    <3>2. taskStatus[t] = "NONE"
      BY <2>2 DEF ReducersCreatedOnce
    <3>3. currentA # None
      BY <2>2 DEF A!LockHeld
    <3>4. currentB # currentA
      BY <3>3 DEF LocksExclusive
    <3>5. t \notin PB!ReducesOf(currentB)
      BY <3>1, <3>4 DEF PB!ReducesOf
    <3> QED
      BY <1>1, <3>1, <3>2, <3>5
  <2> QED
    BY <2>1, <2>2 DEF ReducersCreatedOnce, A!ReducesOf
<1> QED
  BY <1>1, <1>2, <1>3, <1>4

\* The merges of B and those of A exclude each other, while no removal fails.
LEMMA MergeTickB ==
  ASSUME "api" \notin Faults, ShuffleInv, MergeInv, TickB
  PROVE  MergeInv'
<1> USE DEF ShuffleInv, TickB, localsA
<1>1. /\ PB!TypeOK /\ PB!PlannedOnly /\ PB!LockHeld /\ PB!MergedParts /\ PB!Tick
      /\ pcB \in {"written", "cleaned"} => jobStatus[currentB] # "COMPLETED"
  BY SameStatesB, SameStepsB DEF MergeInv, OutputMergedOnce
<1>2. /\ B!MergedParts'
      /\ pcB' \in {"written", "cleaned"} => jobStatus'[currentB'] # "COMPLETED"
  BY <1>1, AssumptionsB, PB!MergedTick, SameStatesB
<1>3. \A j \in Jobs : PB!PartsGone(j) => PB!PartsGone(j)'
  BY <1>1, AssumptionsB, PB!PartsStay
<1>4. PB!TasksStay
  BY TickFactsB
<1>5. pcA \in {"written", "cleaned"} => currentA \in Jobs
  BY DEF A!LockHeld, A!TypeOK
<1>6. A!MergedParts'
  <2>1. \A j \in Jobs : jobStatus'[j] = "COMPLETED" => A!PartsGone(j)'
    BY <1>2 DEF B!MergedParts, B!PartsGone, A!PartsGone, B!Reducing,
                A!Reducing, B!ReducesOf, A!ReducesOf
  <2>2. pcA = "written" => A!Reducing(currentA)'
    BY <1>4 DEF MergeInv, A!MergedParts, A!Reducing, A!ReducesOf,
                PB!TasksStay, PB!Tasks
  <2>3. pcA = "cleaned" => A!PartsGone(currentA)'
    BY <1>3, <1>5 DEF MergeInv, A!MergedParts, A!PartsGone, PB!PartsGone,
                      A!Reducing, PB!Reducing, A!ReducesOf, PB!ReducesOf
  <2> QED
    BY <2>1, <2>2, <2>3 DEF A!MergedParts, A!PartsGone, A!Reducing
<1>7. pcA \in {"written", "cleaned"} => jobStatus'[currentA] # "COMPLETED"
  BY <1>5 DEF Waits, MergeInv, OutputMergedOnce
<1> QED
  BY <1>2, <1>6, <1>7 DEF MergeInv, OutputMergedOnce

LEMMA InitReplicas == Init => ShuffleInv /\ MergeInv
<1> SUFFICES ASSUME Init PROVE ShuffleInv /\ MergeInv
  OBVIOUS
<1>1. A!TypeOK
  BY AssumptionsA, PA!InitType, SameStatesA
  DEF Init, A!Init, PA!Init, A!NoFinished, PA!NoFinished, A!NoOrphans,
      PA!NoOrphans, A!NoMerge, PA!NoMerge, A!NoSpawn, PA!NoSpawn,
      A!NoTaskRead, PA!NoTaskRead, A!NoJobRead, PA!NoJobRead, A!Tasks,
      PA!Tasks
<1>2. B!TypeOK
  BY AssumptionsB, PB!InitType, SameStatesB
  DEF Init, B!Init, PB!Init, B!NoFinished, PB!NoFinished, B!NoOrphans,
      PB!NoOrphans, B!NoMerge, PB!NoMerge, B!NoSpawn, PB!NoSpawn,
      B!NoTaskRead, PB!NoTaskRead, B!NoJobRead, PB!NoJobRead, B!Tasks,
      PB!Tasks
<1>3. A!PlannedOnly /\ A!LockHeld /\ A!MergedParts
  BY DEF Init, A!Init, A!NoFinished, A!NoMerge, A!NoSpawn, A!PlannedOnly,
         A!Exists, A!NewTasks, A!LockHeld, A!MergedParts
<1>4. B!PlannedOnly /\ B!LockHeld /\ B!MergedParts
  BY DEF Init, B!Init, B!NoFinished, B!NoMerge, B!NoSpawn, B!PlannedOnly,
         B!Exists, B!NewTasks, B!LockHeld, B!MergedParts
<1>5. LocksExclusive /\ ReducersCreatedOnce /\ OutputMergedOnce
  BY DEF Init, A!Init, B!Init, A!NoMerge, B!NoMerge, LocksExclusive,
         ReducersCreatedOnce, OutputMergedOnce
<1> QED
  BY <1>1, <1>2, <1>3, <1>4, <1>5 DEF ShuffleInv, MergeInv

\* A replica that dies keeps no lock; what the other knows stays.
LEMMA ReplicaDies ==
  ASSUME ShuffleInv, AbortA
  PROVE  ShuffleInv' /\ (MergeInv => MergeInv')
<1> USE DEF ShuffleInv, AbortA, localsB
<1>1. PA!TypeOK /\ PA!PlannedOnly /\ PA!Abort
  BY SameStatesA, SameStepsA
<1>2. A!TypeOK'
  BY <1>1, AssumptionsA, PA!TypeAbort, SameStatesA
<1>3. /\ A!PlannedOnly' /\ A!LockHeld' /\ PA!TasksStay
      /\ UNCHANGED <<PA!db, PA!minio>> /\ currentA' = None /\ pcA' = "sleep"
  BY <1>1, AssumptionsA, PA!DeadTick, SameStatesA
<1>4. B!TypeOK' /\ B!PlannedOnly' /\ B!LockHeld'
  BY <1>2, <1>3, KnownStaysB
<1>5. LocksExclusive' /\ ReducersCreatedOnce'
  BY <1>3 DEF LocksExclusive, ReducersCreatedOnce, B!ReducesOf, PA!db
<1>6. MergeInv => MergeInv'
  BY <1>3
  DEF MergeInv, OutputMergedOnce, A!MergedParts, B!MergedParts, A!PartsGone,
      B!PartsGone, A!Reducing, B!Reducing, A!ReducesOf, B!ReducesOf, PA!db,
      PA!minio
<1> QED
  BY <1>2, <1>3, <1>4, <1>5, <1>6

\* Clients and pods hold no locks and touch no REDUCE task.
LEMMA EnvironmentStep ==
  ASSUME ShuffleInv, Environment
  PROVE  ShuffleInv' /\ (MergeInv => MergeInv')
<1> USE DEF ShuffleInv, Environment, localsB
<1>1. PA!TypeOK /\ PA!PlannedOnly /\ PA!LockHeld /\ (PA!Client \/ PA!Cluster)
  BY SameStatesA, SameStepsA
<1>2. A!TypeOK'
  BY <1>1, AssumptionsA, PA!TypeClient, PA!TypeCluster, SameStatesA
<1>3. A!PlannedOnly' /\ A!LockHeld' /\ PA!TasksStay /\ PA!Outside
  BY <1>1, AssumptionsA, PA!OutsideStep, SameStatesA
<1>4. B!TypeOK' /\ B!PlannedOnly' /\ B!LockHeld'
  BY <1>2, <1>3, KnownStaysB
<1>5. /\ UNCHANGED <<pcA, currentA>>
      /\ \A t \in ReduceTasks :
           taskStatus'[t] = taskStatus[t] /\ input'[t] = input[t]
      /\ \A j \in Jobs :
           jobStatus'[j] = "COMPLETED" <=> jobStatus[j] = "COMPLETED"
  BY <1>3 DEF PA!Outside, PA!locals, PA!mergeVars
<1>6. LocksExclusive' /\ ReducersCreatedOnce'
  BY <1>5 DEF LocksExclusive, ReducersCreatedOnce, A!ReducesOf, B!ReducesOf
<1>7. /\ pcA \in {"written", "cleaned"} => currentA \in Jobs
      /\ pcB \in {"written", "cleaned"} => currentB \in Jobs
  BY DEF A!LockHeld, B!LockHeld, A!TypeOK, B!TypeOK
<1>8. MergeInv => MergeInv'
  BY <1>5, <1>7
  DEF MergeInv, OutputMergedOnce, A!MergedParts, B!MergedParts, A!PartsGone,
      B!PartsGone, A!Reducing, B!Reducing, A!ReducesOf, B!ReducesOf
<1> QED
  BY <1>2, <1>3, <1>4, <1>6, <1>8

LEMMA ReplicasStutter ==
  ASSUME ShuffleInv, UNCHANGED vars
  PROVE  ShuffleInv' /\ (MergeInv => MergeInv')
<1> USE DEF vars, shared, localsA, localsB
<1>1. A!TypeOK' /\ B!TypeOK'
  BY DEF ShuffleInv, A!TypeOK, B!TypeOK
<1>2. A!PlannedOnly' /\ B!PlannedOnly' /\ A!LockHeld' /\ B!LockHeld'
  BY DEF ShuffleInv, A!PlannedOnly, B!PlannedOnly, A!Exists, B!Exists,
         A!NewTasks, B!NewTasks, A!LockHeld, B!LockHeld
<1>3. LocksExclusive' /\ ReducersCreatedOnce'
  BY DEF ShuffleInv, LocksExclusive, ReducersCreatedOnce
<1>4. MergeInv => MergeInv'
  BY DEF MergeInv, OutputMergedOnce, A!MergedParts, B!MergedParts,
         A!PartsGone, B!PartsGone, A!Reducing, B!Reducing
<1> QED
  BY <1>1, <1>2, <1>3, <1>4 DEF ShuffleInv

LEMMA ShuffleStep == ShuffleInv /\ [Next]_vars => ShuffleInv'
  BY ShuffleTickA, ShuffleTickB, ReplicaDies, EnvironmentStep, ReplicasStutter
  DEF Next

LEMMA MergeStep ==
  ASSUME "api" \notin Faults
  PROVE  ShuffleInv /\ MergeInv /\ [Next]_vars => MergeInv'
  BY MergeTickA, MergeTickB, ReplicaDies, EnvironmentStep, ReplicasStutter
  DEF Next

\* Whatever fails and whichever replica dies, the parts of a job are written and
\* its REDUCE tasks added only while it has none: the row lock and the look at
\* the tasks under it are enough, although the status may be an old one.
THEOREM ReplicasShuffleOnce == Spec => []ReducersCreatedOnce
<1>1. Init => ShuffleInv
  BY InitReplicas
<1>2. ShuffleInv /\ [Next]_vars => ShuffleInv'
  BY ShuffleStep
<1>3. ShuffleInv => ReducersCreatedOnce
  BY DEF ShuffleInv
<1> QED
  BY <1>1, <1>2, <1>3, PTL DEF Spec

\* While calls to MinIO succeed, no replica writes the output of a job that is
\* COMPLETED: the cleanup has removed the parts that it validates first.
THEOREM ReplicasMergeOnce ==
  ASSUME "api" \notin Faults
  PROVE  Spec => []OutputMergedOnce
<1>1. Init => ShuffleInv /\ MergeInv
  BY InitReplicas
<1>2. ShuffleInv /\ MergeInv /\ [Next]_vars => (ShuffleInv /\ MergeInv)'
  BY ShuffleStep, MergeStep
<1>3. MergeInv => OutputMergedOnce
  BY DEF MergeInv
<1> QED
  BY <1>1, <1>2, <1>3, PTL DEF Spec
=============================================================================
