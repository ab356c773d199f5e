-------------------------- MODULE SchedulerSlotProofs --------------------------
(***************************************************************************)
(* The worker rows are the slots of MANAGER_MAX_TASKS_PER_CYCLE: never     *)
(* more of them are ACTIVE, and as long as no tick dies each belongs to a  *)
(* task in progress and each unfinished task can be had again.             *)
(***************************************************************************)
EXTENDS SchedulerJobProofs, FiniteSetTheorems

ActiveWorkers == {w \in Workers : workerStatus[w] = "ACTIVE"}

\* Sets of tasks and of workers are finite, so their cardinalities are numbers.
LEMMA Finite ==
  /\ \A ts \in SUBSET Tasks : IsFiniteSet(ts) /\ Cardinality(ts) \in Nat
  /\ \A ws \in SUBSET Workers : IsFiniteSet(ws) /\ Cardinality(ws) \in Nat
  BY FiniteAssumption, FS_Subset, FS_CardinalityType

LEMMA ActiveCountType ==
  /\ ActiveCount = Cardinality(ActiveWorkers) /\ ActiveCount \in Nat
  /\ Room = MaxTasks - ActiveCount /\ Room \in Int
<1>1. ActiveWorkers \in SUBSET Workers
  BY DEF ActiveWorkers
<1>2. ActiveCount = Cardinality(ActiveWorkers)
  BY DEF ActiveCount, ActiveWorkers
<1> QED
  BY <1>1, <1>2, Finite, BoundsAssumption DEF Room

LEMMA NewWorkersFew ==
  ASSUME TypeOK
  PROVE  /\ NewWorkers \in SUBSET Workers
         /\ Cardinality(NewWorkers) <= Cardinality(NewTasks)
<1>1. NewTasks \in SUBSET Tasks
  BY DEF NewTasks
<1>2. NewWorkers \in SUBSET Workers
  BY DEF NewWorkers, NewTasks, TypeOK
<1> DEFINE f == [t \in NewTasks |-> pairing[t]]
<1>3. f \in Surjection(NewTasks, NewWorkers)
  BY DEF NewWorkers, Surjection
<1>4. Cardinality(NewWorkers) <= Cardinality(NewTasks)
  <2> HIDE DEF f
  <2> QED
    BY <1>1, <1>3, Finite, FS_Surjection
<1> QED
  BY <1>2, <1>4

\* Rows are only freed, and the batch stays what it is or the tick leaves it.
LEMMA SlotFrame ==
  ASSUME TypeOK, SlotInv, ActiveWorkers' \subseteq ActiveWorkers,
         \/ UNCHANGED <<pc, pairing, toSpawn>>
         \/ pc' \notin {"insert", "assign", "spawn", "activate"}
         \/ /\ pc \in {"assign", "spawn"} /\ pc' \in {"spawn", "activate"}
            /\ NewTasks' = NewTasks
         \/ pc = "insert" /\ pc' = "assign" /\ NewTasks' = toSpawn
  PROVE  SlotInv'
<1>1. ActiveWorkers \in SUBSET Workers
  BY DEF ActiveWorkers
<1>2. ActiveCount' = Cardinality(ActiveWorkers') /\ Room' = MaxTasks - ActiveCount'
  BY DEF ActiveCount, ActiveWorkers, Room
<1>3. ActiveCount' <= ActiveCount /\ ActiveCount' \in Nat
  BY <1>1, <1>2, Finite, ActiveCountType, FS_Subset
<1>4. Room' >= Room /\ Room' \in Int
  BY <1>2, <1>3, ActiveCountType, BoundsAssumption
<1>5. ActiveWithinLimit'
  BY <1>3, ActiveCountType, BoundsAssumption DEF SlotInv, ActiveWithinLimit
<1>6. NewTasks \in SUBSET Tasks /\ toSpawn \in SUBSET Tasks
  BY DEF NewTasks, TypeOK
<1>7. /\ UNCHANGED pairing => NewTasks' = NewTasks
      /\ Cardinality(NewTasks) \in Nat /\ Cardinality(toSpawn) \in Nat
  BY <1>6, Finite DEF NewTasks
<1>8. RoomKept'
  BY <1>4, <1>7, ActiveCountType DEF SlotInv, RoomKept
<1> QED
  BY <1>5, <1>8 DEF SlotInv

LEMMA SlotSpawn ==
  ASSUME TypeOK, SlotInv, JobInv, Spawn
  PROVE  SlotInv'
<1> USE DEF db, spawnVars, locals
<1>1. CASE ReadIdle
  <2>1. toSpawn' \in Batches /\ toSpawn' # {} /\ pc' = "insert" /\ UNCHANGED workerStatus
    BY <1>1 DEF ReadIdle
  <2>2. Cardinality(toSpawn') <= Room
    <3>1. toSpawn' # {} => Room > 0
      BY <2>1, ActiveCountType DEF Batches
    <3>2. toSpawn' \in SUBSET Tasks
      BY <2>1, <3>1 DEF Batches, IdleTasks
    <3> QED
      BY <2>1, <3>1, <3>2, Finite, ActiveCountType DEF Batches
  <2>3. UNCHANGED <<ActiveCount, Room>>
    BY <2>1 DEF ActiveCount, Room
  <2> QED
    BY <2>1, <2>2, <2>3 DEF SlotInv, ActiveWithinLimit, RoomKept
<1>2. CASE AddWorkers
  <2>1. PICK p \in Pairings(toSpawn, FreshWorkers) :
          pairing' = Paired(p, toSpawn)
    BY <1>2 DEF AddWorkers
  <2>2. p \in [toSpawn -> FreshWorkers] /\ toSpawn \subseteq Tasks
    BY DEF Pairings, TypeOK
  <2>3. NewTasks' = toSpawn
    BY <2>1, <2>2, NoneAssumption DEF NewTasks, Paired, FreshWorkers
  <2> QED
    BY <1>2, <2>3, SlotFrame DEF AddWorkers, ActiveWorkers
<1>3. CASE AssignWorkers
  <2>1. PICK p \in Pairings(NewTasks, NewWorkers) :
          pairing' = Paired(p, NewTasks)
    BY <1>3 DEF AssignWorkers
  <2>2. p \in [NewTasks -> Workers] /\ NewTasks \subseteq Tasks
    BY NewWorkersFew DEF Pairings, NewTasks
  <2>3. NewTasks' = NewTasks
    BY <2>1, <2>2, NoneAssumption DEF NewTasks, Paired
  <2> QED
    BY <1>3, <2>3, SlotFrame DEF AssignWorkers, ActiveWorkers
<1>4. ASSUME NEW t \in Tasks, CreateWorkerJob(t)
      PROVE  SlotInv'
  <2>1. NewTasks' = NewTasks /\ pc = "spawn" /\ pc' = "spawn"
    BY <1>4 DEF CreateWorkerJob, NewTasks
  <2> QED
    BY <1>4, <2>1, SlotFrame DEF CreateWorkerJob, ActiveWorkers
<1>5. CASE SpawnDone
  BY <1>5, SlotFrame DEF SpawnDone, ActiveWorkers, NewTasks
<1>6. CASE ActivateWorkers
  <2>1. ActiveWorkers' \subseteq ActiveWorkers \cup NewWorkers
    BY <1>6 DEF ActivateWorkers, ActiveWorkers
  <2>2. ActiveWorkers \in SUBSET Workers /\ NewWorkers \in SUBSET Workers
    BY NewWorkersFew DEF ActiveWorkers
  <2>3. IsFiniteSet(ActiveWorkers) /\ IsFiniteSet(NewWorkers)
    BY <2>2, Finite
  <2>4. /\ IsFiniteSet(ActiveWorkers \cup NewWorkers)
        /\ Cardinality(ActiveWorkers \cup NewWorkers)
             = Cardinality(ActiveWorkers) + Cardinality(NewWorkers)
                 - Cardinality(ActiveWorkers \cap NewWorkers)
    BY <2>3, FS_Union
  <2>5. ActiveWorkers \cap NewWorkers \in SUBSET Workers
    BY <2>2
  <2>6. Cardinality(ActiveWorkers \cup NewWorkers)
          <= Cardinality(ActiveWorkers) + Cardinality(NewWorkers)
    BY <2>2, <2>4, <2>5, Finite
  <2>7. Cardinality(ActiveWorkers') <= Cardinality(ActiveWorkers \cup NewWorkers)
    BY <2>1, <2>4, FS_Subset
  <2>8. Cardinality(NewTasks) <= Room /\ NewTasks \in SUBSET Tasks
    BY <1>6 DEF ActivateWorkers, SlotInv, RoomKept, NewTasks
  <2>9. ActiveWorkers' \in SUBSET Workers
    BY DEF ActiveWorkers
  <2>10. Cardinality(ActiveWorkers') <= MaxTasks
    BY <2>2, <2>4, <2>5, <2>6, <2>7, <2>8, <2>9, Finite, NewWorkersFew,
       ActiveCountType, BoundsAssumption
  <2>11. ActiveCount' = Cardinality(ActiveWorkers')
    BY DEF ActiveCount, ActiveWorkers
  <2> QED
    BY <1>6, <2>10, <2>11
    DEF ActivateWorkers, SlotInv, ActiveWithinLimit, RoomKept
<1>7. CASE PickNothing \/ AddWorkersRaises \/ StartTasks \/ RunJobs
  BY <1>7, SlotFrame
  DEF PickNothing, AddWorkersRaises, StartTasks, RunJobs, ActiveWorkers
<1> QED
  BY <1>1, <1>2, <1>3, <1>4, <1>5, <1>6, <1>7 DEF Spawn

LEMMA SlotStep ==
  ASSUME TypeOK, JobInv, SlotInv, [Next]_vars
  PROVE  SlotInv'
<1> USE DEF db, spawnVars, locals, ActiveWorkers
<1>1. CASE Finish
  BY <1>1, SlotFrame
  DEF Finish, ListFinished, ReadExitCodes, ListFinishedFails, ReadEndedTasks,
      ClearWorkers, DeleteWorkers, CompleteTasks, FailTask, ResetForceful, Reset,
      DeleteRows, FailTasksDone, ResetForcefulDone, DeleteWorkerJobs
<1>2. CASE Recover
  BY <1>2, SlotFrame
  DEF Recover, ListAlive, ListAliveFails, AliveUnknown, ReadOrphans,
      RecoverTask, Respawn, Reset, DeleteRows, RecoverDone
<1>3. CASE Merge
  BY <1>3, SlotFrame
  DEF Merge, Visit, ReadMergeJobs, SkipJob, PartitionMaps, AddReduceTasks,
      WriteFinal, CleanupJobFiles, CompleteJob, MergeRaises, MergeDone
<1>4. CASE Abort \/ Client \/ Cluster \/ UNCHANGED vars
  BY <1>4, SlotFrame
  DEF Abort, Client, SubmitJob, AddMapTasks, Cluster, PodSucceeds, PodFails,
      PodKilled, PodEvicted, JobVanishes, JobDeleted, Gone, vars
<1> QED
  BY <1>1, <1>2, <1>3, <1>4, SlotSpawn DEF Next, Tick

LEMMA SlotInvariant == Spec => []SlotInv
<1>1. Init => SlotInv
  <2> SUFFICES ASSUME Init PROVE SlotInv
    OBVIOUS
  <2>1. ActiveWorkers = {}
    BY DEF Init, ActiveWorkers
  <2>2. ActiveCount = 0
    BY <2>1, ActiveCountType, FS_EmptySet
  <2> QED
    BY <2>2, BoundsAssumption DEF Init, SlotInv, ActiveWithinLimit, RoomKept
<1>2. TypeOK /\ JobInv /\ SlotInv /\ [Next]_vars => SlotInv'
  BY SlotStep
<1> QED
  BY <1>1, <1>2, TypeCorrect, JobInvariant, PTL DEF Spec

\* MANAGER_MAX_TASKS_PER_CYCLE bounds the ACTIVE workers over all ticks, those of
\* dead ticks included.
THEOREM WorkersWithinLimit == Spec => []ActiveWithinLimit
<1>1. SlotInv => ActiveWithinLimit
  BY DEF SlotInv
<1> QED
  BY <1>1, SlotInvariant, PTL

----
\* A step after which no unfinished task is in another state than before, the
\* tick keeping its place or leaving a phase that says nothing of tasks.
LEMMA StrandedFrame ==
  ASSUME NoneStranded,
         \A t \in Tasks : /\ taskWorker'[t] = taskWorker[t]
                          /\ taskStatus'[t] = taskStatus[t],
         \/ UNCHANGED <<pc, pairing, successfulTasks>>
         \/ /\ pc \notin {"delete", "complete", "spawn", "activate", "start"}
            /\ pc' \notin {"spawn", "activate", "start"}
         \/ /\ pc \in {"spawn", "activate"} /\ pc' \in {"activate", "start"}
            /\ UNCHANGED pairing
         \/ /\ pc = "delete" /\ pc' = "complete"
            /\ UNCHANGED <<pairing, successfulTasks>>
  PROVE  NoneStranded'
  BY DEF NoneStranded, NewTasks

\* A task without a worker is IDLE after the step, or done.
LEMMA StrandedReset ==
  ASSUME TypeOK, NoneStranded, UNCHANGED <<pc, pairing, successfulTasks>>,
         NEW t \in Tasks, NEW s \in {"IDLE", "FAILED"}, \E w : Reset(t, s, w),
         pc \in {"fail", "force", "recover"}
  PROVE  NoneStranded'
  BY DEF TypeOK, Reset, NoneStranded, NewTasks

LEMMA StrandedFinish ==
  ASSUME TypeOK, NoneStranded, Finish
  PROVE  NoneStranded'
<1> USE DEF db, finishedVars, spawnVars, locals
<1>1. CASE ClearWorkers
  BY <1>1 DEF ClearWorkers, Cleared, NoneStranded
<1>2. CASE CompleteTasks
  BY <1>2 DEF CompleteTasks, SetStatus, NoneStranded
<1>3. ASSUME NEW t \in Tasks, FailTask(t)
      PROVE  NoneStranded'
  <2>1. CASE Resettable(t)
    BY <1>3, <2>1, StrandedReset DEF FailTask
  <2>2. CASE ~Resettable(t)
    BY <1>3, <2>2, StrandedFrame DEF FailTask
  <2> QED
    BY <2>1, <2>2
<1>4. ASSUME NEW t \in Tasks, ResetForceful(t)
      PROVE  NoneStranded'
  <2>1. CASE Resettable(t)
    BY <1>4, <2>1, StrandedReset DEF ResetForceful
  <2>2. CASE ~Resettable(t)
    BY <1>4, <2>2, StrandedFrame DEF ResetForceful
  <2> QED
    BY <2>1, <2>2
<1>5. CASE \/ ListFinished \/ ReadExitCodes \/ ListFinishedFails
           \/ ReadEndedTasks \/ DeleteWorkers
           \/ FailTasksDone \/ ResetForcefulDone \/ DeleteWorkerJobs
  BY <1>5, StrandedFrame
  DEF ListFinished, ReadExitCodes, ListFinishedFails, ReadEndedTasks, DeleteWorkers,
      FailTasksDone, ResetForcefulDone, DeleteWorkerJobs
<1> QED
  BY <1>1, <1>2, <1>3, <1>4, <1>5 DEF Finish

LEMMA StrandedSpawn ==
  ASSUME TypeOK, StatusInv, JobInv, NoneStranded, Spawn
  PROVE  NoneStranded'
<1> USE DEF db, finishedVars, spawnVars, locals
<1>1. CASE AssignWorkers
  <2>1. PICK p \in Pairings(NewTasks, NewWorkers) :
          /\ pairing' = Paired(p, NewTasks)
          /\ taskWorker' = [t \in Tasks |->
               IF t \in NewTasks /\ taskWorker[t] = None THEN p[t]
               ELSE taskWorker[t]]
    BY <1>1 DEF AssignWorkers
  <2>2. p \in [NewTasks -> Workers] /\ NewTasks \subseteq Tasks
    BY NewWorkersFew DEF Pairings, NewTasks
  <2>3. NewTasks' = NewTasks
    BY <2>1, <2>2, NoneAssumption DEF NewTasks, Paired
  <2>4. \A t \in NewTasks : taskWorker'[t] # None
    BY <2>1, <2>2, NoneAssumption
  <2>5. \A t \in Tasks \ NewTasks : taskWorker'[t] = taskWorker[t]
    BY <2>1
  <2> QED
    BY <1>1, <2>3, <2>4, <2>5 DEF AssignWorkers, NoneStranded
<1>2. CASE StartTasks
  <2>1. \A t \in NewTasks : taskWorker[t] # None
    BY <1>2 DEF StartTasks, NoneStranded
  <2> QED
    BY <1>2, <2>1 DEF StartTasks, SetStatus, NoneStranded
<1>3. CASE \/ PickNothing \/ ReadIdle \/ AddWorkers \/ AddWorkersRaises
           \/ SpawnDone \/ ActivateWorkers \/ RunJobs
  BY <1>3, StrandedFrame
  DEF PickNothing, ReadIdle, AddWorkers, AddWorkersRaises, SpawnDone,
      ActivateWorkers, RunJobs
<1>4. ASSUME NEW t \in Tasks, CreateWorkerJob(t)
      PROVE  NoneStranded'
  BY <1>4, StrandedFrame DEF CreateWorkerJob
<1> QED
  BY <1>1, <1>2, <1>3, <1>4 DEF Spawn

LEMMA StrandedStep ==
  ASSUME TypeOK, RowInv, StatusInv, JobInv, NoneStranded, [Next]_vars, ~Abort
  PROVE  NoneStranded'
<1> USE DEF db, finishedVars, mergeVars, spawnVars, locals
<1>1. CASE Recover
  <2>1. ASSUME NEW t \in Tasks, RecoverTask(t), Respawn(t)
        PROVE  NoneStranded'
    BY <2>1, StrandedReset DEF RecoverTask, Respawn
  <2>2. CASE UNCHANGED <<taskStatus, taskWorker>>
    BY <1>1, <2>2, StrandedFrame
    DEF Recover, ListAlive, ListAliveFails, AliveUnknown, ReadOrphans,
        RecoverTask, RecoverDone
  <2> QED
    BY <1>1, <2>1, <2>2
    DEF Recover, ListAlive, ListAliveFails, ReadOrphans, RecoverTask,
        RecoverDone
<1>2. ASSUME NEW j \in Jobs, AddMapTasks(j)
      PROVE  NoneStranded'
  <2>1. \A t \in MapsOf(j) : t \in Tasks /\ taskWorker[t] = None
    BY <1>2
    DEF AddMapTasks, MapsOf, Tasks, StatusInv, BusyTasksUnfinished
  <2>2. NewTasks' = NewTasks
    BY <1>2 DEF AddMapTasks, NewTasks
  <2>3. /\ UNCHANGED <<taskWorker, pc, successfulTasks>>
        /\ taskStatus' = [t \in Tasks |-> Added(MapsOf(j), t)]
    BY <1>2 DEF AddMapTasks
  <2> QED
    BY <2>1, <2>2, <2>3 DEF Added, NoneStranded
<1>3. CASE AddReduceTasks
  <2>1. \A t \in ReducesOf(current) : t \in Tasks /\ taskWorker[t] = None
    BY <1>3
    DEF AddReduceTasks, ReducesOf, Tasks, StatusInv, LockedJob,
        BusyTasksUnfinished
  <2>2. /\ UNCHANGED taskWorker /\ pc = "partitioned" /\ pc' = "merge"
        /\ taskStatus' = [t \in Tasks |-> Added(ReducesOf(current), t)]
    BY <1>3 DEF AddReduceTasks
  <2> QED
    BY <2>1, <2>2 DEF Added, NoneStranded
<1>4. CASE Merge /\ ~AddReduceTasks
  BY <1>4, StrandedFrame
  DEF Merge, Visit, ReadMergeJobs, SkipJob, PartitionMaps, WriteFinal,
      CleanupJobFiles, CompleteJob, MergeRaises, MergeDone, PartitionUnread,
      OutputInvalid, CommitFails
<1>5. ASSUME NEW j \in Jobs, SubmitJob(j)
      PROVE  NoneStranded'
  BY <1>5, StrandedFrame DEF SubmitJob
<1>6. CASE Cluster \/ UNCHANGED vars
  BY <1>6, StrandedFrame
  DEF Cluster, PodSucceeds, PodFails, PodKilled, PodEvicted, JobVanishes,
      JobDeleted, Gone, vars
<1> QED
  BY <1>1, <1>2, <1>3, <1>4, <1>5, <1>6, StrandedFinish, StrandedSpawn
  DEF Next, Tick, Client

----
\* The rows, the workers of tasks and the tick stay as they are.
LEMMA LeakedFrame ==
  ASSUME NoneLeaked, UNCHANGED <<taskWorker, workerPod>>,
         \/ UNCHANGED <<pc, successfulWorkers, pairing>>
         \/ pc \notin {"assign", "delete"}
  PROVE  NoneLeaked'
  BY DEF NoneLeaked, NewWorkers, NewTasks

\* The row that goes is that of the task, so every other keeps its own.
LEMMA LeakedReset ==
  ASSUME TypeOK, NoneLeaked, pc \in {"fail", "force", "recover"},
         NEW t \in Tasks, NEW s, Reset(t, s, taskWorker[t])
  PROVE  NoneLeaked'
<1>1. \A u \in Tasks : u # t => taskWorker'[u] = taskWorker[u]
  BY DEF Reset, TypeOK
<1>2. \A w \in Workers : workerPod'[w] # None =>
        workerPod[w] # None /\ taskWorker[t] # w
  BY DEF Reset, DeleteRows
<1> QED
  BY <1>1, <1>2 DEF NoneLeaked

LEMMA LeakedFinish ==
  ASSUME TypeOK, RowInv, NoneLeaked, Finish
  PROVE  NoneLeaked'
<1> USE DEF db, finishedVars, spawnVars, locals
<1>1. CASE ClearWorkers
  <2>1. \A t \in Tasks : \/ taskWorker'[t] = taskWorker[t]
                         \/ taskWorker[t] \in successfulWorkers
    BY <1>1 DEF ClearWorkers, Cleared, RowInv, SuccessesReleased, RunBy
  <2> QED
    BY <1>1, <2>1 DEF ClearWorkers, NoneLeaked
<1>2. CASE DeleteWorkers
  BY <1>2 DEF DeleteWorkers, DeleteRows, NoneLeaked
<1>3. ASSUME NEW t \in Tasks, FailTask(t)
      PROVE  NoneLeaked'
  <2>1. Remembered(endedWorker, t) = taskWorker[t]
    BY <1>3 DEF FailTask, Remembered, RowInv, WorkerMemory
  <2>2. CASE Resettable(t)
    BY <1>3, <2>1, <2>2, LeakedReset DEF FailTask
  <2>3. CASE ~Resettable(t)
    BY <1>3, <2>3, LeakedFrame DEF FailTask
  <2> QED
    BY <2>2, <2>3
<1>4. ASSUME NEW t \in Tasks, ResetForceful(t)
      PROVE  NoneLeaked'
  <2>1. Remembered(endedWorker, t) = taskWorker[t]
    BY <1>4 DEF ResetForceful, Remembered, RowInv, WorkerMemory
  <2>2. CASE Resettable(t)
    BY <1>4, <2>1, <2>2, LeakedReset DEF ResetForceful
  <2>3. CASE ~Resettable(t)
    BY <1>4, <2>3, LeakedFrame DEF ResetForceful
  <2> QED
    BY <2>2, <2>3
<1>5. CASE \/ ListFinished \/ ReadExitCodes \/ ListFinishedFails
           \/ ReadEndedTasks \/ CompleteTasks
           \/ FailTasksDone \/ ResetForcefulDone \/ DeleteWorkerJobs
  BY <1>5, LeakedFrame
  DEF ListFinished, ReadExitCodes, ListFinishedFails, ReadEndedTasks, CompleteTasks,
      FailTasksDone, ResetForcefulDone, DeleteWorkerJobs
<1> QED
  BY <1>1, <1>2, <1>3, <1>4, <1>5 DEF Finish

LEMMA LeakedSpawn ==
  ASSUME TypeOK, RowInv, JobInv, NoneLeaked, Spawn
  PROVE  NoneLeaked'
<1> USE DEF db, finishedVars, spawnVars, locals
<1>1. CASE AddWorkers
  <2>1. PICK p \in Pairings(toSpawn, FreshWorkers) :
          pairing' = Paired(p, toSpawn) /\ workerPod' = Named(p, toSpawn)
    BY <1>1 DEF AddWorkers
  <2>2. p \in [toSpawn -> FreshWorkers] /\ toSpawn \subseteq Tasks
    BY <2>1 DEF Pairings, TypeOK
  <2>3. NewTasks' = toSpawn /\ \A t \in toSpawn : pairing'[t] = p[t]
    BY <2>1, <2>2, NoneAssumption DEF NewTasks, Paired, FreshWorkers
  <2>4. \A w \in Workers : workerPod'[w] # None =>
          workerPod[w] # None \/ \E t \in toSpawn : p[t] = w
    BY <2>1 DEF Named
  <2>5. \A t \in toSpawn : p[t] \in NewWorkers'
    BY <2>3 DEF NewWorkers
  <2> QED
    BY <1>1, <2>4, <2>5 DEF AddWorkers, NoneLeaked
<1>2. CASE AssignWorkers
  <2>1. PICK p \in Pairings(NewTasks, NewWorkers) :
          taskWorker' = [t \in Tasks |->
            IF t \in NewTasks /\ taskWorker[t] = None THEN p[t]
            ELSE taskWorker[t]]
    BY <1>2 DEF AssignWorkers
  <2>2. p \in Injection(NewTasks, NewWorkers)
    BY DEF Pairings, Injection, IsInjective
  <2>3. NewTasks \in SUBSET Tasks /\ NewWorkers \in SUBSET Workers
    BY NewWorkersFew DEF NewTasks
  <2>4. IsFiniteSet(NewWorkers) /\ Cardinality(NewWorkers) \in Nat
        /\ Cardinality(NewTasks) \in Nat
    BY <2>3, Finite
  <2>5. Cardinality(NewTasks) <= Cardinality(NewWorkers)
    BY <2>2, <2>4, FS_Injection
  <2>6. Cardinality(NewTasks) = Cardinality(NewWorkers)
    BY <2>4, <2>5, NewWorkersFew
  <2>7. p \in Surjection(NewTasks, NewWorkers)
    BY <2>2, <2>4, <2>6, FS_Injection
  <2>8. \A w \in NewWorkers : \E t \in NewTasks : p[t] = w
    BY <2>7 DEF Surjection
  <2>9. \A t \in NewTasks : taskWorker[t] = None
    BY <1>2 DEF AssignWorkers, JobInv, NewJobs
  <2>10. \A w \in NewWorkers : \E t \in Tasks : taskWorker'[t] = w
    BY <2>1, <2>3, <2>8, <2>9
  <2>11. \A t \in Tasks : taskWorker[t] # None => taskWorker'[t] = taskWorker[t]
    BY <2>1
  <2>12. \A w \in Workers : workerPod'[w] # None =>
           \/ \E t \in Tasks : taskWorker[t] = w
           \/ w \in NewWorkers
    BY <1>2 DEF AssignWorkers, NoneLeaked
  <2> QED
    BY <2>10, <2>11, <2>12, NoneAssumption DEF NoneLeaked
<1>3. CASE \/ PickNothing \/ ReadIdle \/ AddWorkersRaises \/ SpawnDone
           \/ ActivateWorkers \/ StartTasks \/ RunJobs
  BY <1>3, LeakedFrame
  DEF PickNothing, ReadIdle, AddWorkersRaises, SpawnDone, ActivateWorkers,
      StartTasks, RunJobs
<1>4. ASSUME NEW t \in Tasks, CreateWorkerJob(t)
      PROVE  NoneLeaked'
  BY <1>4, LeakedFrame DEF CreateWorkerJob
<1> QED
  BY <1>1, <1>2, <1>3, <1>4 DEF Spawn

LEMMA LeakedStep ==
  ASSUME TypeOK, RowInv, JobInv, NoneLeaked, [Next]_vars, ~Abort
  PROVE  NoneLeaked'
<1> USE DEF db, finishedVars, spawnVars, locals
<1>1. CASE Recover
  <2>1. ASSUME NEW t \in Tasks, RecoverTask(t), Respawn(t)
        PROVE  NoneLeaked'
    <3>1. Remembered(orphanWorker, t) = taskWorker[t]
      BY <2>1 DEF RecoverTask, Remembered, RowInv, WorkerMemory
    <3> QED
      BY <2>1, <3>1, LeakedReset DEF RecoverTask, Respawn
  <2>2. CASE UNCHANGED <<taskWorker, workerPod>>
    BY <1>1, <2>2, LeakedFrame
    DEF Recover, ListAlive, ListAliveFails, ReadOrphans, RecoverTask, RecoverDone
  <2> QED
    BY <1>1, <2>1, <2>2
    DEF Recover, ListAlive, ListAliveFails, ReadOrphans, RecoverTask,
        RecoverDone
<1>2. CASE Merge
  BY <1>2, LeakedFrame
  DEF Merge, Visit, ReadMergeJobs, SkipJob, PartitionMaps, AddReduceTasks,
      WriteFinal, CleanupJobFiles, CompleteJob, MergeRaises, MergeDone,
      PartitionUnread, OutputInvalid, CommitFails
<1>3. CASE Client \/ Cluster \/ UNCHANGED vars
  BY <1>3, LeakedFrame
  DEF Client, SubmitJob, AddMapTasks, Cluster, PodSucceeds, PodFails,
      PodKilled, PodEvicted, JobVanishes, JobDeleted, Gone, vars
<1> QED
  BY <1>1, <1>2, <1>3, LeakedFinish, LeakedSpawn DEF Next, Tick

----
\* No tick has died after the step only if none had died before and none dies.
LEMMA AbortsStep ==
  ASSUME TypeOK, [Next]_vars, aborts' = 0
  PROVE  aborts = 0 /\ ~Abort
<1>1. ~Abort
  BY DEF Abort, TypeOK
<1>2. CASE Finish \/ Recover
  BY <1>1, <1>2
  DEF Finish, ListFinished, ReadExitCodes, ListFinishedFails, ReadEndedTasks,
      ClearWorkers, DeleteWorkers, CompleteTasks, FailTask, ResetForceful,
      FailTasksDone, ResetForcefulDone, DeleteWorkerJobs, Recover, ListAlive,
      ListAliveFails, ReadOrphans, RecoverTask, RecoverDone
<1>3. CASE Merge \/ Spawn
  BY <1>1, <1>3
  DEF Merge, ReadMergeJobs, SkipJob, PartitionMaps, AddReduceTasks,
      WriteFinal, CleanupJobFiles, CompleteJob, MergeRaises, MergeDone, Spawn,
      PickNothing, ReadIdle, AddWorkers, AddWorkersRaises, AssignWorkers,
      CreateWorkerJob, SpawnDone, ActivateWorkers, StartTasks, RunJobs
<1>4. CASE Client \/ Cluster \/ UNCHANGED vars
  BY <1>1, <1>4
  DEF Client, SubmitJob, AddMapTasks, Cluster, PodSucceeds, PodFails,
      PodKilled, PodEvicted, JobVanishes, JobDeleted, Gone, vars
<1> QED
  BY <1>1, <1>2, <1>3, <1>4 DEF Next, Tick

LEMMA TidyInvariant == Spec => [](aborts = 0 => NoneStranded /\ NoneLeaked)
<1>1. Init => NoneStranded /\ NoneLeaked
  BY DEF Init, NoSpawn, NoneStranded, NoneLeaked
<1>2. /\ TypeOK /\ RowInv /\ StatusInv /\ JobInv
      /\ (aborts = 0 => NoneStranded /\ NoneLeaked)
      /\ [Next]_vars
      => (aborts = 0 => NoneStranded /\ NoneLeaked)'
  BY AbortsStep, StrandedStep, LeakedStep
<1> QED
  BY <1>1, <1>2, TypeCorrect, RowInvariant, StatusInvariant, JobInvariant, PTL
  DEF Spec

\* Between two ticks every unfinished task can be picked or has a worker, as
\* long as no tick has died; calls may fail, pods be killed and Jobs vanish.
THEOREM NothingStranded == Spec => [](aborts = 0 => NoStrandedTask)
<1>1. NoneStranded => NoStrandedTask
  BY DEF NoneStranded, NoStrandedTask
<1> QED
  BY <1>1, TidyInvariant, PTL

\* As long as no tick has died, every worker row belongs to a task in progress
\* between two ticks, so slots and pod names are given back.
THEOREM NothingLeaked == Spec => [](aborts = 0 => NoLeakedSlot)
<1>1. StatusInv /\ NoneStranded /\ NoneLeaked => NoLeakedSlot
  BY NoneAssumption
  DEF StatusInv, BusyTasksUnfinished, NoneStranded, NoneLeaked, NoLeakedSlot
<1> QED
  BY <1>1, StatusInvariant, TidyInvariant, PTL
=============================================================================
