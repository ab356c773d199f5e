-------------------------- MODULE ReplicatedManagers --------------------------
(***************************************************************************)
(* Two replicas of the manager over one database, one cluster and one      *)
(* store.  manager-statefulset.yaml deploys one; the row locks of          *)
(* kubernetes_service.py and the tests test_map_merge_lock.py and          *)
(* test_orphan_recovery.py are there for several.                          *)
(*                                                                         *)
(* Each replica runs the whole tick of Scheduler with locals of its own.   *)
(* Between two of its steps the other replica takes any of its steps,      *)
(* except those that wait for a row the first one has locked.              *)
(***************************************************************************)
EXTENDS Integers, FiniteSets

CONSTANTS Jobs, MapTasks, ReduceTasks, Workers, None, JobOf, NumMappers,
          CountJobs, MaxTasks, MaxAborts, Faults

ASSUME TasksAssumption ==
  /\ MapTasks \cap ReduceTasks = {}
  /\ JobOf \in [MapTasks \cup ReduceTasks -> Jobs]
  /\ \A j \in Jobs : /\ \E t \in MapTasks : JobOf[t] = j
                    /\ \E t \in ReduceTasks : JobOf[t] = j

ASSUME NoneAssumption ==
  None \notin Jobs \cup MapTasks \cup ReduceTasks \cup Workers

ASSUME FiniteAssumption ==
  IsFiniteSet(MapTasks \cup ReduceTasks) /\ IsFiniteSet(Workers)

ASSUME BoundsAssumption ==
  /\ NumMappers \in [Jobs -> Nat \ {0}]
  /\ CountJobs \subseteq Jobs
  /\ MaxTasks \in Nat \ {0}
  /\ MaxAborts \in Nat
  /\ Faults \subseteq {"api", "read", "script", "graceful", "killed", "vanish",
                      "ttl"}

VARIABLES
  jobStatus, taskStatus, taskWorker, workerPod, workerStatus, kjob, ktask,
  deleting, input, output, final, aborts,
  pcA, successfulWorkersA, failedWorkersA, forcefulWorkersA, successfulTasksA,
  failedTasksA, forcefulTasksA, endedWorkerA, aliveA, candidatesA,
  orphanWorkerA, mergeJobsA, jobReadA, currentA, pairingA, toSpawnA,
  pcB, successfulWorkersB, failedWorkersB, forcefulWorkersB, successfulTasksB,
  failedTasksB, forcefulTasksB, endedWorkerB, aliveB, candidatesB,
  orphanWorkerB, mergeJobsB, jobReadB, currentB, pairingB, toSpawnB

shared == <<jobStatus, taskStatus, taskWorker, workerPod, workerStatus, kjob,
            ktask, deleting, input, output, final, aborts>>
localsA == <<pcA, successfulWorkersA, failedWorkersA, forcefulWorkersA,
             successfulTasksA, failedTasksA, forcefulTasksA, endedWorkerA,
             aliveA, candidatesA, orphanWorkerA, mergeJobsA, jobReadA,
             currentA, pairingA, toSpawnA>>
localsB == <<pcB, successfulWorkersB, failedWorkersB, forcefulWorkersB,
             successfulTasksB, failedTasksB, forcefulTasksB, endedWorkerB,
             aliveB, candidatesB, orphanWorkerB, mergeJobsB, jobReadB,
             currentB, pairingB, toSpawnB>>
vars == <<shared, localsA, localsB>>

A == INSTANCE SchedulerProperties
  WITH pc <- pcA, successfulWorkers <- successfulWorkersA,
       failedWorkers <- failedWorkersA, forcefulWorkers <- forcefulWorkersA,
       successfulTasks <- successfulTasksA, failedTasks <- failedTasksA,
       forcefulTasks <- forcefulTasksA, endedWorker <- endedWorkerA,
       alive <- aliveA, candidates <- candidatesA, orphanWorker <- orphanWorkerA,
       mergeJobs <- mergeJobsA, jobRead <- jobReadA, current <- currentA,
       pairing <- pairingA, toSpawn <- toSpawnA

B == INSTANCE SchedulerProperties
  WITH pc <- pcB, successfulWorkers <- successfulWorkersB,
       failedWorkers <- failedWorkersB, forcefulWorkers <- forcefulWorkersB,
       successfulTasks <- successfulTasksB, failedTasks <- failedTasksB,
       forcefulTasks <- forcefulTasksB, endedWorker <- endedWorkerB,
       alive <- aliveB, candidates <- candidatesB, orphanWorker <- orphanWorkerB,
       mergeJobs <- mergeJobsB, jobRead <- jobReadB, current <- currentB,
       pairing <- pairingB, toSpawn <- toSpawnB

Init == A!Init /\ B!Init

----
\* SELECT ... FOR UPDATE of a job waits while the other replica holds the row,
\* and so does an UPDATE of its status.
Waits(job, visited) ==
  \A j \in Jobs : j = job => j \notin visited /\ jobStatus'[j] = jobStatus[j]

\* A new row has a uuid of its own, so no id is used again that a replica still
\* holds in a variable.
NewRowsAvoid(ws) ==
  \A w \in ws \ {None} : workerPod[w] = None => workerPod'[w] = None

Known(read, paired, listed) ==
  listed \cup {read[t] : t \in MapTasks \cup ReduceTasks}
         \cup {paired[t] : t \in MapTasks \cup ReduceTasks}

KnownByA ==
  Known(endedWorkerA, pairingA, aliveA \cup successfulWorkersA \cup
                                failedWorkersA \cup forcefulWorkersA)
    \cup Known(orphanWorkerA, pairingA, {})
KnownByB ==
  Known(endedWorkerB, pairingB, aliveB \cup successfulWorkersB \cup
                                failedWorkersB \cup forcefulWorkersB)
    \cup Known(orphanWorkerB, pairingB, {})

TickA ==
  /\ A!Tick
  /\ Waits(currentB, mergeJobsA \ mergeJobsA')
  /\ NewRowsAvoid(KnownByB)
  /\ UNCHANGED localsB

TickB ==
  /\ B!Tick
  /\ Waits(currentA, mergeJobsB \ mergeJobsB')
  /\ NewRowsAvoid(KnownByA)
  /\ UNCHANGED localsA

\* A replica that dies gives its locks back.  Bound: it dies only while it holds
\* one, since deaths elsewhere are those of Scheduler.
AbortA ==
  /\ currentA # None
  /\ A!Abort
  /\ UNCHANGED localsB

Environment == (A!Client \/ A!Cluster) /\ UNCHANGED localsB

Next == TickA \/ TickB \/ AbortA \/ Environment

Spec == Init /\ [][Next]_vars

----
\* test_map_merge_lock.py: whatever the other replica did since the fast path
\* read the job, the parts are written and the REDUCE tasks added only while
\* the job has none.
ReducersCreatedOnce ==
  /\ pcA = "partitioned" =>
       \A t \in A!ReducesOf(currentA) : taskStatus[t] = "NONE"
  /\ pcB = "partitioned" =>
       \A t \in B!ReducesOf(currentB) : taskStatus[t] = "NONE"

\* The output of a job is merged once: a replica that has written it holds a
\* job that is not COMPLETED yet.  The status it checked may be older than its
\* lock; the parts that the winner removed are what keeps the loser away.
OutputMergedOnce ==
  /\ pcA \in {"written", "cleaned"} => jobStatus[currentA] # "COMPLETED"
  /\ pcB \in {"written", "cleaned"} => jobStatus[currentB] # "COMPLETED"

----
\* The inductive invariants: no two replicas hold the same job, ...
LocksExclusive == currentA # None => currentA # currentB

ShuffleInv ==
  /\ A!TypeOK /\ A!PlannedOnly /\ A!LockHeld
  /\ B!TypeOK /\ B!PlannedOnly /\ B!LockHeld
  /\ LocksExclusive
  /\ ReducersCreatedOnce

\* ... and a job that was merged cannot be merged again.
MergeInv == A!MergedParts /\ B!MergedParts /\ OutputMergedOnce

----
\* kubernetes_service.py:406 and 464-468, "Reset tasks whose K8s Job has
\* vanished", "another replica may have re-assigned the task to a fresh worker
\* ... we leave it alone": no task of a pod that runs goes back to IDLE.
FreshWorkerLeftAlone ==
  [][\A t \in MapTasks \cup ReduceTasks :
       taskStatus[t] = "IN_PROGRESS" /\ taskStatus'[t] = "IDLE" =>
         taskWorker[t] = None \/ kjob[taskWorker[t]] # "running"]_vars
=============================================================================
