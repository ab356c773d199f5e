------------------------------ MODULE Scheduler ------------------------------
(***************************************************************************)
(* The scheduling loop of the manager service                              *)
(* (src/manager_service/app/services/kubernetes_service.py): one manager   *)
(* process, as manager-statefulset.yaml deploys it, the Postgres rows it   *)
(* writes, the Kubernetes Jobs it creates and the MinIO objects they read  *)
(* and write.                                                              *)
(*                                                                         *)
(* A tick of the loop is a sequence of database transactions and remote    *)
(* calls.  Each of them is one action, in the order of the code, and pc    *)
(* names the next one.  Between any two of them pods finish, fail, are     *)
(* killed or vanish, clients submit jobs, and the tick may die: an         *)
(* exception that reaches _monitor and a crash of the process both leave   *)
(* the committed rows and lose everything the tick had in memory.          *)
(***************************************************************************)
EXTENDS Integers, FiniteSets

CONSTANTS
  Jobs,         \* jobs that may be submitted
  MapTasks,     \* MAP tasks that the input split of these jobs yields
  ReduceTasks,  \* REDUCE tasks: num_reducers of them for each job
  Workers,      \* worker ids; one is used again once nothing mentions it
  None,         \* the NULL of a column, the absence of a row
  JobOf,        \* the job of each task
  NumMappers,   \* Job.num_mappers: the number of mappers the client asked for
  CountJobs,    \* jobs whose scripts emit lines "word<TAB>integer" only; those
                \*   of the others have another value or no tab at all
  MaxTasks,     \* MANAGER_MAX_TASKS_PER_CYCLE
  MaxAborts,    \* bound on the number of ticks that die half way
  Faults        \* what may go wrong, a subset of FaultKinds

Tasks == MapTasks \cup ReduceTasks

MapsOf(j) == {t \in MapTasks : JobOf[t] = j}
ReducesOf(j) == {t \in ReduceTasks : JobOf[t] = j}

\* "api":      a call to Kubernetes, MinIO or Postgres fails, where the code
\*             catches the error and carries on with the tick
\* "read":     a read of an object fails inside a merge that skips the object
\* "script":   a script exits with an error after it wrote part of its output
\* "graceful": a pod ends with an exit code below 128
\* "killed":   a pod is killed or evicted
\* "vanish":   the Kubernetes Job of a running pod is removed from outside
\* "ttl":      a finished Job is removed by its ttl before the manager lists it
FaultKinds == {"api", "read", "script", "graceful", "killed", "vanish", "ttl"}

ASSUME TasksAssumption ==
  /\ MapTasks \cap ReduceTasks = {}
  /\ JobOf \in [Tasks -> Jobs]
  /\ \A j \in Jobs : MapsOf(j) # {} /\ ReducesOf(j) # {}

ASSUME NoneAssumption == None \notin Jobs \cup Tasks \cup Workers

ASSUME FiniteAssumption == IsFiniteSet(Tasks) /\ IsFiniteSet(Workers)

ASSUME BoundsAssumption ==
  /\ NumMappers \in [Jobs -> Nat \ {0}]
  /\ CountJobs \subseteq Jobs
  /\ MaxTasks \in Nat \ {0}
  /\ MaxAborts \in Nat
  /\ Faults \subseteq FaultKinds

----
VARIABLES
  jobStatus, taskStatus, taskWorker,  \* tables jobs and tasks ("NONE": no row)
  workerPod,      \* table workers: the task whose name pod_name carries
  workerStatus,   \* table workers: status
  kjob, ktask,    \* the Kubernetes Job worker-<id>: its state and its task
  deleting,       \* workers whose Jobs were told to go and are still there
  input, output,  \* MinIO: objects input_split and data_location of each task
  final,          \* MinIO: object output_path of each job
  aborts,         \* how many ticks died so far
  pc,             \* what the tick does next
  successfulWorkers, failedWorkers, forcefulWorkers,  \* locals of the tick,
  successfulTasks, failedTasks, forcefulTasks,        \*   as the code names
  alive, candidates,                                  \*   them
  endedWorker,    \* worker_pod_id of the failed and forceful tasks, and of the
  orphanWorker,   \*   candidates, as the session read it: None if it did not
  mergeJobs,      \* job_ids_to_process still to be visited
  jobRead,        \* their status as the session read it: "NONE" if it did not
  current,        \* the job whose row the merge loop holds locked
  pairing,        \* zip(new_tasks, new_workers)
  toSpawn         \* the new_tasks whose Kubernetes Job is still to be created

db == <<jobStatus, taskStatus, taskWorker, workerPod, workerStatus>>
k8s == <<kjob, ktask, deleting>>
minio == <<input, output, final>>
finishedVars == <<successfulWorkers, failedWorkers, forcefulWorkers,
                  successfulTasks, failedTasks, forcefulTasks, endedWorker>>
orphanVars == <<alive, candidates, orphanWorker>>
mergeVars == <<mergeJobs, jobRead, current>>
spawnVars == <<pairing, toSpawn>>
locals == <<finishedVars, orphanVars, mergeVars, spawnVars>>
vars == <<db, k8s, minio, aborts, pc, locals>>

JobStatus == {"SUBMITTED", "RUNNING", "COMPLETED", "FAILED"}
TaskStatus == {"IDLE", "IN_PROGRESS", "COMPLETED", "FAILED"}
KJobState == {"absent", "running", "retrying", "succeeded", "failed", "killed"}
Phases == {"sleep", "pods", "ended", "clear", "delete", "complete", "fail", "force",
           "k8s_delete", "alive", "orphans", "recover", "merge_read", "merge",
           "partitioned", "written", "cleaned", "pick", "insert", "assign",
           "spawn", "activate", "start", "run"}

\* What an object holds: nothing, some of the records it should, or all.
Content == {"absent", "partial", "whole"}

\* Type correctness of the tables, the cluster, the store and the tick.
TypeOK ==
  /\ jobStatus \in [Jobs -> JobStatus \cup {"NONE"}]
  /\ taskStatus \in [Tasks -> TaskStatus \cup {"NONE"}]
  /\ taskWorker \in [Tasks -> Workers \cup {None}]
  /\ workerPod \in [Workers -> Tasks \cup {None}]
  /\ workerStatus \in [Workers -> {"IDLE", "ACTIVE"}]
  /\ kjob \in [Workers -> KJobState]
  /\ ktask \in [Workers -> Tasks \cup {None}]
  /\ deleting \subseteq Workers
  /\ input \in [Tasks -> Content]
  /\ output \in [Tasks -> Content]
  /\ final \in [Jobs -> Content]
  /\ aborts \in 0 .. MaxAborts
  /\ pc \in Phases
  /\ successfulWorkers \subseteq Workers
  /\ failedWorkers \subseteq Workers
  /\ forcefulWorkers \subseteq Workers
  /\ successfulTasks \subseteq Tasks
  /\ failedTasks \subseteq Tasks
  /\ forcefulTasks \subseteq Tasks
  /\ alive \subseteq Workers
  /\ candidates \subseteq Tasks
  /\ endedWorker \in [Tasks -> Workers \cup {None}]
  /\ orphanWorker \in [Tasks -> Workers \cup {None}]
  /\ mergeJobs \subseteq Jobs
  /\ jobRead \in [Jobs -> JobStatus \cup {"NONE"}]
  /\ current \in Jobs \cup {None}
  /\ pairing \in [Tasks -> Workers \cup {None}]
  /\ toSpawn \subseteq Tasks

NoTaskRead == [t \in Tasks |-> None]
NoJobRead == [j \in Jobs |-> "NONE"]

NoFinished ==
  /\ successfulWorkers = {} /\ failedWorkers = {} /\ forcefulWorkers = {}
  /\ successfulTasks = {} /\ failedTasks = {} /\ forcefulTasks = {}
  /\ endedWorker = NoTaskRead
NoOrphans == alive = {} /\ candidates = {} /\ orphanWorker = NoTaskRead
NoMerge == mergeJobs = {} /\ jobRead = NoJobRead /\ current = None
NoSpawn == pairing = [t \in Tasks |-> None] /\ toSpawn = {}

Init ==
  /\ jobStatus = [j \in Jobs |-> "NONE"]
  /\ taskStatus = [t \in Tasks |-> "NONE"]
  /\ taskWorker = [t \in Tasks |-> None]
  /\ workerPod = [w \in Workers |-> None]
  /\ workerStatus = [w \in Workers |-> "IDLE"]
  /\ kjob = [w \in Workers |-> "absent"]
  /\ ktask = [w \in Workers |-> None]
  /\ deleting = {}
  /\ input = [t \in Tasks |-> "absent"]
  /\ output = [t \in Tasks |-> "absent"]
  /\ final = [j \in Jobs |-> "absent"]
  /\ aborts = 0
  /\ pc = "sleep"
  /\ NoFinished /\ NoOrphans /\ NoMerge /\ NoSpawn

----
(***************************************************************************)
(* The endpoint POST /jobs (api/v1/endpoints/jobs.py).  job_add commits    *)
(* the job; the input is split and the MAP tasks are committed later, or   *)
(* never, when the request fails or the process dies in between.           *)
(***************************************************************************)
SubmitJob(j) ==
  /\ jobStatus[j] = "NONE"
  /\ jobStatus' = [jobStatus EXCEPT ![j] = "SUBMITTED"]
  /\ UNCHANGED <<taskStatus, taskWorker, workerPod, workerStatus>>
  /\ UNCHANGED <<k8s, minio, aborts, pc, locals>>

\* Defect: the rows get a status of the jobs table.
AddedAsJobs(ts, t) == IF t \in ts THEN "SUBMITTED" ELSE taskStatus[t]

Added(ts, t) == IF t \in ts THEN "IDLE" ELSE taskStatus[t]

AddMapTasks(j) ==
  /\ jobStatus[j] # "NONE"
  /\ \A t \in MapsOf(j) : taskStatus[t] = "NONE"
  /\ taskStatus' = [t \in Tasks |-> Added(MapsOf(j), t)]
  /\ input' = [t \in Tasks |-> IF t \in MapsOf(j) THEN "whole" ELSE input[t]]
  /\ UNCHANGED <<jobStatus, taskWorker, workerPod, workerStatus>>
  /\ UNCHANGED <<k8s, output, final, aborts, pc, locals>>

----
(***************************************************************************)
(* update_finished_workers: list the Jobs that ended, then bring the tasks *)
(* of their workers up to date.                                            *)
(***************************************************************************)
RunBy(ws) == {t \in Tasks : taskWorker[t] \in ws}

\* What the session's objects of the tasks ts say of their workers.
ReadBySession(ts) == [t \in Tasks |-> IF t \in ts THEN taskWorker[t] ELSE None]

Listed(good, bad, forced) ==
  /\ successfulWorkers' = good
  /\ failedWorkers' = bad
  /\ forcefulWorkers' = forced

EndedTasks(good, bad, forced) ==
  /\ successfulTasks' = good
  /\ failedTasks' = bad
  /\ forcefulTasks' = forced
  /\ endedWorker' = ReadBySession(bad \cup forced)

NothingEnded == Listed({}, {}, {}) /\ EndedTasks({}, {}, {})

\* status.failed counts pods, so it is positive as well while Kubernetes is
\* still retrying an evicted pod.
\* Defect: whatever has ended counts as a success.
EndedJobs == {w \in Workers : kjob[w] \in {"succeeded", "failed", "killed"}}

SucceededJobs == {w \in Workers : kjob[w] = "succeeded"}
FailedJobs == {w \in Workers : kjob[w] \in {"failed", "killed", "retrying"}}

\* The Jobs come first, and one with failed pods is taken for killed ...
ListFinished ==
  /\ pc = "sleep"
  /\ Listed(SucceededJobs, {}, FailedJobs)
  /\ pc' = "pods"
  /\ UNCHANGED <<successfulTasks, failedTasks, forcefulTasks, endedWorker>>
  /\ UNCHANGED <<db, k8s, minio, aborts, orphanVars, mergeVars, spawnVars>>

\* Some container of the Job's pods ended with an exit code below 128, be it 0:
\* a retrying Job may have succeeded since it was listed, and a container that
\* exits with an error is started again in its pod.
ExitedBelow128(w) ==
  \/ kjob[w] \in {"failed", "succeeded"}
  \/ kjob[w] = "retrying" /\ "graceful" \in Faults

\* ... unless its pods, listed afterwards, show such an exit code.  They may be
\* gone, and the last container of the list decides.
ReadExitCodes ==
  /\ pc = "pods"
  /\ \E seen \in SUBSET {w \in forcefulWorkers : ExitedBelow128(w)} :
       Listed(successfulWorkers, failedWorkers \cup seen, forcefulWorkers \ seen)
  /\ pc' = "ended"
  /\ UNCHANGED <<successfulTasks, failedTasks, forcefulTasks, endedWorker>>
  /\ UNCHANGED <<db, k8s, minio, aborts, orphanVars, mergeVars, spawnVars>>

\* get_finished_workers answers three empty lists when Kubernetes does not.
ListFinishedFails ==
  /\ pc \in {"sleep", "pods"}
  /\ "api" \in Faults
  /\ Listed({}, {}, {})
  /\ pc' = "ended"
  /\ UNCHANGED <<successfulTasks, failedTasks, forcefulTasks, endedWorker>>
  /\ UNCHANGED <<db, k8s, minio, aborts, orphanVars, mergeVars, spawnVars>>

ReadEndedTasks ==
  /\ pc = "ended"
  /\ EndedTasks(RunBy(successfulWorkers), RunBy(failedWorkers),
                RunBy(forcefulWorkers))
  /\ pc' = "clear"
  /\ UNCHANGED <<successfulWorkers, failedWorkers, forcefulWorkers>>
  /\ UNCHANGED <<db, k8s, minio, aborts, orphanVars, mergeVars, spawnVars>>

\* Three transactions bring successful tasks up to date.
\* Defect: task_clear_worker_batch is left out.
NotCleared(t) == taskWorker[t]

Cleared(t) == IF t \in successfulTasks THEN None ELSE taskWorker[t]

ClearWorkers ==
  /\ pc = "clear"
  /\ taskWorker' = [t \in Tasks |-> Cleared(t)]
  /\ pc' = "delete"
  /\ UNCHANGED <<jobStatus, taskStatus, workerPod, workerStatus>>
  /\ UNCHANGED <<k8s, minio, aborts, locals>>

\* Deleting rows: the row's pod_name and status go with it.
DeleteRows(ws) ==
  /\ workerPod' = [w \in Workers |-> IF w \in ws THEN None ELSE workerPod[w]]
  /\ workerStatus' =
       [w \in Workers |-> IF w \in ws THEN "IDLE" ELSE workerStatus[w]]

DeleteWorkers ==
  /\ pc = "delete"
  /\ DeleteRows(successfulWorkers)
  /\ pc' = "complete"
  /\ UNCHANGED <<jobStatus, taskStatus, taskWorker>>
  /\ UNCHANGED <<k8s, minio, aborts, locals>>

SetStatus(ts, s) ==
  taskStatus' = [t \in Tasks |-> IF t \in ts THEN s ELSE taskStatus[t]]

CompleteTasks ==
  /\ pc = "complete"
  /\ SetStatus(successfulTasks, "COMPLETED")
  /\ pc' = "fail"
  /\ UNCHANGED <<jobStatus, taskWorker, workerPod, workerStatus>>
  /\ UNCHANGED <<k8s, minio, aborts, locals>>

\* The sessions are made with expire_on_commit=False, so a query that locks a
\* row hands out the object the session already holds, with the attributes of
\* the earlier read; its WHERE clause sees the row as it is.
Remembered(read, t) == IF read[t] = None THEN taskWorker[t] ELSE read[t]

\* Defect: the row of the worker stays.
ResetKeepingRow(t, s, w) ==
  /\ taskStatus' = [taskStatus EXCEPT ![t] = s]
  /\ taskWorker' = [taskWorker EXCEPT ![t] = None]
  /\ UNCHANGED <<workerPod, workerStatus>>

\* One locked transaction moves a task to status s, clears its worker and
\* deletes the row of the worker w it takes the task to have.
Reset(t, s, w) ==
  /\ taskStatus' = [taskStatus EXCEPT ![t] = s]
  /\ taskWorker' = [taskWorker EXCEPT ![t] = None]
  /\ DeleteRows({w})

\* The in-lock guard of both loops over ended tasks.
Resettable(t) == taskStatus[t] = "IN_PROGRESS"

FailTask(t) ==
  /\ pc = "fail"
  /\ t \in failedTasks
  /\ failedTasks' = failedTasks \ {t}
  /\ endedWorker' = [endedWorker EXCEPT ![t] = None]
  /\ \/ /\ Resettable(t)
        /\ Reset(t, "FAILED", Remembered(endedWorker, t))
        /\ jobStatus' = [jobStatus EXCEPT ![JobOf[t]] = "FAILED"]
     \/ ~Resettable(t) /\ UNCHANGED db
  /\ UNCHANGED <<successfulWorkers, failedWorkers, forcefulWorkers,
                 successfulTasks, forcefulTasks>>
  /\ UNCHANGED <<k8s, minio, aborts, pc, orphanVars, mergeVars, spawnVars>>

FailTasksDone ==
  /\ pc = "fail"
  /\ failedTasks = {}
  /\ pc' = "force"
  /\ UNCHANGED <<db, k8s, minio, aborts, locals>>

ResetForceful(t) ==
  /\ pc = "force"
  /\ t \in forcefulTasks
  /\ forcefulTasks' = forcefulTasks \ {t}
  /\ endedWorker' = [endedWorker EXCEPT ![t] = None]
  /\ \/ /\ Resettable(t)
        /\ Reset(t, "IDLE", Remembered(endedWorker, t))
        /\ UNCHANGED jobStatus
     \/ ~Resettable(t) /\ UNCHANGED db
  /\ UNCHANGED <<successfulWorkers, failedWorkers, forcefulWorkers,
                 successfulTasks, failedTasks>>
  /\ UNCHANGED <<k8s, minio, aborts, pc, orphanVars, mergeVars, spawnVars>>

ResetForcefulDone ==
  /\ pc = "force"
  /\ forcefulTasks = {}
  /\ pc' = "k8s_delete"
  /\ UNCHANGED <<db, k8s, minio, aborts, locals>>

\* Kubernetes is told to delete the Jobs of all the listed workers; the error of a
\* call is logged and the next one made.  Deletion is in the foreground: the call
\* returns while the Job and its pod are still there.
\* Defect: the Jobs of killed pods are forgotten.
EndedWorkers == successfulWorkers \cup failedWorkers

ListedWorkers == successfulWorkers \cup failedWorkers \cup forcefulWorkers

ExistingJobs == {w \in Workers : kjob[w] # "absent"}

DeleteWorkerJobs ==
  /\ pc = "k8s_delete"
  /\ \E ws \in SUBSET (ListedWorkers \cap ExistingJobs) :
       /\ "api" \in Faults \/ ws = ListedWorkers \cap ExistingJobs
       /\ deleting' = deleting \cup ws
  /\ NothingEnded
  /\ pc' = "alive"
  /\ UNCHANGED <<db, kjob, ktask, minio, aborts, orphanVars, mergeVars, spawnVars>>

----
(***************************************************************************)
(* recover_orphaned_tasks: tasks in progress whose Kubernetes Job is gone. *)
(***************************************************************************)
Orphans(ws) ==
  {t \in Tasks : /\ taskStatus[t] = "IN_PROGRESS"
                 /\ taskWorker[t] \notin ws \cup {None}}

ListAlive ==
  /\ pc = "alive"
  /\ alive' = ExistingJobs
  /\ pc' = "orphans"
  /\ UNCHANGED <<candidates, orphanWorker>>
  /\ UNCHANGED <<db, k8s, minio, aborts, finishedVars, mergeVars, spawnVars>>

\* Defect: no answer is taken for an empty list.
NoneAlive == pc' = "orphans" /\ UNCHANGED orphanVars

\* What the loop does when the list cannot be had: no task is touched.
AliveUnknown == pc' = "merge_read" /\ UNCHANGED orphanVars

ListAliveFails ==
  /\ pc = "alive"
  /\ "api" \in Faults
  /\ AliveUnknown
  /\ UNCHANGED <<db, k8s, minio, aborts, finishedVars, mergeVars, spawnVars>>

ReadOrphans ==
  /\ pc = "orphans"
  /\ candidates' = Orphans(alive)
  /\ orphanWorker' = ReadBySession(Orphans(alive))
  /\ pc' = "recover"
  /\ UNCHANGED alive
  /\ UNCHANGED <<db, k8s, minio, aborts, finishedVars, mergeVars, spawnVars>>

Orphaned(t) ==
  /\ taskStatus[t] \in {"IN_PROGRESS", "FAILED"}
  /\ Remembered(orphanWorker, t) \notin alive \cup {None}

\* Defect: as in the unused cleanup_stale_workers, the task stays IN_PROGRESS.
RespawnForgotten(t) == Reset(t, "IN_PROGRESS", Remembered(orphanWorker, t))

\* The transaction that gives an orphan back to the scheduler.
Respawn(t) == Reset(t, "IDLE", Remembered(orphanWorker, t))

RecoverTask(t) ==
  /\ pc = "recover"
  /\ t \in candidates
  /\ candidates' = candidates \ {t}
  /\ \/ /\ Orphaned(t) /\ Respawn(t) /\ UNCHANGED jobStatus
        /\ orphanWorker' = [orphanWorker EXCEPT ![t] = None]
     \/ /\ ~Orphaned(t) /\ UNCHANGED db
        /\ orphanWorker' = [orphanWorker EXCEPT ![t] = None]
     \/ /\ "api" \in Faults                \* rolled back, which expires all
        /\ UNCHANGED db                      \* objects; logged; next task
        /\ orphanWorker' = NoTaskRead
  /\ UNCHANGED <<k8s, minio, aborts, pc, finishedVars, alive, mergeVars,
                 spawnVars>>

RecoverDone ==
  /\ pc = "recover"
  /\ candidates = {}
  /\ alive' = {}
  /\ orphanWorker' = NoTaskRead
  /\ pc' = "merge_read"
  /\ UNCHANGED <<db, k8s, minio, aborts, finishedVars, candidates, mergeVars,
                 spawnVars>>

----
(***************************************************************************)
(* check_for_map_merge: shuffle the jobs whose MAP tasks are done, finish  *)
(* those whose REDUCE tasks are done as well.                              *)
(***************************************************************************)
AllCompleted(ts) == \A t \in ts : taskStatus[t] = "COMPLETED"

\* Defect: one finished MAP task is enough.
SomeMapDone(j) == \E t \in MapsOf(j) : taskStatus[t] = "COMPLETED"

\* The fast path: jobs with MAP tasks, none of which is not COMPLETED.
MapsDone(j) == AllCompleted(MapsOf(j))

ReadMergeJobs ==
  /\ pc = "merge_read"
  /\ mergeJobs' = {j \in Jobs : MapsDone(j) /\ jobStatus[j] # "COMPLETED"}
  /\ jobRead' = [j \in Jobs |-> IF j \in mergeJobs' THEN jobStatus[j] ELSE "NONE"]
  /\ pc' = "merge"
  /\ UNCHANGED <<db, k8s, minio, aborts, finishedVars, orphanVars, current,
                 spawnVars>>

\* The in-lock checks.  The status is the one the session read before it had the
\* lock; the REDUCE tasks are read under it for the first time.
StatusRead(j) == IF jobRead[j] = "NONE" THEN jobStatus[j] ELSE jobRead[j]

Open(j) ==
  /\ StatusRead(j) \notin {"COMPLETED", "FAILED"}
  /\ Cardinality(MapsOf(j)) = NumMappers[j]

Reducing(j) == \E t \in ReducesOf(j) : taskStatus[t] # "NONE"

\* Defect: the REDUCE tasks are only looked at for failures.
NoReduceFailed(j) == \A t \in ReducesOf(j) : taskStatus[t] # "FAILED"

ReducesDone(j) == AllCompleted(ReducesOf(j))

\* Defect: that there are no REDUCE tasks yet is not looked up again.
AlwaysShufflable(j) == Open(j)

Shufflable(j) == Open(j) /\ ~Reducing(j)
Finalizable(j) == Open(j) /\ Reducing(j) /\ ReducesDone(j)

\* validate_map_outputs and validate_reducers raise when an object is not there.
ObjectsThere(ts) == \A t \in ts : input[t] # "absent" /\ output[t] # "absent"
MapOutputsValid(j) == ObjectsThere(MapsOf(j))

\* Defect: the validation "for debugging only" is removed.
Unvalidated(j) == j \in Jobs

ReducersValid(j) == ObjectsThere(ReducesOf(j))

\* What a merge of objects holds: all records if every object was whole and
\* was read.
Merged(objects, ts) ==
  {IF \A t \in ts : objects[t] = "whole" THEN "whole" ELSE "partial"}
    \cup {c \in {"partial"} : "read" \in Faults}

\* validate_reducers converts the value of every line with a tab to an integer as
\* well, which raises in the jobs whose scripts emit something else; it skips the
\* lines without one.
Raises(j) ==
  \/ Shufflable(j) /\ ~MapOutputsValid(j)
  \/ Finalizable(j) /\ (~ReducersValid(j) \/ j \notin CountJobs)
  \/ "api" \in Faults

\* The job is visited; a rollback makes the session forget every object.
Visit(j) ==
  /\ pc = "merge"
  /\ j \in mergeJobs
  /\ mergeJobs' = mergeJobs \ {j}

Kept(j) == jobRead' = [jobRead EXCEPT ![j] = "NONE"]

\* An iteration that changes nothing: `continue`, or an exception.
SkipJob(j) ==
  /\ Visit(j)
  /\ \/ ~Shufflable(j) /\ ~Finalizable(j) /\ Kept(j)
     \/ Raises(j) /\ jobRead' = NoJobRead
  /\ UNCHANGED <<db, k8s, minio, aborts, pc, finishedVars, orphanVars, current,
                 spawnVars>>

\* merge_and_partition_map writes the parts ...
PartitionMaps(j) ==
  /\ Visit(j) /\ Kept(j)
  /\ Shufflable(j) /\ MapOutputsValid(j)
  /\ \E c \in Merged(output, MapsOf(j)) :
       input' = [t \in Tasks |-> IF t \in ReducesOf(j) THEN c ELSE input[t]]
  /\ current' = j
  /\ pc' = "partitioned"
  /\ UNCHANGED <<db, k8s, output, final, aborts, finishedVars, orphanVars,
                 spawnVars>>

\* ... and one transaction adds a REDUCE task for each.
AddReduceTasks ==
  /\ pc = "partitioned"
  /\ taskStatus' = [t \in Tasks |-> Added(ReducesOf(current), t)]
  /\ current' = None
  /\ pc' = "merge"
  /\ UNCHANGED <<jobStatus, taskWorker, workerPod, workerStatus>>
  /\ UNCHANGED <<k8s, minio, aborts, finishedVars, orphanVars, mergeJobs,
                 jobRead, spawnVars>>

\* finalize_job: final_reduce_merge writes the output of the job, which that of a
\* job outside CountJobs gets as well if its bad lines have no tab, ...
WriteFinal(j) ==
  /\ Visit(j) /\ Kept(j)
  /\ Finalizable(j) /\ ReducersValid(j)
  /\ \E c \in Merged(output, ReducesOf(j)) :
       final' = [final EXCEPT ![j] = c]
  /\ current' = j
  /\ pc' = "written"
  /\ UNCHANGED <<db, k8s, input, output, aborts, finishedVars, orphanVars,
                 spawnVars>>

\* ... validate_map_reduce splits its lines at the tab and converts the values to
\* integers, which raises for such a job, cleanup_job_files removes every other
\* object of the job, errors of single objects being logged only, ...
TasksOf(j) == MapsOf(j) \cup ReducesOf(j)

Without(objects, ts) ==
  [t \in Tasks |-> IF t \in ts THEN "absent" ELSE objects[t]]

CleanupJobFiles ==
  /\ pc = "written"
  /\ current \in CountJobs
  /\ \E ins, outs \in SUBSET TasksOf(current) :
       /\ "api" \notin Faults =>
            ins = TasksOf(current) /\ outs = TasksOf(current)
       /\ input' = Without(input, ins)
       /\ output' = Without(output, outs)
  /\ pc' = "cleaned"
  /\ UNCHANGED <<db, k8s, final, aborts, locals>>

\* ... and the end of the locked transaction makes the job COMPLETED.
CompleteJob ==
  /\ pc = "cleaned"
  /\ jobStatus' = [jobStatus EXCEPT ![current] = "COMPLETED"]
  /\ current' = None
  /\ pc' = "merge"
  /\ UNCHANGED <<taskStatus, taskWorker, workerPod, workerStatus>>
  /\ UNCHANGED <<k8s, minio, aborts, finishedVars, orphanVars, mergeJobs,
                 jobRead, spawnVars>>

\* validate_partition reads all outputs and parts again.
PartitionUnread == pc = "partitioned" /\ "api" \in Faults

\* validate_map_reduce reads the input and the output of the job.
OutputInvalid ==
  pc = "written" /\ (current \notin CountJobs \/ "api" \in Faults)

CommitFails == pc = "cleaned" /\ "api" \in Faults

\* An exception inside the locked block rolls the rows back, not the objects.
MergeRaises ==
  /\ PartitionUnread \/ OutputInvalid \/ CommitFails
  /\ current' = None
  /\ jobRead' = NoJobRead
  /\ pc' = "merge"
  /\ UNCHANGED <<db, k8s, minio, aborts, finishedVars, orphanVars, mergeJobs,
                 spawnVars>>

MergeDone ==
  /\ pc = "merge"
  /\ mergeJobs = {}
  /\ pc' = "pick"
  /\ UNCHANGED <<db, k8s, minio, aborts, locals>>

----
(***************************************************************************)
(* The end of _schedule: a worker row and a Kubernetes Job for idle tasks. *)
(***************************************************************************)
ActiveCount == Cardinality({w \in Workers : workerStatus[w] = "ACTIVE"})

\* Defect: the running workers are not counted.
WholeRoom == MaxTasks

Room == MaxTasks - ActiveCount

\* Defect: any task without a worker is taken for idle.
WorkerlessTasks ==
  {t \in Tasks : taskStatus[t] \notin {"NONE", "IN_PROGRESS"}
                    /\ taskWorker[t] = None}

IdleTasks ==
  {t \in Tasks : taskStatus[t] = "IDLE" /\ taskWorker[t] = None}

\* SELECT ... LIMIT Room without an order: any Room idle tasks, or all.
Batches ==
  IF Room <= 0 THEN {{}}
  ELSE {ts \in SUBSET IdleTasks :
          \/ Cardinality(ts) = Room
          \/ Cardinality(ts) < Room /\ ts = IdleTasks}

\* A new row gets a new uuid.  Ids are finite here, so one is taken again
\* once neither a row, nor a task, nor a Kubernetes Job mentions it.
FreshWorkers ==
  {w \in Workers : /\ workerPod[w] = None
                   /\ kjob[w] = "absent"
                   /\ \A t \in Tasks : taskWorker[t] # w}

Pairings(ts, ws) ==
  {p \in [ts -> ws] : \A s, t \in ts : p[s] = p[t] => s = t}

NewTasks == {t \in Tasks : pairing[t] # None}
NewWorkers == {pairing[t] : t \in NewTasks}

Paired(p, ts) == [t \in Tasks |-> IF t \in ts THEN p[t] ELSE None]

\* The names of the worker rows once those of p were added for the tasks ts.
Named(p, ts) ==
  [w \in Workers |-> IF \E t \in ts : p[t] = w THEN CHOOSE t \in ts : p[t] = w
                    ELSE workerPod[w]]

NameTaken(t) == \E w \in Workers : workerPod[w] = t

PickNothing ==
  /\ pc = "pick"
  /\ {} \in Batches
  /\ pc' = "sleep"
  /\ UNCHANGED <<db, k8s, minio, aborts, locals>>

ReadIdle ==
  /\ pc = "pick"
  /\ toSpawn' \in Batches \ {{}}
  /\ pc' = "insert"
  /\ UNCHANGED <<db, k8s, minio, aborts, finishedVars, orphanVars, mergeVars,
                 pairing>>

\* worker_add_batch inserts one row for each picked task in one transaction.
AddWorkers ==
  /\ pc = "insert"
  /\ \A t \in toSpawn : ~NameTaken(t)
  /\ \E p \in Pairings(toSpawn, FreshWorkers) :
       /\ pairing' = Paired(p, toSpawn)
       /\ workerPod' = Named(p, toSpawn)
  /\ pc' = "assign"
  /\ UNCHANGED <<jobStatus, taskStatus, taskWorker, workerStatus>>
  /\ UNCHANGED <<k8s, minio, aborts, finishedVars, orphanVars, mergeVars,
                 toSpawn>>

\* pod_name is unique: one name that is taken fails the whole batch, and with
\* it the tick.
AddWorkersRaises ==
  /\ pc = "insert"
  /\ \E t \in toSpawn : NameTaken(t)
  /\ toSpawn' = {}
  /\ pc' = "sleep"
  /\ UNCHANGED <<db, k8s, minio, aborts, finishedVars, orphanVars, mergeVars,
                 pairing>>

\* worker_get_batch reads the new rows back in any order, so a task need not
\* get the row that carries its own name.
AssignWorkers ==
  /\ pc = "assign"
  /\ \E p \in Pairings(NewTasks, NewWorkers) :
       /\ pairing' = Paired(p, NewTasks)
       /\ taskWorker' = [t \in Tasks |->
            IF t \in NewTasks /\ taskWorker[t] = None THEN p[t]
            ELSE taskWorker[t]]
  /\ pc' = "spawn"
  /\ UNCHANGED <<jobStatus, taskStatus, workerPod, workerStatus>>
  /\ UNCHANGED <<k8s, minio, aborts, finishedVars, orphanVars, mergeVars,
                 toSpawn>>

CreateWorkerJob(t) ==
  /\ pc = "spawn"
  /\ t \in toSpawn
  /\ kjob' = [kjob EXCEPT ![pairing[t]] = "running"]
  /\ ktask' = [ktask EXCEPT ![pairing[t]] = t]
  /\ toSpawn' = toSpawn \ {t}
  /\ UNCHANGED <<db, deleting, minio, aborts, pc, finishedVars, orphanVars, mergeVars,
                 pairing>>

SpawnDone ==
  /\ pc = "spawn"
  /\ toSpawn = {}
  /\ pc' = "activate"
  /\ UNCHANGED <<db, k8s, minio, aborts, locals>>

\* update_new_workers_and_tasks: three transactions.
ActivateWorkers ==
  /\ pc = "activate"
  /\ workerStatus' =
       [w \in Workers |-> IF w \in NewWorkers /\ workerPod[w] # None
                         THEN "ACTIVE" ELSE workerStatus[w]]
  /\ pc' = "start"
  /\ UNCHANGED <<jobStatus, taskStatus, taskWorker, workerPod>>
  /\ UNCHANGED <<k8s, minio, aborts, locals>>

StartTasks ==
  /\ pc = "start"
  /\ SetStatus(NewTasks, "IN_PROGRESS")
  /\ pc' = "run"
  /\ UNCHANGED <<jobStatus, taskWorker, workerPod, workerStatus>>
  /\ UNCHANGED <<k8s, minio, aborts, locals>>

\* Defect: the UPDATE of the jobs has no WHERE clause.
EveryJob(ts) == Jobs

RunningJobs(ts) == {JobOf[t] : t \in ts}

RunJobs ==
  /\ pc = "run"
  /\ jobStatus' = [j \in Jobs |->
       IF j \in RunningJobs(NewTasks) THEN "RUNNING" ELSE jobStatus[j]]
  /\ pairing' = [t \in Tasks |-> None]
  /\ pc' = "sleep"
  /\ UNCHANGED <<taskStatus, taskWorker, workerPod, workerStatus>>
  /\ UNCHANGED <<k8s, minio, aborts, finishedVars, orphanVars, mergeVars,
                 toSpawn>>

----
(***************************************************************************)
(* A tick dies: an exception reaches _monitor (a failed create of a Job, a *)
(* failed commit, an error inside the loops over ended tasks), or the      *)
(* process stops and is started again.                                     *)
(***************************************************************************)
Abort ==
  /\ pc # "sleep"
  /\ aborts < MaxAborts
  /\ aborts' = aborts + 1
  /\ pc' = "sleep"
  /\ NothingEnded
  /\ alive' = {} /\ candidates' = {} /\ orphanWorker' = NoTaskRead
  /\ mergeJobs' = {} /\ jobRead' = NoJobRead /\ current' = None
  /\ pairing' = [t \in Tasks |-> None] /\ toSpawn' = {}
  /\ UNCHANGED <<db, k8s, minio>>

----
(***************************************************************************)
(* Kubernetes and the pods.  manager_worker/worker.py downloads the input, *)
(* runs the script without looking at its exit code, and uploads what the  *)
(* script wrote.                                                           *)
(***************************************************************************)
Live(w) == kjob[w] \in {"running", "retrying"}

Ends(w, state) == kjob' = [kjob EXCEPT ![w] = state]

Uploads(w) ==
  \E c \in {input[ktask[w]]} \cup {c \in {"partial"} : "script" \in Faults} :
    output' = [output EXCEPT ![ktask[w]] = c]

\* A pod that does not end by itself may have got as far as the upload.
MayUpload(w) == \/ input[ktask[w]] # "absent" /\ Uploads(w)
                \/ UNCHANGED output

PodSucceeds(w) ==
  /\ Live(w)
  /\ input[ktask[w]] # "absent"
  /\ Uploads(w)
  /\ Ends(w, "succeeded")
  /\ UNCHANGED <<db, ktask, deleting, input, final, aborts, pc, locals>>

PodFails(w) ==
  /\ Live(w)
  /\ "graceful" \in Faults \/ input[ktask[w]] = "absent"
  /\ Ends(w, "failed")
  /\ UNCHANGED <<db, ktask, deleting, minio, aborts, pc, locals>>

\* Killed for good.
PodKilled(w) ==
  /\ Live(w)
  /\ "killed" \in Faults
  /\ MayUpload(w)
  /\ Ends(w, "killed")
  /\ UNCHANGED <<db, ktask, deleting, input, final, aborts, pc, locals>>

\* The pod is gone and Kubernetes starts another for the same Job.
PodEvicted(w) ==
  /\ kjob[w] = "running"
  /\ "killed" \in Faults
  /\ MayUpload(w)
  /\ Ends(w, "retrying")
  /\ UNCHANGED <<db, ktask, deleting, input, final, aborts, pc, locals>>

\* The Job is gone, and its pod with it.
Gone(w) ==
  /\ IF Live(w) THEN MayUpload(w) ELSE UNCHANGED output
  /\ Ends(w, "absent")
  /\ ktask' = [ktask EXCEPT ![w] = None]
  /\ deleting' = deleting \ {w}
  /\ UNCHANGED <<db, input, final, aborts, pc, locals>>

JobVanishes(w) ==
  /\ kjob[w] # "absent"
  /\ IF Live(w) THEN "vanish" \in Faults ELSE "ttl" \in Faults
  /\ Gone(w)

\* A Job that was told to go does, at any time after its deletion was requested:
\* its pod has a grace period, in which it may come to an end of its own.
JobDeleted(w) == w \in deleting /\ Gone(w)

----
Finish ==
  \/ ListFinished \/ ReadExitCodes \/ ListFinishedFails \/ ReadEndedTasks
  \/ ClearWorkers \/ DeleteWorkers \/ CompleteTasks
  \/ \E t \in Tasks : FailTask(t) \/ ResetForceful(t)
  \/ FailTasksDone \/ ResetForcefulDone \/ DeleteWorkerJobs

Recover ==
  \/ ListAlive \/ ListAliveFails \/ ReadOrphans
  \/ \E t \in Tasks : RecoverTask(t)
  \/ RecoverDone

Merge ==
  \/ ReadMergeJobs
  \/ \E j \in Jobs : SkipJob(j) \/ PartitionMaps(j) \/ WriteFinal(j)
  \/ AddReduceTasks \/ CleanupJobFiles \/ CompleteJob
  \/ MergeRaises \/ MergeDone

Spawn ==
  \/ PickNothing \/ ReadIdle \/ AddWorkers \/ AddWorkersRaises
  \/ AssignWorkers
  \/ \E t \in Tasks : CreateWorkerJob(t)
  \/ SpawnDone \/ ActivateWorkers \/ StartTasks \/ RunJobs

Tick == Finish \/ Recover \/ Merge \/ Spawn

Client == \E j \in Jobs : SubmitJob(j) \/ AddMapTasks(j)

Cluster ==
  \E w \in Workers : \/ PodSucceeds(w) \/ PodFails(w) \/ PodKilled(w)
                     \/ PodEvicted(w) \/ JobVanishes(w) \/ JobDeleted(w)

Next == Tick \/ Abort \/ Client \/ Cluster

Spec == Init /\ [][Next]_vars

\* The event loop keeps running the monitor coroutine; a pod that is left alone
\* ends, as active_deadline_seconds bounds the time it has; and a Job that was told
\* to go does, as the grace period of its pod is bounded.
Fairness ==
  /\ WF_vars(Tick)
  /\ \A w \in Workers : WF_vars(PodSucceeds(w)) /\ WF_vars(JobDeleted(w))

\* Pods fail, are killed, evicted and removed only finitely often: in an
\* environment that kills every pod no task ends, and a script that fails each
\* time without its exit code being seen is run again for ever.
Disturbance ==
  \E w \in Workers : \/ PodFails(w) \/ PodKilled(w)
                     \/ PodEvicted(w) \/ JobVanishes(w)

FairSpec == Spec /\ Fairness /\ <>[][~Disturbance]_vars
=============================================================================
