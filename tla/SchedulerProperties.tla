------------------------- MODULE SchedulerProperties -------------------------
(***************************************************************************)
(* What the scheduling loop promises, and what the repository says of it   *)
(* that it does not keep.                                                  *)
(***************************************************************************)
EXTENDS Scheduler

Exists(ts) == \A t \in ts : taskStatus[t] # "NONE"

\* tasks.worker_pod_id is a foreign key: a task never names a worker whose row
\* is gone, at any commit of the tick; otherwise a transaction of the loop
\* would be refused by Postgres.
ForeignKey ==
  \A t \in Tasks : taskWorker[t] # None => workerPod[taskWorker[t]] # None

\* MAP barrier: the REDUCE tasks of a job exist only when all its MAP tasks are
\* COMPLETED, and no MAP task leaves COMPLETED afterwards.
MapBarrier ==
  \A j \in Jobs :
    (\E t \in ReducesOf(j) : taskStatus[t] # "NONE") =>
      \A t \in MapsOf(j) : taskStatus[t] = "COMPLETED"

\* A COMPLETED task has its output object in MinIO until the output of the job
\* is written, whatever died or failed on the way.
CompletedTaskHasOutput ==
  \A t \in Tasks : taskStatus[t] = "COMPLETED" =>
    output[t] # "absent" \/ final[JobOf[t]] # "absent"

\* A job is COMPLETED only when every one of its tasks is and its output object
\* was merged from the whole output of each.
CompletedJobIsWhole ==
  \A j \in Jobs : jobStatus[j] = "COMPLETED" =>
    /\ \A t \in TasksOf(j) : taskStatus[t] = "COMPLETED"
    /\ final[j] = "whole"

\* MANAGER_MAX_TASKS_PER_CYCLE bounds the ACTIVE workers over all ticks, the
\* leftovers of failed calls included.
ActiveWithinLimit == ActiveCount <= MaxTasks

\* While calls to Kubernetes succeed, no task has two live Kubernetes Jobs that are
\* there to stay: before a task is spawned again, the deletion of the Job that
\* still runs it was requested.  The pod of that one may run on for its grace
\* period, beside the new one.
NoDoubleSpawn ==
  \A v, w \in Workers \ deleting :
    Live(v) /\ Live(w) /\ ktask[v] = ktask[w] => v = w

\* A pod of a task that is not COMPLETED finds its input: the cleanup never
\* removes an object that a task still to be done will read.
InputOutlivesTask ==
  \A w \in Workers : Live(w) /\ taskStatus[ktask[w]] # "COMPLETED" =>
    input[ktask[w]] # "absent"

\* Between two ticks, none of which died, every unfinished task is either
\* selectable by task_get_all_idle or in progress under a worker.
NoStrandedTask ==
  pc = "sleep" => \A t \in Tasks :
    /\ taskStatus[t] = "IDLE" => taskWorker[t] = None
    /\ taskStatus[t] = "IN_PROGRESS" => taskWorker[t] # None

\* Between two ticks, none of which died, every worker row belongs to a task in
\* progress: a slot of the limit and a pod name are given back.
NoLeakedSlot ==
  pc = "sleep" => \A w \in Workers : workerPod[w] # None =>
    \E t \in Tasks : taskStatus[t] = "IN_PROGRESS" /\ taskWorker[t] = w

\* A step that takes a task back only from a pod that does not run.
HealthyStep ==
  \A t \in Tasks :
    taskStatus[t] = "IN_PROGRESS" /\ taskStatus'[t] = "IDLE" =>
      taskWorker[t] = None \/ kjob[taskWorker[t]] # "running"

\* A task goes back to IDLE only if its worker is not a pod that runs
\* undisturbed: in particular not when Kubernetes cannot be asked.
HealthyWorkerNeverReset == [][HealthyStep]_vars

\* A step that keeps a whole output.
OutputStep == \A j \in Jobs : final[j] = "whole" => final'[j] = "whole"

\* The whole output of a job is never replaced by a partial one, although the
\* objects it was merged from are removed before the job is COMPLETED.
FinalOutputStable == [][OutputStep]_vars

\* A step that keeps what is final.
TerminalStep ==
  /\ \A j \in Jobs : jobStatus[j] = "COMPLETED" => jobStatus'[j] = "COMPLETED"
  /\ \A j \in Jobs : jobStatus[j] = "FAILED" => jobStatus'[j] # "COMPLETED"
  /\ \A t \in Tasks : taskStatus[t] \in {"COMPLETED", "FAILED"} =>
       taskStatus'[t] = taskStatus[t]

\* No handler, late answer or restart takes a job out of COMPLETED or a task out
\* of COMPLETED or FAILED, and none makes a job COMPLETED that is FAILED.
TerminalStates == [][TerminalStep]_vars

\* A job with tasks is COMPLETED in the end, unless one of them is FAILED: killed
\* pods, vanished and expired Jobs only delay it.
JobSettles ==
  \A j \in Jobs :
    Exists(MapsOf(j)) ~> \/ jobStatus[j] = "COMPLETED"
                         \/ \E t \in TasksOf(j) : taskStatus[t] = "FAILED"

----
\* The tables and the store implement the life of a job that a client sees: the
\* steps of the tick, the cluster and a restart are steps of JobLifecycle or
\* leave what the client sees alone.
Lifecycle == INSTANCE JobLifecycle
  WITH submitted <- {j \in Jobs : jobStatus[j] # "NONE"},
       planned   <- {t \in Tasks : taskStatus[t] # "NONE"},
       done      <- {t \in Tasks : taskStatus[t] = "COMPLETED"},
       failed    <- {t \in Tasks : taskStatus[t] = "FAILED"},
       written   <- {j \in Jobs : final[j] # "absent"},
       delivered <- {j \in Jobs : jobStatus[j] = "COMPLETED"}

ImplementsLifecycle == Lifecycle!Spec

----
(***************************************************************************)
(* Inductive invariants.  The promises above hold because of what the tick *)
(* knows between two of its steps: the phases of the tick are part of the  *)
(* reason, so they are part of the invariant.                              *)
(***************************************************************************)

\* The statuses: only unfinished tasks have workers, the tick works on tasks
\* and jobs that are still in the state it read, and a COMPLETED job consists
\* of COMPLETED tasks.
BusyTasksUnfinished ==
  \A t \in Tasks : taskWorker[t] # None => taskStatus[t] \in {"IDLE", "IN_PROGRESS"}

SuccessesUnfinished ==
  /\ pc \in {"clear", "delete", "complete"} =>
       \A t \in successfulTasks : taskStatus[t] \in {"IDLE", "IN_PROGRESS"}
  /\ pc \in {"delete", "complete"} =>
       \A t \in successfulTasks : taskWorker[t] = None

PickedTasks ==
  /\ pc = "insert" => \A t \in toSpawn : taskStatus[t] = "IDLE"
  /\ pc \in {"assign", "spawn", "activate", "start"} =>
       \A t \in NewTasks : taskStatus[t] = "IDLE"
  /\ pc = "run" => \A t \in NewTasks : taskStatus[t] = "IN_PROGRESS"

LockedJob ==
  /\ \A j \in mergeJobs : MapsDone(j)
  /\ pc = "partitioned" =>
       /\ current \in Jobs /\ MapsDone(current)
       /\ \A t \in ReducesOf(current) : taskStatus[t] = "NONE"
  /\ pc \in {"written", "cleaned"} =>
       /\ current \in Jobs /\ Open(current)
       /\ MapsDone(current) /\ ReducesDone(current)

\* A status that the session remembers is that of a job not yet visited.
StatusMemory ==
  /\ \A j \in Jobs : jobRead[j] # "NONE" =>
       /\ jobRead[j] = jobStatus[j]
       /\ j \in mergeJobs
       /\ pc \in {"merge", "partitioned", "written", "cleaned"}
  /\ pc \in {"partitioned", "written", "cleaned"} => jobRead[current] = "NONE"

CompletedJobs ==
  \A j \in Jobs : jobStatus[j] = "COMPLETED" =>
    \A t \in TasksOf(j) : taskStatus[t] = "COMPLETED"

StatusInv ==
  /\ BusyTasksUnfinished
  /\ SuccessesUnfinished
  /\ PickedTasks
  /\ LockedJob
  /\ StatusMemory
  /\ CompletedJobs
  /\ MapBarrier

\* No Job is listed both as succeeded and as failed.
ListsDisjoint ==
  successfulWorkers \cap (failedWorkers \cup forcefulWorkers) = {}

\* The rows: no two tasks share a worker, and a row is deleted only when no
\* task names it any more.
WorkersExclusive ==
  \A s, t \in Tasks : taskWorker[s] # None /\ taskWorker[s] = taskWorker[t] => s = t

SuccessesReleased ==
  /\ pc = "clear" => successfulTasks = RunBy(successfulWorkers)
  /\ pc = "delete" => \A t \in Tasks : taskWorker[t] \notin successfulWorkers

NewRows ==
  pc = "assign" => \A t \in NewTasks :
    /\ workerPod[pairing[t]] # None
    /\ \A s \in Tasks : taskWorker[s] # pairing[t]

\* A worker that the session remembers is still that of the task, so the row
\* that a reset deletes is the row of the task's own worker.
WorkerMemory ==
  /\ pc \in {"clear", "delete", "complete", "fail", "force"} =>
       \A t \in Tasks : endedWorker[t] \in {None, taskWorker[t]}
  /\ pc = "clear" =>
       \A t \in Tasks : endedWorker[t] = None \/ t \notin successfulTasks
  /\ pc = "recover" =>
       \A t \in Tasks : orphanWorker[t] \in {None, taskWorker[t]}

RowInv ==
  /\ ForeignKey
  /\ WorkersExclusive
  /\ WorkerMemory
  /\ SuccessesReleased
  /\ NewRows

\* The Jobs: what a list of Jobs said of a worker stays true while the tick acts
\* on it, and a Job that runs undisturbed is the one its task names.
FinishPhases ==
  {"pods", "ended", "clear", "delete", "complete", "fail", "force", "k8s_delete"}

ListedEnded ==
  /\ pc \notin FinishPhases => ListedWorkers = {}
  /\ \A w \in ListedWorkers : kjob[w] # "running"
  /\ \A w \in successfulWorkers : kjob[w] \in {"succeeded", "absent"}

ResetsListed ==
  pc \in FinishPhases \ {"pods", "ended"} =>
    \A t \in failedTasks \cup forcefulTasks :
      taskWorker[t] \in failedWorkers \cup forcefulWorkers \cup {None}

AliveKnown == pc \in {"orphans", "recover"} => ExistingJobs \subseteq alive

JobNamesTask ==
  \A w \in Workers : kjob[w] # "absent" =>
    /\ ktask[w] \in Tasks
    /\ taskStatus[ktask[w]] # "NONE"
    /\ \A t \in Tasks : taskWorker[t] = w => ktask[w] = t

RunningOwned ==
  \A w \in Workers : kjob[w] = "running" => taskWorker[ktask[w]] = w

NewJobs ==
  /\ pc = "insert" => \A t \in toSpawn : taskWorker[t] = None
  /\ pc = "assign" => toSpawn = NewTasks /\ \A t \in NewTasks :
       taskWorker[t] = None /\ kjob[pairing[t]] = "absent"
  /\ pc = "spawn" => toSpawn \subseteq NewTasks /\ \A t \in NewTasks :
       /\ taskWorker[t] = pairing[t]
       /\ t \in toSpawn => kjob[pairing[t]] = "absent"

JobInv ==
  /\ ListedEnded
  /\ ResetsListed
  /\ AliveKnown
  /\ JobNamesTask
  /\ RunningOwned
  /\ NewJobs

\* While calls to Kubernetes succeed, a retrying Job that lost its task is told to
\* go before the tick comes to spawn anything: a dead tick leaves it to the next.
RetryingOwned ==
  \A w \in Workers \ deleting : kjob[w] = "retrying" =>
    \/ taskWorker[ktask[w]] = w
    \/ pc = "sleep"
    \/ pc \in FinishPhases /\ w \in failedWorkers \cup forcefulWorkers

\* The objects: an unfinished task has its input; what a successful Job has
\* written stays until the output of its job is there.
Produced(t) == output[t] # "absent" \/ final[JobOf[t]] # "absent"

InputsKept ==
  /\ \A t \in Tasks : taskStatus[t] \notin {"NONE", "COMPLETED"} => input[t] # "absent"
  /\ pc = "partitioned" => \A t \in ReducesOf(current) : input[t] # "absent"

OutputsKept ==
  /\ \A w \in Workers : kjob[w] = "succeeded" => Produced(ktask[w])
  /\ pc \in {"pods", "ended"} => \A t \in RunBy(successfulWorkers) : Produced(t)
  /\ pc \in {"clear", "delete", "complete"} => \A t \in successfulTasks : Produced(t)
  /\ \A t \in Tasks : taskStatus[t] = "COMPLETED" => Produced(t)

FinalsKept ==
  /\ pc \in {"written", "cleaned"} => final[current] # "absent"
  /\ \A j \in Jobs : jobStatus[j] = "COMPLETED" => final[j] # "absent"

ObjectInv == InputsKept /\ OutputsKept /\ FinalsKept

\* While scripts write all of their output and every object can be read, no
\* object holds a part of what it should.
NothingPartial ==
  /\ \A t \in Tasks : input[t] # "partial" /\ output[t] # "partial"
  /\ \A j \in Jobs : final[j] # "partial"

\* The slots: the room that task_get_all_idle saw is still there when the rows
\* of the batch become ACTIVE.
RoomKept ==
  /\ pc = "insert" => Cardinality(toSpawn) <= Room
  /\ pc \in {"assign", "spawn", "activate"} => Cardinality(NewTasks) <= Room

SlotInv == ActiveWithinLimit /\ RoomKept

\* While no tick dies: an IDLE task has a worker only while its batch is started,
\* and then each of the batch has; a task in progress has none only while it is
\* being completed, ...
NoneStranded ==
  /\ \A t \in Tasks : taskStatus[t] = "IDLE" /\ taskWorker[t] # None =>
       pc \in {"spawn", "activate", "start"} /\ t \in NewTasks
  /\ pc \in {"spawn", "activate", "start"} =>
       \A t \in NewTasks : taskWorker[t] # None
  /\ \A t \in Tasks : taskStatus[t] = "IN_PROGRESS" /\ taskWorker[t] = None =>
       pc \in {"delete", "complete"} /\ t \in successfulTasks

\* ... and a row belongs to a task, to a batch or to a success.
NoneLeaked ==
  \A w \in Workers : workerPod[w] # None =>
    \/ \E t \in Tasks : taskWorker[t] = w
    \/ pc = "assign" /\ w \in NewWorkers
    \/ pc = "delete" /\ w \in successfulWorkers

\* What a tick relies on whatever other replicas of the manager do between its
\* steps: it works on tasks that exist, and holds a job exactly while it is in
\* the middle of its merge.
PlannedOnly ==
  /\ \A t \in Tasks : taskWorker[t] # None => taskStatus[t] # "NONE"
  /\ Exists(successfulTasks \cup toSpawn \cup NewTasks)

LockHeld ==
  current # None <=> pc \in {"partitioned", "written", "cleaned"}

\* While calls to MinIO succeed, a job that is COMPLETED has lost the parts that
\* a second merge would validate, and no shuffle writes them again.
PartsGone(j) == Reducing(j) /\ \A t \in ReducesOf(j) : input[t] = "absent"

MergedParts ==
  /\ \A j \in Jobs : jobStatus[j] = "COMPLETED" => PartsGone(j)
  /\ pc = "written" => Reducing(current)
  /\ pc = "cleaned" => PartsGone(current)

\* A job whose tasks are there was submitted.
TasksSubmitted ==
  \A t \in Tasks : taskStatus[t] # "NONE" => jobStatus[JobOf[t]] # "NONE"

----
(***************************************************************************)
(* Statements of the repository that the code does not keep.               *)
(***************************************************************************)

\* kubernetes_service.py:213, "Failed (graceful script error -- mark task and
\* job as failed)": a job with a FAILED task stays FAILED.
FailedJobStaysFailed ==
  [][\A j \in Jobs : jobStatus[j] = "FAILED" => jobStatus'[j] = "FAILED"]_vars

\* kubernetes_service.py:213, as above: what makes a task FAILED is an error of its
\* script, never a pod that has succeeded.
SuccessNotFailed ==
  [][\A t \in Tasks : \A w \in Workers :
       taskStatus[t] # "FAILED" /\ taskStatus'[t] = "FAILED" /\ taskWorker[t] = w =>
         kjob[w] # "succeeded"]_vars

\* kubernetes_service.py:417-421: the reset of a task deletes the row that
\* blocks its pod name, so worker_add_batch does not fail when it respawns.
PodNameFree ==
  pc = "pick" => \A t \in IdleTasks : ~NameTaken(t)

\* kubernetes_service.py:406-410: a task whose Kubernetes Job has vanished is
\* reset and respawned.
VanishedTaskRespawned ==
  \A t \in Tasks :
    taskStatus[t] = "IN_PROGRESS" /\ (\A w \in Workers : ktask[w] # t)
      ~> \/ taskStatus[t] \in {"COMPLETED", "FAILED"}
         \/ \E w \in Workers : ktask[w] = t

\* README.md:12, "handles fault tolerance, and returns the final output": a job
\* with tasks is COMPLETED in the end.
JobCompletes ==
  \A j \in Jobs : Exists(MapsOf(j)) ~> jobStatus[j] = "COMPLETED"
=============================================================================
