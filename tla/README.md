# Verification of map-reduce-app

TLA+ specifications of the map-reduce-app repository, TLC configurations that
model-check them and proofs about them checked by TLAPS. Source paths below are
relative to the repository; `kubernetes_service.py` and its neighbours are in
`manager_service/app/services/`, `utility.py` is in `manager_service/app/utils/`.

## 1. The system

A client posts a job (input object, mapper, reducer, numbers of mappers and
reducers) to the manager. The manager splits the input, records one MAP task per
chunk in Postgres, and a monitoring loop turns idle tasks into Kubernetes Jobs
whose pods read and write MinIO objects. When all MAP tasks of a job are done the
loop shuffles their outputs into one part per reducer and adds the REDUCE tasks;
when those are done it merges their outputs and removes everything else.

| Component | State it keeps | Operations | Talks to |
|---|---|---|---|
| Scheduling loop, `kubernetes_service.py` | locals of one tick (lists of ended workers and tasks, zipped pairs) | `_monitor`, `_schedule`, `update_finished_workers`, `recover_orphaned_tasks`, `check_for_map_merge`, `create_worker_names_for_idle_tasks`, `update_new_workers_and_tasks` | tables, Kubernetes, MinIO |
| Tables, `task_service.py`, `worker_service.py`, `job_service.py`, `models/` | rows of jobs, tasks, workers; unique `pod_name`, foreign key `worker_pod_id` | add, update, clear, delete, single row or batch; each commits | Postgres |
| Jobs API, `api/v1/endpoints/jobs.py` | none | `POST /jobs`, reads, `POST /jobs/{id}/recover` (changes nothing) | tables, data path |
| Kubernetes client, `kubernetes_client.py` | none | `create_worker_job`, `delete_worker_job`, lists | Kubernetes |
| Data path, `utility.py`, `minio_service.py` | objects in MinIO | split, validate, merge and partition, final merge, cleanup | MinIO |
| Worker pod, `manager_worker/worker.py` | files of the pod | download, run the script, upload | MinIO |
| Start-up, `main.py`, `core/settings.py` | none | create tables and bucket, start the loop | all |
| Sample scripts, `utils/*map*.py`, `utils/*reduce*.py` | none | lines to lines | - |
| Authentication service | accounts | sign-up, activation, login, deletion | its own Postgres |
| CLI, `ui_service/cli.py` | token file | requests | the two APIs |
| Deployment, `k8s/`, `docker-compose.yml`, manifests | - | - | - |

**What is hard here.** A tick is some twenty database transactions and remote
calls, each committed on its own. Between any two of them pods end, are evicted
or vanish, clients add jobs, and the tick may die: `_monitor` catches every
exception, logs it, and starts the next tick with nothing but the rows. Some calls
fail without ending the tick (a list that is not answered, a Job that is not
deleted, a merge that raises under its lock). Lists are read once and acted on
many transactions later. Objects are removed before the status that makes them
superfluous is committed. The session keeps every object it has loaded
(`expire_on_commit=False`), so that a row read again under its lock still shows the
attributes of the first read; with one manager that is harmless, with two it is not.

**What makes it correct**, by component:

- *Loop*: no task is lost, or spawned again before its old Job was told to go; a task taken back really has
  no healthy pod; every row, slot and pod name is given back; the limit holds over
  all ticks; REDUCE tasks start after the MAP barrier; a job is COMPLETED only with
  the whole result; every job comes to an end.
- *Tables*: references do not dangle; final statuses are final.
- *Data path*: a chunk is a consecutive run of lines and every line is in one chunk;
  every key goes to one part; the final output has each key once, in order.
- *Worker pod*: success means the output is that of the whole input.

`PROJECT.json` lists the hazards line by line with the properties that cover them.

## 2. Modules

| Module | Contents |
|---|---|
| `Scheduler` | one manager process, the tables, the Kubernetes Jobs and the objects: state, actions, specification |
| `JobLifecycle` | the abstract specification: what a client sees of a job |
| `SchedulerProperties` | the properties, the refinement mapping to `JobLifecycle`, the inductive invariants, and the statements of the repository that the code does not keep |
| `MCScheduler` | instances for TLC |
| `ReplicatedManagers` | two managers over one database, cluster and store: two instances of `SchedulerProperties` that share the rows and have locals of their own |
| `MCReplicatedManagers` | its instances |
| `DataPath` | what the objects hold: split, sample scripts, shuffle, final merge |
| `MCDataPath` | its instance: all short inputs over four sample lines |
| `SchedulerProofs` | type correctness, and what one step of a tick does in any typed state, whoever else writes the rows |
| `SchedulerTableProofs` | statuses and rows: the MAP barrier, finality, the foreign key |
| `SchedulerJobProofs` | Kubernetes Jobs: a running pod keeps its task, one Job per task that was not told to go |
| `SchedulerObjectProofs` | objects: inputs, outputs and the final output are there as long as they are needed, and whole; the refinement of `JobLifecycle` |
| `SchedulerSlotProofs` | the limit on workers; stranded tasks and leaked slots |
| `ReplicatedManagersProofs` | two managers: one shuffle, one merge |
| `DataPathSequences` | what the operators of `DataPath` return, for sequences of any length |
| `DataPathProofs` | the split, the shuffle, and that the outputs are the answer for the input |

`Scheduler` knows of an object only whether it is absent, partial or whole and decides
when a step is taken; `DataPath` knows what the object holds and lets the steps of one
job happen whenever their inputs are there. They meet in the objects:
`chunks`, `mapOut`, `parts`, `reduceOut` and `final` of `DataPath` are the `input` and
`output` of MAP tasks, of REDUCE tasks, and the `final` of `Scheduler`.

### How `Scheduler` corresponds to the code

**State.** `jobStatus`, `taskStatus`, `taskWorker` are columns of the tables
(`"NONE"`: no row). `workerPod[w]` is the task whose name the row's `pod_name`
carries (`None`: no row) and need not be the task that names `w` in
`worker_pod_id`. `kjob`, `ktask` are the Kubernetes Job of worker `w` and the task
it was created for, `deleting` the workers whose Jobs were told to go and are still there.
`input`, `output`, `final` say of each object whether it is
absent, holds part of its records or all. The other variables are the locals of a
tick, named as in the code; `pc` names the next step.

**Actions**, in the order of `_schedule` (lines 81-126):

| Group | Code | Actions |
|---|---|---|
| `Finish` | `update_finished_workers`, 194-281 | `ListFinished` (the Jobs) and `ReadExitCodes` (their pods), or `ListFinishedFails`, then `ReadEndedTasks`, then three transactions for successes `ClearWorkers`, `DeleteWorkers`, `CompleteTasks`, one locked transaction per failed task `FailTask` and per killed task `ResetForceful`, last `DeleteWorkerJobs`, which only requests |
| `Recover` | `recover_orphaned_tasks`, 405-496 | `ListAlive` or `ListAliveFails`, `ReadOrphans`, one transaction per candidate `RecoverTask` |
| `Merge` | `check_for_map_merge`, 499-646 | `ReadMergeJobs`, and for each job `PartitionMaps` and `AddReduceTasks`, or `WriteFinal`, `CleanupJobFiles` and `CompleteJob`, or `SkipJob` (a `continue`, or an exception before anything changed). `MergeRaises` is the rollback under the lock: an object that cannot be read while it is partitioned (`PartitionUnread`), a validator that raises (`OutputInvalid`), a commit that fails (`CommitFails`) |
| `Spawn` | 97-126, 145-192 | `ReadIdle` or `PickNothing`, `AddWorkers` or `AddWorkersRaises` (unique `pod_name`), `AssignWorkers`, one `CreateWorkerJob` per pair, `ActivateWorkers`, `StartTasks`, `RunJobs` |
| `Abort` | `_monitor`, 66-74 | the tick dies; the rows, Jobs and objects stay |
| `Client` | `add_job` | `SubmitJob`, and later or never `AddMapTasks` |
| `Cluster` | external, `worker.py` | `PodSucceeds`, `PodFails`, `PodKilled`, `PodEvicted`, `JobVanishes`, `JobDeleted` |

Choices worth knowing:

- `worker_get_batch` has no `ORDER BY`, so `AssignWorkers` pairs the new rows with
  the tasks in any order. `task_get_all_idle` has a limit and no order, so any
  idle tasks of the right number are picked.
- `status.failed` counts pods: a Job that Kubernetes is still retrying is listed
  as failed. Its pods are listed afterwards, and the last container that has ended
  decides: an exit code below 128, be it 0, makes the worker a failed one, none at all a
  killed one. `ReadExitCodes` chooses among what those pods may show by then.
- **Deletion takes time.** `delete_worker_job` asks for propagation in the foreground: the
  call returns while the Job is there, with a deletion timestamp, and its pod has its own
  grace period. `DeleteWorkerJobs` puts the workers into `deleting`; `JobDeleted(w)` removes
  the Job at any later time, and until then it is listed, counted as alive, and its pod may
  read, upload and end like any other. The `gracePeriodSeconds` of the call is that of the Job
  and not of its pod.
- Every place where the code asks for a list and later acts on it is two actions:
  Jobs and the tasks of their workers, Jobs and the tasks in progress, idle tasks and
  the rows added for them.
- **Identity map.** `endedWorker`, `orphanWorker` and `jobRead` are what the session of
  the tick remembers of `worker_pod_id` and of a job's status. A locked re-read answers
  with them (`Remembered`, `StatusRead`) and not with the row, because the session is
  made with `expire_on_commit=False` and the queries do not ask for `populate_existing`;
  a rollback expires them, so they are forgotten where the code rolls back. With one
  manager they never differ from the rows (`WorkerMemory`, `StatusMemory`, proved).
- The pod ignores the script's exit code, so a script that fails after writing
  part of its output gives a successful pod and a `"partial"` object.
- The parts of one job share one quality: if a map output was partial, all parts
  are taken for partial.
- `CountJobs` are the jobs whose scripts emit a tab and an integer in every line. Of the
  others, those with another value after the tab are stopped by `validate_reducers`, which
  converts the values before anything is written; it skips a line without a tab
  (`utility.py:412`), so those with such lines are written by `final_reduce_merge` and stopped
  by `validate_map_reduce`, which splits every line. `SkipJob` is the one and `WriteFinal`
  with `OutputInvalid` the other.
- The loop over Jobs to delete is one action that leaves out any subset of them
  when calls may fail.
- A worker id stands for a uuid. Ids are few, so one is used again when no row, no
  task and no Job mentions it, which no observer can tell from a new one.

`Faults` selects the kinds of faults of an instance; each is named at `FaultKinds`.

### How `ReplicatedManagers` corresponds to the code

The manifest deploys one manager, but the locks of `kubernetes_service.py` and the tests
`test_map_merge_lock.py` and `test_orphan_recovery.py` are written for several. The module
takes every step of `Scheduler` twice, with locals `...A` and `...B` and one set of rows,
Jobs and objects. `Waits` is `SELECT ... FOR UPDATE`: no replica visits a job whose row
the other holds locked, nor changes its status. The short locked transactions on a task
are single actions and need no such guard. `NewRowsAvoid` says that a new uuid is not one
that the other replica still holds in a variable, which the reuse of ids could not tell.

### How `DataPath` corresponds to the code

A word is a number, the order of numbers standing for that of strings; 0 is a word of
which cleaning leaves nothing. A line has a document id or no tab. `hash` is any function from
words to parts, since nothing but its being a function is used of md5. The scripts are
the word count and the inverted index (`app`). `Shuffle` and `FinalMerge` read the
objects in any order (the query has none) and may leave any of them out: the code logs an
object it cannot read and goes on (`unread`). MAP and REDUCE tasks may run again at any
time, as a task does whose pod was killed after its upload. `FinalMerge` is for
`"count"` alone, because the validator before it raises for other values (finding
`not_counting`); the answer of the inverted index is checked on the outputs of the
REDUCE tasks.

Every loop of the code that leaves elements out (blank lines, words that cleaning removes,
pairs of another part or key) is `Kept`, the elements at a set of positions in their
order. `Emit`, `Mapped`, `Reduced` and `Combined` take the script as a parameter and
`Routed` and `Shuffled` the hash, so that each depends on what it is given and on nothing
else of the job. `Put` is an upload over the object of the same name. `Answer` is stated
independently of all of them: where each word is in the lines (`Occurrences`), how often
and in which documents.

### The refinement

`JobLifecycle` is what a client is promised: a job is submitted; its MAP tasks are
planned; each is done or fails, once; REDUCE tasks are planned when all MAP tasks are
done; the output is written when all tasks are done; the job is delivered once it is
written. `SchedulerProperties` maps the tables and the store to it (`Lifecycle`), and
`ImplementsLifecycle` says that every step of a tick, of the cluster and of a
restart is one of its steps or changes nothing the client sees. Tick order, retries, workers and
crashes have no counterpart there. A batch of successes is one step `Finish(ts)`.

## 3. Properties and runs

Passing runs:

| Run | Instance | Shows |
|---|---|---|
| `crashes` | two jobs of one MAP and one REDUCE task, one of them with values that are no integers, two workers, limit 2, one tick dies at any step, pods are killed or evicted, Jobs vanish, expire or take their time to go | `TypeOK`, `ForeignKey`, `CompletedTaskHasOutput`, `CompletedJobIsWhole`, `NoDoubleSpawn`, `FinalOutputStable`, `TerminalStates` |
| `errors` | one job of two MAP tasks and one REDUCE task, limit 1, no dead tick, every call that the loop survives may fail, at any time and any number of times | `MapBarrier`, `ActiveWithinLimit`, `InputOutlivesTask`, `NoStrandedTask`, `NoLeakedSlot`, `HealthyWorkerNeverReset`, `ImplementsLifecycle` |
| `settles` | the same job, limit 2, fairness | `JobSettles` |
| `replicas` | two managers, one job of one MAP and one REDUCE task, one worker id, limit 1, pods are killed or evicted, one manager may die under a lock | `ReducersCreatedOnce`, `OutputMergedOnce` |
| `data_path` | every input of at most four of four sample lines, up to three mappers and two reducers, both applications, every hash, every order and repetition of tasks, every set of objects left out | `TypeOK`, `SplitKeepsLines`, `PartsHoldPairs`, `ReducedToAnswer`, `FinalIsAnswer`, `NothingInvented` |

`NoDoubleSpawn` is about the Jobs that nobody told to go: before a task is spawned again
the deletion of the Job that still runs it was requested, over retried pods, dead ticks
between the reset and the deletion, and late lists. It does not say that the old pod has
ended, and it often has not: two pods of one task do run and upload side by side, in
`crashes` as in the code, and the properties of the objects (`CompletedTaskHasOutput`,
`CompletedJobIsWhole`, `FinalOutputStable`, and in `errors` `InputOutlivesTask`) hold
all the same. It is checked where calls to Kubernetes succeed: a Job whose deletion failed
stays beside the respawned one. `NoStrandedTask` and
`NoLeakedSlot` are checked where no tick dies: a dead tick breaks them, which is the
content of the run `task_stranded`. `ReducersCreatedOnce` holds because the count of
REDUCE tasks is read under the lock; `OutputMergedOnce` holds although the status read
under the lock may be old, because the winner has removed the parts that the loser has
to validate.

Runs that end in a counterexample, each for a sentence of the repository that the
code does not keep (`PROJECT.json`, "findings", quotes it):

| Run | Property | What happens |
|---|---|---|
| `failed_job_reruns` | `FailedJobStaysFailed` | scheduling another task of a FAILED job makes it RUNNING |
| `pod_name_taken` | `PodNameFree` | rows and tasks were crossed, the name of a reset task is still taken, the batch insert raises |
| `task_stranded` | `VanishedTaskRespawned` | one dead tick in the wrong place and a vanished Job is never made good |
| `fewer_chunks` | `JobCompletes` | fewer chunks than `num_mappers`: the job is never shuffled. An input with fewer lines than mappers does this, and one with more too, as the chunk size is rounded up (`utility.py:154`): four lines in three chunks make two |
| `not_counting` | `JobCompletes` | values are not integers: the job is never finished |
| `replica_reset` | `FreshWorkerLeftAlone` | two managers: one lists the Jobs, the other creates the Job of a task, the first reads the task and takes it for an orphan |
| `exit_code_race` | `SuccessNotFailed` | a retried pod succeeds after its Job was listed as failed; its exit code 0 makes task and job FAILED |

**Bounds.** One REDUCE task beside two MAP tasks (`errors`, `settles`) is enough for the barrier,
since a barrier that looks at fewer than all MAP tasks already fails with two; two jobs (`crashes`)
are enough for anything one job does to another through the limit, the shared batch and
the merge loop. That one of them is not in `CountJobs` lets each validator raise, before the
output is written and after it, while the other job goes on. `MaxTasks = 1` in `errors` makes the limit
bite, with a second worker id for a leftover beside the running one; `MaxTasks = 2` in `crashes`
gives batches of two, where rows and tasks can be crossed. Two worker ids suffice for two Jobs of one
task, the old one being deleted and the new one running; while every id is taken by a row or a Job, the
tick waits at `AddWorkers` until one is gone, which is one of the orders of a larger
cluster. `MaxAborts = 1` in `crashes` lets one tick die at any step, and what the next ticks make of
the rows it left is explored to the end; the theorems of section 4 hold for any number of dead
ticks. In `crashes` scripts do not fail, but tasks do: by the race of `exit_code_race`. Workers are
symmetric in the safety runs, and so are the MAP tasks of the one job in `errors`; the
liveness runs use no symmetry. The largest run, `crashes`, has 1.8 million distinct states.

`replicas` is about the locked merge, for which one task of each kind suffices: both
replicas reach every step of it while the other is at every other, and a death gives up a
lock at each point between lock and commit. Deaths elsewhere are left to `crashes`
(`AbortA` is bounded to a holder of a lock). One worker id is enough for the merge, which
looks at no worker; it can be held for good by a dead row or a variable, so the instance
may stop and deadlock is not checked there. In `data_path` four lines over three mappers
give every remainder of the rounding (chunks of equal size, a short last chunk, fewer
chunks than mappers); two reducers separate keys that share a part from keys that do not;
the sample lines are a blank line, a line without a tab, a word that is repeated, and a
word that cleaning removes. A data path whose objects are all written may stop, so
deadlock is not checked.

**Fairness** (`FairSpec`). Weak fairness of `Tick`: the loop is a coroutine of one
event loop that sleeps 5 s and runs again, and each of its steps ends or raises. Weak
fairness of `PodSucceeds(w)`: a pod that nothing disturbs ends, as
`active_deadline_seconds = 600` bounds its time. Weak fairness of `JobDeleted(w)`: a Job
that was told to go does, because the grace period of its pod is bounded. Disturbances happen only finitely
often; without that the code promises nothing, since a node that kills every pod
delays a job for ever. The same formula excludes one behaviour of the code itself: a
script that fails each time while its exit code cannot be read is run again for ever,
because a failure without exit code counts as killed and no attempts are counted.

## 4. Proofs

The theorems hold for any finite sets of jobs, tasks and workers, any limits, any
bound on dead ticks and any set of faults, under the named assumptions of `Scheduler`
and `ReplicatedManagers`: `TasksAssumption` (every task belongs to a job, every job has
tasks of both kinds), `NoneAssumption` (NULL is not an id), `FiniteAssumption`,
`BoundsAssumption`; for `DataPath`, for any inputs, under `WordsAssumption`,
`InputsAssumption`, `SizesAssumption`. What a theorem assumes beyond them is in the table.

| Theorem | States | Under |
|---|---|---|
| `TypeCorrect` | `[]TypeOK` | |
| `MapsBeforeReduces` | `[]MapBarrier` | |
| `FinalStatuses` | `TerminalStates` | |
| `RowsOutliveReferences` | `[]ForeignKey` | |
| `HealthyWorkersKeepTasks` | `HealthyWorkerNeverReset` | |
| `OneLiveJobPerTask` | `[]NoDoubleSpawn` | `"api"` not in `Faults` |
| `OutputsKeptForMerge` | `[]CompletedTaskHasOutput` | |
| `InputsKeptForPods` | `[]InputOutlivesTask` | |
| `CompletedJobsWhole` | `[]CompletedJobIsWhole` | `"script"`, `"read"` not in `Faults` |
| `WholeOutputsStay` | `FinalOutputStable` | `"script"`, `"read"` not in `Faults` |
| `WorkersWithinLimit` | `[]ActiveWithinLimit` | |
| `NothingStranded` | `[](aborts = 0 => NoStrandedTask)` | |
| `NothingLeaked` | `[](aborts = 0 => NoLeakedSlot)` | |
| `Refinement` | `ImplementsLifecycle` | |
| `ReplicasShuffleOnce` | `[]ReducersCreatedOnce` | |
| `ReplicasMergeOnce` | `[]OutputMergedOnce` | `"api"` not in `Faults` |
| `SplitLosesNothing` | `[]SplitKeepsLines` | |
| `ObjectsTyped` | `[]TypeOK` of `DataPath` | |
| `PartsHoldOutputs` | `[]PartsHoldPairs` | |
| `NothingIsAdded` | `[]NothingInvented` | |
| `ReducersAnswer` | `[]ReducedToAnswer` | |
| `OutputIsAnswer` | `[]FinalIsAnswer` | |

**The conditions are needed.** The code ignores the exit code of a script (`worker.py:44`) and
leaves out of a merge an object that it cannot read (`utility.py:203`); these are the conditions
about `"script"` and `"read"`. Without the conditions TLC finds a counterexample to each of the four
on instances of the size of section 3: a Job whose deletion failed stays beside the
respawned one; a script that fails, or a map output that cannot be read, gives a COMPLETED
job with part of its result; a second merge, after a dead tick, that cannot read an object
replaces a whole output by a part, and so does one after a pod that was still being
deleted has overwritten the output of its COMPLETED task with that of a failing script
(`Faults = {"script", "killed"}`, no call failing); a replica whose cleanup failed to
remove the parts lets the other validate them and merge again. A dead tick strands a task
(run `task_stranded`) and leaves rows behind, hence `aborts = 0`: both theorems are about
every behaviour up to its first dead tick. The conditions are those of the runs or weaker,
and everything else that can fail does.

**The invariants.** But for `TypeOK` no property is inductive, because a tick writes what it
read several transactions earlier. The invariants of `SchedulerProperties` say what each
phase of the tick still knows of what it read. TLC checked all of them on the
instances of `crashes`, `errors`, `data_path` or, for two managers, `replicas`, before they were
proved.

- *Statuses*, `StatusInv`: `AddReduceTasks` writes what `PartitionMaps` found under the
  lock, `CompleteTasks` what `ListFinished` found three transactions earlier,
  `StartTasks` what `task_get_all_idle` answered. Successes are unfinished and, once
  cleared, without a worker (`SuccessesUnfinished`), picked tasks are IDLE from the
  read until they are started (`PickedTasks`), the locked job is still open
  (`LockedJob`), a remembered status is that of the row (`StatusMemory`); and only
  unfinished tasks have workers, which is why the successes of a later tick cannot be
  FAILED tasks (`BusyTasksUnfinished`).
- *Rows*, `RowInv`: no two tasks share a worker, so that the row that goes with a reset
  is not named by another task (`WorkersExclusive`); the worker that a reset takes from
  the session is the one the row names (`WorkerMemory`); when the rows of successful
  workers are deleted, every task that named them was cleared (`SuccessesReleased`);
  the rows of a batch are there and named by no task when they are assigned (`NewRows`).
  `ListsDisjoint` (no Job is listed as succeeded and as failed) is inductive on its own
  and proved first.
- *Jobs*, `JobInv`: what a list said stays true while the tick acts on it. A Job that
  was listed as ended never runs again (`ListedEnded`); a task that is to be failed or
  reset has a listed worker or none (`ResetsListed`); every Job that exists while
  orphans are sought was listed as alive, because only the tick itself creates Jobs
  (`AliveKnown`: this is what fails with two managers, run `replica_reset`); a Job
  stands for the task it was created for, and a running one is that task's own worker
  (`JobNamesTask`, `RunningOwned`, `NewJobs`). From these, `HealthyWorkerNeverReset` is a
  case analysis over the three steps that reset. `NoDoubleSpawn` also needs that a
  retrying Job without its task is told to go before the tick comes to spawn
  (`RetryingOwned`): that a dead tick between the reset and the deletion is made good by the
  next, which lists the Job again.
- *Objects*, `ObjectInv`: an unfinished task has its input (`InputsKept`); what a
  successful Job has written is there, or the output of its job is, from the end of the
  pod over the phases of the tick to the COMPLETED row (`OutputsKept`); a job in the last
  two phases of its merge, or COMPLETED, has its output (`FinalsKept`). The cleanup comes
  between `written` and the commit, so `Produced` is a disjunction: a tick that dies
  there is made good by the next one, which finds the output. `NothingPartial` is the
  other half of `CompletedJobIsWhole`, and of `FinalOutputStable`: what a second merge
  finds is whole or missing, and it merges nothing where an object is missing.
- *Slots*, `SlotInv`: the room that was seen when the batch was picked is there until
  its rows become ACTIVE (`RoomKept`), since in a tick nothing else activates rows; the
  rest is cardinalities. `NoneStranded` and `NoneLeaked` name, for each task without
  worker and each row without task, the phase that is about to make it good.
- *Refinement*: every action is mapped to one step of `JobLifecycle` or to a stutter.
  `Finish` needs `SuccessesUnfinished` (a batch of successes is `Finish` of tasks
  that are planned and not done), the merge `LockedJob`, `FinalsKept` and
  `CompletedJobs`, and the MAP tasks of a job `TasksSubmitted`.
- *Two managers*, `ShuffleInv` and `MergeInv`: what one replica reads may be changed by
  the other, so hardly anything of the above survives. What does is stated for a tick in any
  typed state (`PlannedOnly`, `LockHeld`) and proved in `SchedulerProofs` without any
  invariant of `Scheduler`, in a form that the two instances of the module take over.
  `LocksExclusive` and the count under the lock give the shuffle. For the merge, a
  COMPLETED job has REDUCE tasks whose inputs, the parts, are gone (`MergedParts`), and
  parts are written only while a job has no REDUCE tasks: a replica that waited for the
  lock with an old status cannot pass `validate_reducers`.
- *Split*, `SplitInv`: the chunks are the slices of the input the job was submitted
  with. That the slices, put together, are the lines is an induction over the
  recursive function of `FlattenSeq`; the induction theorems of the library take an
  operator and cannot be instantiated, so `DataPathSequences` derives induction over a set
  of numbers from the theorem on minimal elements, and from it that a function defined by
  steps exists. `Kept` and `Sum` are written as such functions for that reason.
- *Data path*, `DataInv`: every object is what its task makes of the objects before it,
  whenever it is run: a map output that is written again is the same, because its chunk is
  (`MapInv`), and once the parts are there so are all outputs, and the parts are those of
  *some* order in which the outputs that were read can come (`ShuffleInv`); likewise for
  `reduceOut` and `final` (`ReduceInv`, `FinalInv`). That this is inductive says that a
  retry after an upload is harmless. What follows from it is about what sequences hold and
  not about their order, so `DataPathSequences` states all of it in one form:
  `Lists(s, D, v)`, the sequence `s` has each place in `D` once, by its value in `v`.
  `Kept` lists the places it is told to (`KeptLists`), `FlattenSeq` the disjoint union
  of what it joins (`FlattenOfLists`), reading in any order the same (`ReadLists`), sorting
  too (`ByKeyLists`), and two sequences that list the same are equal as bags (`ListsBag`).
  `DataPathProofs` follows the places of the input, a line and a word in it (`Places`),
  through the objects: the chunks partition them (`LinesInChunks`, `MapLists`), the parts
  list those that were read and are routed there (`PartsList`), an output of a REDUCE task
  has one line for each word among them (`ReducedList`: the sum of ones is the number of
  places, whatever their order). When nothing was left out these are all places of a
  word, which is the answer; otherwise a subset of them, which is `NothingInvented`.

Each proof has one step per action of the group it is about and frame lemmas
(`StatusFrame`, `RowFrame`, `MemoryFrame`, `PlanFrame` and the like) for the actions that leave
its variables alone.

**Only model-checked.** `JobSettles`, liveness under fairness, is out of the prover's
reach; every other property of the passing runs is stated by a theorem. The
counterexamples of section 3 are TLC's.

## 5. Not modelled

- `cleanup_stale_workers` has no caller; `monitor_running_workers` only logs.
- The single-row variants of the services have no caller outside the tests, and the read-only
  endpoints and `POST /jobs/{id}/recover` change nothing.
- The authentication service: it shares neither a table nor a call with the manager, which
  takes the user id from the request, and each of its handlers is one transaction on one
  row. What is left to say of it is about tokens, which is a question of security and not
  of this project.
- Start-up, the CLI, manifests and scripts: nothing in them runs concurrently with
  the loop; the models take from them the number of replicas and the limit.
- The order of download, run and upload inside a pod: only the uploaded object and the
  end of the pod are seen from outside, and both are choices of `Cluster` (a pod that is
  killed, evicted or removed may or may not have uploaded).
- The spelling of keys and object names, path checks, formats and log lines.
- With two managers, a task that one of them has seen COMPLETED may be set IN_PROGRESS
  by the other, whose `StartTasks` comes late (hazard at `kubernetes_service.py:145`).
  `ReplicatedManagers` reaches it; no sentence of the repository promises the contrary, so no
  run is about it.

## 6. Plan

For two managers, the rows: whether `ForeignKey` holds with two of them, first by TLC.
