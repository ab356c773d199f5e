SPECIFICATION Spec
CONSTANTS
  j1 = j1
  None = None
  Jobs = {j1}
  MapTasks = {m1}
  ReduceTasks = {r1}
  Workers = {w1}
  JobOf <- OneJob
  NumMappers <- OneMapper
  CountJobs = {j1}
  MaxTasks = 1
  MaxAborts = 1
  Faults = {"killed"}
SYMMETRY AnyWorker
CHECK_DEADLOCK FALSE
INVARIANTS
  ReducersCreatedOnce
  OutputMergedOnce
