SPECIFICATION Spec
CONSTANTS
  j1 = j1
  None = None
  Jobs = {j1}
  MapTasks = {m1}
  ReduceTasks = {r1}
  Workers = {w1, w2, w3}
  JobOf <- OneJob
  NumMappers <- OneMapper
  CountJobs = {j1}
  MaxTasks = 1
  MaxAborts = 0
  Faults = {}
SYMMETRY AnyWorker
PROPERTY FreshWorkerLeftAlone
