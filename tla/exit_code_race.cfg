SPECIFICATION Spec
CONSTANTS
  j1 = j1
  j2 = j2
  m1 = m1
  m2 = m2
  r1 = r1
  r2 = r2
  None = None
  Jobs = {j1}
  MapTasks = {m1}
  ReduceTasks = {r1}
  Workers = {w1, w2}
  JobOf <- OneJob
  NumMappers <- OneMapper
  CountJobs = {j1}
  MaxTasks = 2
  MaxAborts = 0
  Faults = {"killed"}
PROPERTY SuccessNotFailed
