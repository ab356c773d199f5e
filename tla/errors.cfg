SPECIFICATION Spec
CONSTANTS
  j1 = j1
  j2 = j2
  m1 = m1
  m2 = m2
  r1 = r1
  r2 = r2
  None = None
  Jobs = {j1}
  MapTasks = {m1, m2}
  ReduceTasks = {r1}
  Workers = {w1, w2}
  JobOf <- OneJob
  NumMappers <- TwoMappers
  CountJobs = {j1}
  MaxTasks = 1
  MaxAborts = 0
  Faults = {"api", "graceful", "killed", "vanish", "ttl"}
SYMMETRY AnyWorkerOrMap
INVARIANTS
  MapBarrier
  ActiveWithinLimit
  InputOutlivesTask
  NoStrandedTask
  NoLeakedSlot
PROPERTIES
  HealthyWorkerNeverReset
  ImplementsLifecycle
