SPECIFICATION Spec
CONSTANTS
  j1 = j1
  j2 = j2
  m1 = m1
  m2 = m2
  r1 = r1
  r2 = r2
  None = None
  Jobs = {j1, j2}
  MapTasks = {m1, m2}
  ReduceTasks = {r1, r2}
  Workers = {w1, w2}
  JobOf <- TwoJobs
  NumMappers <- OneMapper
  CountJobs = {j1}
  MaxTasks = 2
  MaxAborts = 1
  Faults = {"killed", "vanish", "ttl"}
SYMMETRY AnyWorker
INVARIANTS
  TypeOK
  ForeignKey
  CompletedTaskHasOutput
  CompletedJobIsWhole
  NoDoubleSpawn
PROPERTIES
  FinalOutputStable
  TerminalStates
