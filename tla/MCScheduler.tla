---------------------------- MODULE MCScheduler ----------------------------
(***************************************************************************)
(* Instances of Scheduler for TLC.                                         *)
(***************************************************************************)
EXTENDS SchedulerProperties, TLC

CONSTANTS j1, j2, m1, m2, r1, r2

\* One job owns every task, or two jobs own a MAP and a REDUCE task each.
OneJob == [t \in Tasks |-> j1]
TwoJobs == [t \in Tasks |-> IF t \in {m1, r1} THEN j1 ELSE j2]

TwoMappers == [j \in Jobs |-> 2]
OneMapper == [j \in Jobs |-> 1]

AnyWorker == Permutations(Workers)

\* The MAP tasks of one job are as alike as the workers.
AnyWorkerOrMap == Permutations(Workers) \cup Permutations(MapTasks)
=============================================================================
