------------------------ MODULE MCReplicatedManagers ------------------------
(***************************************************************************)
(* Instances of ReplicatedManagers for TLC.                                *)
(***************************************************************************)
EXTENDS ReplicatedManagers, TLC

CONSTANTS j1

OneJob == [t \in MapTasks \cup ReduceTasks |-> j1]
OneMapper == [j \in Jobs |-> 1]

AnyWorker == Permutations(Workers)
=============================================================================
