---------------------------- MODULE JobLifecycle ----------------------------
(***************************************************************************)
(* What the manager promises of a job to the client that polls it: a MAP   *)
(* phase, then a REDUCE phase, then one output, delivered when all of it   *)
(* is there and never by a job that has failed.  Workers, pods, retries,   *)
(* ticks and their deaths are not to be seen.                              *)
(***************************************************************************)
EXTENDS FiniteSets

CONSTANTS Jobs, MapTasks, ReduceTasks, JobOf

VARIABLES
  submitted,  \* jobs the client has posted
  planned,    \* tasks that are to be done
  done,       \* tasks that are COMPLETED
  failed,     \* tasks that are FAILED
  written,    \* jobs whose output is there
  delivered   \* jobs that are COMPLETED

vars == <<submitted, planned, done, failed, written, delivered>>

Maps(j) == {t \in MapTasks : JobOf[t] = j}
Reduces(j) == {t \in ReduceTasks : JobOf[t] = j}
All(j) == Maps(j) \cup Reduces(j)

Init ==
  /\ submitted = {} /\ planned = {} /\ done = {} /\ failed = {}
  /\ written = {} /\ delivered = {}

Submit(j) ==
  /\ j \notin submitted
  /\ submitted' = submitted \cup {j}
  /\ UNCHANGED <<planned, done, failed, written, delivered>>

PlanMaps(j) ==
  /\ j \in submitted
  /\ Maps(j) \cap planned = {}
  /\ planned' = planned \cup Maps(j)
  /\ UNCHANGED <<submitted, done, failed, written, delivered>>

\* The barrier: the REDUCE tasks are planned once, when all MAP tasks are done.
PlanReduces(j) ==
  /\ Maps(j) \subseteq done
  /\ Reduces(j) \cap planned = {}
  /\ planned' = planned \cup Reduces(j)
  /\ UNCHANGED <<submitted, done, failed, written, delivered>>

Finish(ts) ==
  /\ ts \subseteq planned \ (done \cup failed)
  /\ done' = done \cup ts
  /\ UNCHANGED <<submitted, planned, failed, written, delivered>>

Fail(t) ==
  /\ t \in planned \ (done \cup failed)
  /\ failed' = failed \cup {t}
  /\ UNCHANGED <<submitted, planned, done, written, delivered>>

Write(j) ==
  /\ All(j) \subseteq done
  /\ j \notin delivered
  /\ written' = written \cup {j}
  /\ UNCHANGED <<submitted, planned, done, failed, delivered>>

Deliver(j) ==
  /\ All(j) \subseteq done
  /\ j \in written
  /\ delivered' = delivered \cup {j}
  /\ UNCHANGED <<submitted, planned, done, failed, written>>

Next ==
  \/ \E j \in Jobs : \/ Submit(j) \/ PlanMaps(j) \/ PlanReduces(j)
                     \/ Write(j) \/ Deliver(j)
  \/ \E ts \in SUBSET (MapTasks \cup ReduceTasks) : Finish(ts)
  \/ \E t \in MapTasks \cup ReduceTasks : Fail(t)

Spec == Init /\ [][Next]_vars
=============================================================================
