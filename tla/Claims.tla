------------------------------- MODULE Claims -------------------------------
(***************************************************************************)
(* What the atomic claim of TaskStore.dequeue promises (task_store.py,     *)
(* "claim-atomic", and the ownership check of TaskExecutor._finalize): a   *)
(* task is in the hands of one keeper at a time, a keeper lets go of it    *)
(* itself, and only a crash takes tasks from keepers.                      *)
(***************************************************************************)
CONSTANTS Task, NoTask, Keeper

VARIABLE keeps   \* keeps[k]: the task keeper k is in charge of

Init == keeps = [k \in Keeper |-> NoTask]

\* A free keeper takes a task nobody keeps.
Take(k, t) ==
  /\ keeps[k] = NoTask
  /\ \A j \in Keeper : keeps[j] # t
  /\ keeps' = [keeps EXCEPT ![k] = t]

\* The task goes from one keeper to a free one.
Pass(j, k) ==
  /\ keeps[j] # NoTask /\ keeps[k] = NoTask
  /\ keeps' = [keeps EXCEPT ![j] = NoTask, ![k] = keeps[j]]

Drop(k) ==
  /\ keeps[k] # NoTask
  /\ keeps' = [keeps EXCEPT ![k] = NoTask]

Crash == keeps' = [k \in Keeper |-> NoTask]

Next == \/ \E k \in Keeper : Drop(k) \/ \E t \in Task : Take(k, t)
        \/ \E j, k \in Keeper : Pass(j, k)
        \/ Crash

Spec == Init /\ [][Next]_keeps
=============================================================================
