-------------------------- MODULE MCTaskExecutor --------------------------
(* Small boards for TaskExecutor: what the rows name, and their queue order. *)
EXTENDS TaskExecutor, TLC

CONSTANTS t1, t2, t3

\* Targets: t1 a graph, t2 an agent, t3 neither.
Targets == [t \in Task |-> CASE t = t1 -> "graph" [] t = t2 -> "agent" [] OTHER -> "none"]

\* Ways in: all by board clients; t2 by POST /v1/runs and t3 the placeholder of
\* a schedule.
Board     == [t \in Task |-> "board"]
MixedWays == [t \in Task |-> CASE t = t2 -> "api" [] t = t3 -> "schedule" [] OTHER -> "board"]

\* Dependencies: none; t2 depends on t1.
NoDeps == [t \in Task |-> {}]
Child  == [t \in Task |-> IF t = t2 THEN {t1} ELSE {}]

\* Equal priorities.
Flat == [t \in Task |-> 0]

OneRetry == [t \in Task |-> 1]
T1Retries == [t \in Task |-> IF t = t1 THEN 1 ELSE 0]

Symmetry == Permutations(Slot) \cup Permutations(Exec)
=============================================================================
