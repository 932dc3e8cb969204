----------------------------- MODULE TaskStore -----------------------------
(***************************************************************************)
(* The `tasks' table of agent_runtime/task_store.py, one variable per      *)
(* column the scheduling decisions read, and one operator per statement    *)
(* that writes the table.  The store keeps a cache of Task objects in      *)
(* front of the rows; every writer of this daemon updates or evicts the    *)
(* cached object in the same synchronous call that writes the row, so the  *)
(* two never differ between two steps of the event loop and one copy is    *)
(* modelled.  attempt_token is written and cleared together with           *)
(* owner_agent = "task-executor" by every statement (dequeue, its revert,  *)
(* requeue, reset_orphans), so owner stands for both.                      *)
(***************************************************************************)
EXTENDS Naturals, FiniteSets

CONSTANTS
  Task,        \* task ids
  NoTask,      \* "no task"
  Exec,        \* execution ids; also the bound on executions started
  NoExec,      \* the empty evidence_ref
  Target,      \* Target[t]: what the row names: an agent, a graph or neither
  Ingress,     \* Ingress[t]: task.submit by a board client, POST /v1/runs
               \* (owner_agent = "api"), or the placeholder row of a schedule
  DependsOn,   \* DependsOn[t]: depends_on
  Priority,    \* Priority[t]: priority
  MaxRetries   \* MaxRetries[t]: max_retries

ASSUME NullAssumption == NoTask \notin Task /\ NoExec \notin Exec

ASSUME FiniteAssumption == IsFiniteSet(Task)

ASSUME RowAssumption ==
  /\ Target \in [Task -> {"agent", "graph", "none"}]
  /\ Ingress \in [Task -> {"board", "api", "schedule"}]
  /\ \A t \in Task : Ingress[t] = "api" => Target[t] # "none"
  /\ DependsOn \in [Task -> SUBSET Task]
  /\ Priority \in [Task -> Nat]
  /\ MaxRetries \in [Task -> Nat]

VARIABLES
  status,       \* status; "absent" before submit, "deleted" after the row is gone
  owner,        \* owner_agent
  retries,      \* retry_count
  born,         \* rank of created_at
  evidenceRef,  \* evidence_ref, the execution whose jsonl file it names
  needsFix      \* rows with review_state = needs_fix

table == <<status, owner, retries, born, evidenceRef, needsFix>>

Terminal == {"completed", "failed", "canceled"}
Status   == {"absent", "pending", "running", "deleted"} \cup Terminal
Owner    == {"none", "api", "executor"}

TableInit ==
  /\ status = [t \in Task |-> "absent"]
  /\ owner = [t \in Task |-> "none"]
  /\ retries = [t \in Task |-> 0]
  /\ born = [t \in Task |-> 0]
  /\ evidenceRef = [t \in Task |-> NoExec]
  /\ needsFix = {}

Present(t) == status[t] \notin {"absent", "deleted"}

(***************************************************************************)
(* Reads.  A definition commented "Mistake:" is what the one after it      *)
(* would be with a plausible slip; no action uses it.                      *)
(***************************************************************************)

\* Mistake: depends_on is not consulted.
DepsIgnored(t) == TRUE

\* A missing dependency row blocks as much as an unfinished one.
DepsMet(t) == \A d \in DependsOn[t] : status[d] = "completed"

\* Mistake: the subquery forgets owner_agent = ''.
ClaimableOwned == {t \in Task : status[t] = "pending" /\ Ingress[t] # "schedule"}

Claimable == {t \in Task : /\ status[t] = "pending"
                           /\ owner[t] = "none"
                           /\ Ingress[t] # "schedule"}

Before(t, u) == \/ Priority[t] > Priority[u]
                \/ Priority[t] = Priority[u] /\ born[t] <= born[u]

\* The row the subquery of dequeue selects.
Head(t) == t \in Claimable /\ \A u \in Claimable : Before(t, u)

(***************************************************************************)
(* Writes                                                                  *)
(***************************************************************************)

\* submit, for an idempotency key no row holds yet.
InsertRow(t) ==
  /\ status' = [status EXCEPT ![t] = "pending"]
  /\ owner' = [owner EXCEPT ![t] = IF Ingress[t] = "api" THEN "api" ELSE "none"]
  /\ born' = [born EXCEPT ![t] = Cardinality({u \in Task : status[u] # "absent"})]
  /\ UNCHANGED <<retries, evidenceRef, needsFix>>

\* update_status: whatever the row's status was, nothing when it is gone.
UpdateStatus(t, s) ==
  /\ status' = [status EXCEPT ![t] = IF Present(t) THEN s ELSE @]
  /\ UNCHANGED <<owner, retries, born, needsFix>>

\* update_status then set_evidence, one after the other without an await.
UpdateStatusAndEvidence(t, s, e) ==
  /\ UpdateStatus(t, s)
  /\ evidenceRef' = [evidenceRef EXCEPT ![t] = IF Present(t) THEN e ELSE @]

\* cancel refuses only a completed or an already canceled row.
Cancelable(t) == Present(t) /\ status[t] \notin {"completed", "canceled"}

\* rerun leaves owner_agent as it is.
RerunRow(t) ==
  /\ status' = [status EXCEPT ![t] = "pending"]
  /\ retries' = [retries EXCEPT ![t] = @ + 1]
  /\ UNCHANGED <<owner, born, evidenceRef, needsFix>>

\* delete, and the DELETE of reap_expired.
DeleteRow(t) ==
  /\ status' = [status EXCEPT ![t] = "deleted"]
  /\ UNCHANGED <<owner, retries, born, evidenceRef, needsFix>>

\* The UPDATE ... RETURNING of dequeue.
ClaimRow(t) ==
  /\ status' = [status EXCEPT ![t] = "running"]
  /\ owner' = [owner EXCEPT ![t] = "executor"]
  /\ UNCHANGED <<retries, born, evidenceRef, needsFix>>

RequeueRow(t) ==
  /\ status' = [status EXCEPT ![t] = "pending"]
  /\ owner' = [owner EXCEPT ![t] = "none"]
  /\ retries' = [retries EXCEPT ![t] = @ + 1]
  /\ UNCHANGED <<born, evidenceRef, needsFix>>

Orphan(t) == status[t] = "running" /\ owner[t] = "executor"

\* The rows a dead process left claimed, as reset_orphans(_OWNER) rewrites them.
ResetOrphans ==
  /\ status' = [t \in Task |-> IF Orphan(t) THEN "pending" ELSE status[t]]
  /\ owner' = [t \in Task |-> IF Orphan(t) THEN "none" ELSE owner[t]]
  /\ UNCHANGED <<retries, born, evidenceRef, needsFix>>

TableTypeOK ==
  /\ status \in [Task -> Status]
  /\ owner \in [Task -> Owner]
  /\ retries \in [Task -> Nat]
  /\ born \in [Task -> Nat]
  /\ evidenceRef \in [Task -> Exec \cup {NoExec}]
  /\ needsFix \subseteq Task
=============================================================================
