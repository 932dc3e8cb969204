------------------------ MODULE TaskExecutorProofs ------------------------
(***************************************************************************)
(* Theorems about TaskExecutor for every board, every number of permits    *)
(* and every bound on crashes, reruns and executions.                      *)
(***************************************************************************)
EXTENDS TaskExecutor, FiniteSetTheorems, TLAPS

\* The columns a statement of the store leaves alone keep their types, and
\* what it writes has its column's type.
LEMMA InsertRowType ==
  ASSUME TableTypeOK, NEW t \in Task, InsertRow(t)
  PROVE  TableTypeOK'
<1>1. Cardinality({u \in Task : status[u] # "absent"}) \in Nat
  BY FiniteAssumption, FS_Subset, FS_CardinalityType
<1>2. (born \in [Task -> Nat])'
  BY <1>1 DEF TableTypeOK, InsertRow
<1>3. QED
  BY <1>2 DEF TableTypeOK, InsertRow, Status, Owner

\* update_status keeps the types of the table.
LEMMA UpdateStatusType ==
  ASSUME TableTypeOK, NEW t \in Task, NEW s \in Status, UpdateStatus(t, s),
         evidenceRef' \in [Task -> Exec \cup {NoExec}]
  PROVE  TableTypeOK'
BY DEF TableTypeOK, UpdateStatus

\* The writeback that also sets evidence_ref keeps the types of the table.
LEMMA UpdateEvidenceType ==
  ASSUME TableTypeOK, NEW t \in Task, NEW s \in Status, NEW e \in Exec,
         UpdateStatusAndEvidence(t, s, e)
  PROVE  TableTypeOK'
<1>1. evidenceRef' \in [Task -> Exec \cup {NoExec}]
  BY DEF TableTypeOK, UpdateStatusAndEvidence
<1>2. QED
  BY <1>1, UpdateStatusType DEF UpdateStatusAndEvidence

\* rerun, delete, the claim and requeue keep the types of the table.
LEMMA WriteRowType ==
  ASSUME TableTypeOK, NEW t \in Task,
         RerunRow(t) \/ DeleteRow(t) \/ ClaimRow(t) \/ RequeueRow(t)
  PROVE  TableTypeOK'
BY DEF TableTypeOK, RerunRow, DeleteRow, ClaimRow, RequeueRow, Status, Owner

\* reset_orphans keeps the types of the table.
LEMMA ResetOrphansType ==
  ASSUME TableTypeOK, ResetOrphans
  PROVE  TableTypeOK'
BY DEF TableTypeOK, ResetOrphans, Status, Owner

(***************************************************************************)
(* Type correctness.                                                       *)
(***************************************************************************)

\* A step that leaves the table alone keeps its types.
LEMMA TableKept ==
  ASSUME TableTypeOK, UNCHANGED table
  PROVE  TableTypeOK'
BY DEF TableTypeOK, table

\* The empty board is well typed.
LEMMA InitType == Init => TypeOK
BY NullAssumption
   DEF Init, TableInit, TypeOK, TableTypeOK, Status, Owner, Evidence, Power, Step, Stage

\* What the clients of the board do.
LEMMA ClientType ==
  ASSUME TypeOK, NEW t \in Task, Client(t)
  PROVE  TypeOK'
<1> USE DEF TypeOK
<1>1. CASE Submit(t)
  BY <1>1, InsertRowType DEF Submit, process
<1>2. CASE ApiSubmit(t)
  BY <1>2, InsertRowType DEF ApiSubmit
<1>3. CASE ApiResubmit(t)
  BY <1>3, TableKept DEF ApiResubmit
<1>4. CASE CancelTask(t)
  <2>1. TableTypeOK'
    BY <1>4, UpdateStatusType DEF CancelTask, TableTypeOK, Status, Terminal
  <2>2. QED
    BY <1>4, <2>1 DEF CancelTask, process
<1>5. CASE RerunTask(t)
  BY <1>5, WriteRowType DEF RerunTask, process
<1>6. CASE DeleteTask(t)
  BY <1>6, WriteRowType DEF DeleteTask, process
<1>7. CASE ReapExpired(t)
  BY <1>7, WriteRowType DEF ReapExpired, process
<1>8. CASE \E s \in ClientStatuses : SetTaskStatus(t, s)
  <2>1. PICK s \in ClientStatuses : SetTaskStatus(t, s)
    BY <1>8
  <2>2. s \in Status
    BY BoundAssumption DEF Status, Terminal
  <2>3. TableTypeOK'
    BY <2>1, <2>2, UpdateStatusType DEF SetTaskStatus, TableTypeOK
  <2>4. QED
    BY <2>1, <2>3 DEF SetTaskStatus, process
<1>9. QED
  BY <1>1, <1>2, <1>3, <1>4, <1>5, <1>6, <1>7, <1>8 DEF Client

\* Starting an execution keeps the types.
LEMMA StartRunType ==
  ASSUME TypeOK, NEW e \in Exec, NEW t \in Task, StartRun(e, t)
  PROVE  /\ TableTypeOK'
         /\ evidence' \in [Exec -> Evidence]
         /\ runTask' \in [Exec -> Task \cup {NoTask}]
         /\ runStage' \in [Exec -> Stage]
<1>1. "running" \in Status
  BY DEF Status
<1>2. TableTypeOK'
  <2>1. CASE Target[t] = "graph"
    BY <1>1, <2>1, UpdateEvidenceType DEF StartRun, TypeOK
  <2>2. CASE Target[t] # "graph"
    BY <1>1, <2>2, UpdateStatusType DEF StartRun, TypeOK, TableTypeOK
  <2>3. QED
    BY <2>1, <2>2
<1>3. evidence' \in [Exec -> Evidence]
  BY DEF StartRun, TypeOK, Evidence
<1>4. QED
  BY <1>2, <1>3 DEF StartRun, Launch, TypeOK, Stage

\* What the handlers of POST /v1/runs do after the row is there.
LEMMA ApiType ==
  ASSUME TypeOK, NEW t \in Task,
         ApiDispatchFails(t) \/ \E e \in Exec : ApiDispatch(t, e)
  PROVE  TypeOK'
<1>1. CASE ApiDispatchFails(t)
  <2>1. TableTypeOK'
    BY <1>1, TableKept, UpdateStatusType DEF ApiDispatchFails, TypeOK, TableTypeOK, Status, Terminal
  <2>2. QED
    BY <1>1, <2>1 DEF ApiDispatchFails, TypeOK
<1>2. CASE \E e \in Exec : ApiDispatch(t, e)
  BY <1>2, StartRunType DEF ApiDispatch, TypeOK
<1>3. QED
  BY <1>1, <1>2

\* What the loop and the workers do.
LEMMA WorkerType ==
  ASSUME TypeOK, WorkerHasTask, NEW w \in Slot, Worker(w)
  PROVE  TypeOK'
<1> USE DEF TypeOK
<1>1. CASE Spawn(w)
  BY <1>1, TableKept DEF Spawn, Step
<1>2. CASE CheckTask(w)
  BY <1>2, TableKept DEF CheckTask, Release, Step
<1>3. CASE DispatchFails(w)
  <2>1. job[w] \in Task
    BY <1>3 DEF DispatchFails, WorkerHasTask
  <2>2. TableTypeOK'
    BY <1>3, <2>1, UpdateStatusType DEF DispatchFails, TableTypeOK, Status, Terminal
  <2>3. QED
    BY <1>3, <2>2 DEF DispatchFails, Step
<1>4. CASE \E e \in Exec : Dispatch(w, e)
  <2>1. PICK e \in Exec : Dispatch(w, e)
    BY <1>4
  <2>2. job[w] \in Task
    BY <2>1 DEF Dispatch, WorkerHasTask
  <2>3. QED
    BY <2>1, <2>2, StartRunType DEF Dispatch, Step
<1>5. CASE AwaitTerminal(w)
  BY <1>5, TableKept DEF AwaitTerminal, Release, Step
<1>6. CASE AwaitCap(w)
  BY <1>6, TableKept DEF AwaitCap, Step
<1>7. CASE Finalize(w)
  <2>1. job[w] \in Task
    BY <1>7 DEF Finalize, WorkerHasTask
  <2>2. TableTypeOK'
    BY <1>7, <2>1, TableKept, WriteRowType DEF Finalize
  <2>3. QED
    BY <1>7, <2>2 DEF Finalize, Release, Step
<1>8. QED
  BY <1>1, <1>2, <1>3, <1>4, <1>5, <1>6, <1>7 DEF Worker

\* What the background executions do, and what cancels them.
LEMMA ExecutionType ==
  ASSUME TypeOK, RunHasTask, NEW e \in Exec, Execution(e) \/ GraphCancel(e)
  PROVE  TypeOK'
<1> USE DEF TypeOK
<1>1. CASE \E s \in {"completed", "failed"} : AgentRunEnds(e, s) \/ GraphRunEnds(e, s)
  <2>1. PICK s \in {"completed", "failed"} : AgentRunEnds(e, s) \/ GraphRunEnds(e, s)
    BY <1>1
  <2>2. s \in Status
    BY DEF Status, Terminal
  <2>3. CASE AgentRunEnds(e, s)
    <3>1. runTask[e] \in Task
      BY <2>3 DEF AgentRunEnds, RunHasTask
    <3>2. TableTypeOK'
      BY <2>2, <2>3, <3>1, UpdateStatusType DEF AgentRunEnds, TableTypeOK
    <3>3. QED
      BY <2>3, <3>2 DEF AgentRunEnds, Stage
  <2>4. CASE GraphRunEnds(e, s)
    BY <2>4, TableKept DEF GraphRunEnds, Stage, Evidence
  <2>5. QED
    BY <2>1, <2>3, <2>4
<1>2. CASE GraphWriteback(e)
  <2>1. runTask[e] \in Task
    BY <1>2 DEF GraphWriteback, RunHasTask
  <2>2. "completed" \in Status /\ "failed" \in Status /\ "canceled" \in Status
    BY DEF Status, Terminal
  <2>3. TableTypeOK'
    <3>1. CASE runStage[e] = "completed"
      BY <1>2, <2>1, <2>2, <3>1, UpdateEvidenceType DEF GraphWriteback
    <3>2. CASE runStage[e] = "failed"
      BY <1>2, <2>1, <2>2, <3>2, UpdateStatusType DEF GraphWriteback, TableTypeOK
    <3>3. CASE runStage[e] = "cancelled"
      BY <1>2, <2>1, <2>2, <3>3, UpdateStatusType DEF GraphWriteback, TableTypeOK
    <3>4. QED
      BY <1>2, <3>1, <3>2, <3>3 DEF GraphWriteback
  <2>4. QED
    BY <1>2, <2>3 DEF GraphWriteback, Stage
<1>3. CASE GraphCancel(e)
  BY <1>3, TableKept DEF GraphCancel, CancelRuns, Evidence, Stage
<1>4. QED
  BY <1>1, <1>2, <1>3 DEF Execution

\* What stop(), a crash and start() do.
LEMMA LifecycleType ==
  ASSUME TypeOK, Lifecycle
  PROVE  TypeOK'
<1> USE DEF TypeOK
<1>1. CASE StopDaemon
  BY <1>1, TableKept DEF StopDaemon, CancelRuns, Evidence, Stage, Power
<1>2. CASE StopExecutor
  BY <1>2, TableKept DEF StopExecutor, Power
<1>3. CASE Die
  BY <1>3, TableKept DEF Die, Stage, Power, Step
<1>4. CASE Boot
  BY <1>4, ResetOrphansType DEF Boot, process, Power
<1>5. CASE Reconcile
  <2>1. \A t \in Task : Verdict(t) \in Status
    BY DEF Verdict, Reconciled, Status, Terminal, TableTypeOK, Evidence
  <2>2. TableTypeOK'
    BY <1>5, <2>1 DEF Reconcile, TableTypeOK
  <2>3. QED
    BY <1>5, <2>2 DEF Reconcile, process, Power
<1>6. QED
  BY <1>1, <1>2, <1>3, <1>4, <1>5 DEF Lifecycle

\* dequeue by the loop keeps the types.
LEMMA ClaimType ==
  ASSUME TypeOK, NEW t \in Task, Claim(t)
  PROVE  TypeOK'
BY WriteRowType DEF Claim, TypeOK

\* All the steps together.
LEMMA TypeStep == TypeOK /\ WorkerHasTask /\ RunHasTask /\ [Next]_vars => TypeOK'
<1> SUFFICES ASSUME TypeOK, WorkerHasTask, RunHasTask, [Next]_vars
             PROVE  TypeOK'
  OBVIOUS
<1>1. CASE UNCHANGED vars
  BY <1>1, TableKept DEF TypeOK, vars, process
<1>2. CASE Next
  BY <1>2, ClientType, ClaimType, ApiType, WorkerType, ExecutionType, LifecycleType DEF Next
<1>3. QED
  BY <1>1, <1>2

(***************************************************************************)
(* The inductive invariant.                                                *)
(***************************************************************************)

\* The part of IInv that is not about types.
Custody == /\ WorkerHasTask /\ RunHasTask /\ DownKeepsNothing
           /\ IngressOwns /\ ApiDueIsApi
           /\ HeldIsOwned /\ ClaimExclusive /\ RetryBudget

\* On the empty board nobody holds anything.
LEMMA InitCustody == Init => Custody
BY NullAssumption, RowAssumption
   DEF Init, TableInit, Custody, WorkerHasTask, RunHasTask, DownKeepsNothing, IngressOwns,
       ApiDueIsApi, HeldIsOwned, Held, ClaimExclusive, RetryBudget

\* No client call disturbs who holds which row.
LEMMA ClientCustody ==
  ASSUME IInv, TypeOK', NEW t \in Task, Client(t)
  PROVE  Custody'
<1> USE DEF IInv, Custody, TypeOK, TableTypeOK, WorkerHasTask, RunHasTask, DownKeepsNothing,
            IngressOwns, ApiDueIsApi, HeldIsOwned, Held, ClaimExclusive, RetryBudget, process, table
<1>1. CASE Submit(t)
  BY <1>1, RowAssumption DEF Submit, InsertRow
<1>2. CASE ApiSubmit(t)
  BY <1>2, RowAssumption DEF ApiSubmit, InsertRow
<1>3. CASE ApiResubmit(t)
  BY <1>3 DEF ApiResubmit, Present
<1>4. CASE CancelTask(t)
  BY <1>4 DEF CancelTask, Cancelable, UpdateStatus, Present
<1>5. CASE RerunTask(t)
  <2>1. \A u \in Task : MaxRetries[u] \in Nat /\ retries[u] \in Nat
    BY RowAssumption
  <2>2. RetryBudget'
    BY <1>5, <2>1 DEF RerunTask, RerunRow
  <2>3. QED
    BY <1>5, <2>2 DEF RerunTask, RerunRow, Present
<1>6. CASE DeleteTask(t)
  BY <1>6 DEF DeleteTask, DeleteRow, Present
<1>7. CASE ReapExpired(t)
  BY <1>7 DEF ReapExpired, DeleteRow, Terminal
<1>8. CASE \E s \in ClientStatuses : SetTaskStatus(t, s)
  BY <1>8, BoundAssumption DEF SetTaskStatus, UpdateStatus, Present, Terminal
<1>9. QED
  BY <1>1, <1>2, <1>3, <1>4, <1>5, <1>6, <1>7, <1>8 DEF Client

\* Starting an execution leaves owners and retries alone and no row absent.
LEMMA StartRunRow ==
  ASSUME IInv, NEW e \in Exec, NEW t \in Task, StartRun(e, t), status[t] # "absent"
  PROVE  /\ \A u \in Task : /\ status'[u] = "absent" <=> status[u] = "absent"
                            /\ status'[u] = "deleted" <=> status[u] = "deleted"
         /\ UNCHANGED <<owner, retries>>
         /\ RunHasTask'
BY DEF IInv, TypeOK, TableTypeOK, StartRun, Launch, UpdateStatusAndEvidence, UpdateStatus, Present,
       RunHasTask

\* The dispatch of POST /v1/runs disturbs no custody.
LEMMA ApiCustody ==
  ASSUME IInv, TypeOK', NEW t \in Task,
         ApiDispatchFails(t) \/ \E e \in Exec : ApiDispatch(t, e)
  PROVE  Custody'
<1> USE DEF IInv, Custody, TypeOK, TableTypeOK, WorkerHasTask, RunHasTask, DownKeepsNothing,
            IngressOwns, ApiDueIsApi, HeldIsOwned, Held, ClaimExclusive, RetryBudget, process, table
<1>1. CASE ApiDispatchFails(t)
  BY <1>1 DEF ApiDispatchFails, UpdateStatus, Present
<1>2. CASE \E e \in Exec : ApiDispatch(t, e)
  <2>1. PICK e \in Exec : ApiDispatch(t, e)
    BY <1>2
  <2>2. status[t] # "absent"
    BY <2>1 DEF ApiDispatch
  <2>3. QED
    BY <2>1, <2>2, StartRunRow DEF ApiDispatch
<1>3. QED
  BY <1>1, <1>2

\* The claim is safe because no keeper has an unowned row (HeldIsOwned).
LEMMA ClaimCustody ==
  ASSUME IInv, TypeOK', NEW t \in Task, Claim(t)
  PROVE  Custody'
<1>1. status[t] = "pending" /\ owner[t] = "none" /\ loop = NoTask /\ Serving
  BY DEF Claim, Head, Claimable
<1>2. \A w \in Slot : job[w] # t
  BY <1>1 DEF IInv, HeldIsOwned, Held
<1>3. Ingress[t] # "api"
  BY <1>1 DEF IInv, IngressOwns
<1>4. QED
  BY <1>1, <1>2, <1>3
     DEF Claim, ClaimRow, Serving, IInv, Custody, TypeOK, TableTypeOK, WorkerHasTask, RunHasTask,
         DownKeepsNothing, IngressOwns, ApiDueIsApi, HeldIsOwned, Held, ClaimExclusive, RetryBudget

\* A worker that lets go of its task.
LEMMA ReleaseCustody ==
  ASSUME IInv, NEW w \in Slot, Serving, Release(w), UNCHANGED <<power, loop>>
  PROVE  /\ WorkerHasTask' /\ DownKeepsNothing' /\ ClaimExclusive'
         /\ \A v \in Slot : job'[v] = IF v = w THEN NoTask ELSE job[v]
BY DEF IInv, TypeOK, Serving, Release, WorkerHasTask, DownKeepsNothing, ClaimExclusive, Step

\* A worker's steps keep custody: a row passes from the loop to one worker and leaves it once.
LEMMA WorkerCustody ==
  ASSUME IInv, TypeOK', NEW w \in Slot, Worker(w)
  PROVE  Custody'
<1> USE DEF IInv, Custody, TypeOK, TableTypeOK, WorkerHasTask, RunHasTask, DownKeepsNothing,
            IngressOwns, ApiDueIsApi, HeldIsOwned, Held, ClaimExclusive, RetryBudget, process, table
<1> USE DEF Serving
<1>1. CASE Spawn(w)
  BY <1>1 DEF Spawn, Step
<1>2. CASE CheckTask(w)
  BY <1>2, NullAssumption DEF CheckTask, Release, Step
<1>3. CASE DispatchFails(w)
  BY <1>3 DEF DispatchFails, UpdateStatus, Present, Step
<1>4. CASE \E e \in Exec : Dispatch(w, e)
  <2>1. PICK e \in Exec : Dispatch(w, e)
    BY <1>4
  <2>2. job[w] \in Task /\ status[job[w]] # "absent"
    BY <2>1 DEF Dispatch
  <2>3. QED
    BY <2>1, <2>2, StartRunRow DEF Dispatch, Step
<1>5. CASE AwaitTerminal(w)
  BY <1>5, NullAssumption DEF AwaitTerminal, Release, Step
<1>6. CASE AwaitCap(w)
  BY <1>6 DEF AwaitCap, Step
<1>7. CASE Finalize(w)
  <2>1. job[w] \in Task
    BY <1>7 DEF Finalize
  <2>2. CASE step[w] = "announceFailed" /\ RetryDue(job[w])
    BY <1>7, <2>1, <2>2, NullAssumption, RowAssumption
       DEF Finalize, RetryDue, Present, RequeueRow, Release, Step
  <2>3. CASE ~(step[w] = "announceFailed" /\ RetryDue(job[w]))
    BY <1>7, <2>1, <2>3, NullAssumption DEF Finalize, Release, Step
  <2>4. QED
    BY <2>2, <2>3
<1>8. QED
  BY <1>1, <1>2, <1>3, <1>4, <1>5, <1>6, <1>7 DEF Worker

\* The write-back of an execution disturbs no claim: it leaves owners alone and
\* does not bring a deleted row back.
LEMMA WritebackCustody ==
  ASSUME IInv, NEW t \in Task, NEW s \in Terminal, UpdateStatus(t, s),
         UNCHANGED <<power, loop, job, step, apiDue, reruns>>
  PROVE  /\ WorkerHasTask' /\ DownKeepsNothing' /\ IngressOwns' /\ ApiDueIsApi'
         /\ HeldIsOwned' /\ ClaimExclusive' /\ RetryBudget'
<1>1. \A u \in Task : /\ status[u] = "absent" => status'[u] = "absent"
                      /\ status[u] # "absent" => status'[u] # "absent"
                      /\ status[u] = "deleted" => status'[u] = "deleted"
  BY DEF IInv, TypeOK, TableTypeOK, UpdateStatus, Present, Terminal
<1>2. UNCHANGED <<owner, retries>>
  BY DEF UpdateStatus
<1>3. WorkerHasTask' /\ DownKeepsNothing' /\ ClaimExclusive' /\ RetryBudget'
  BY <1>2 DEF IInv, WorkerHasTask, DownKeepsNothing, ClaimExclusive, RetryBudget
<1>4. IngressOwns'
  BY <1>1, <1>2 DEF IInv, IngressOwns
<1>5. ApiDueIsApi'
  BY <1>1 DEF IInv, ApiDueIsApi, TypeOK
<1>6. HeldIsOwned'
  BY <1>1, <1>2 DEF IInv, HeldIsOwned, Held
<1>7. QED
  BY <1>3, <1>4, <1>5, <1>6

\* The end and the writeback of an execution keep custody.
LEMMA ExecutionCustody ==
  ASSUME IInv, TypeOK', NEW e \in Exec, Execution(e) \/ GraphCancel(e)
  PROVE  Custody'
<1> USE DEF IInv, Custody, TypeOK, TableTypeOK, WorkerHasTask, RunHasTask, DownKeepsNothing,
            IngressOwns, ApiDueIsApi, HeldIsOwned, Held, ClaimExclusive, RetryBudget, process, table
<1>1. CASE \E s \in {"completed", "failed"} : AgentRunEnds(e, s)
  BY <1>1 DEF AgentRunEnds, UpdateStatus, Present
<1>2. CASE \E s \in {"completed", "failed"} : GraphRunEnds(e, s)
  BY <1>2 DEF GraphRunEnds
<1>3. CASE GraphWriteback(e)
  <2>1. \E s \in Terminal : UpdateStatus(runTask[e], s)
    <3>1. CASE runStage[e] = "completed"
      BY <1>3, <3>1 DEF GraphWriteback, UpdateStatusAndEvidence, Terminal
    <3>2. CASE runStage[e] = "failed"
      BY <1>3, <3>2 DEF GraphWriteback, Terminal
    <3>3. CASE runStage[e] = "cancelled"
      BY <1>3, <3>3 DEF GraphWriteback, Terminal
    <3>4. QED
      BY <1>3, <3>1, <3>2, <3>3 DEF GraphWriteback
  <2>2. PICK s \in Terminal : UpdateStatus(runTask[e], s)
    BY <2>1
  <2>3. UNCHANGED <<power, loop, job, step, runTask, apiDue, reruns>> /\ RunHasTask'
    BY <1>3 DEF GraphWriteback
  <2>4. runTask[e] \in Task
    BY <1>3 DEF GraphWriteback
  <2>5. QED
    BY <2>2, <2>3, <2>4, WritebackCustody
<1>4. CASE GraphCancel(e)
  BY <1>4 DEF GraphCancel, CancelRuns, CaughtCancel, UncaughtCancel
<1>5. QED
  BY <1>1, <1>2, <1>3, <1>4 DEF Execution

\* Stop, death, boot and reconcile keep custody.
LEMMA LifecycleCustody ==
  ASSUME IInv, TypeOK', Lifecycle
  PROVE  Custody'
<1> USE DEF IInv, Custody, TypeOK, TableTypeOK, WorkerHasTask, RunHasTask, DownKeepsNothing,
            IngressOwns, ApiDueIsApi, HeldIsOwned, Held, ClaimExclusive, RetryBudget, process, table
<1>1. CASE StopDaemon
  BY <1>1 DEF StopDaemon, CancelRuns, CaughtCancel, UncaughtCancel
<1>2. CASE StopExecutor
  BY <1>2, NullAssumption DEF StopExecutor
<1>3. CASE Die
  BY <1>3, NullAssumption DEF Die
<1>4. CASE Boot
  BY <1>4, NullAssumption DEF Boot, ResetOrphans, Orphan
<1>5. CASE Reconcile
  BY <1>5 DEF Reconcile, Verdict, Reconciled
<1>6. QED
  BY <1>1, <1>2, <1>3, <1>4, <1>5 DEF Lifecycle

\* Every step, or none, keeps custody.
LEMMA CustodyStep == IInv /\ TypeOK' /\ [Next]_vars => Custody'
<1> SUFFICES ASSUME IInv, TypeOK', [Next]_vars
             PROVE  Custody'
  OBVIOUS
<1>1. CASE UNCHANGED vars
  BY <1>1 DEF vars, table, process, IInv, Custody, WorkerHasTask, RunHasTask, DownKeepsNothing,
              IngressOwns, ApiDueIsApi, HeldIsOwned, Held, ClaimExclusive, RetryBudget
<1>2. CASE Next
  BY <1>2, ClientCustody, ClaimCustody, ApiCustody, WorkerCustody, ExecutionCustody,
     LifecycleCustody DEF Next
<1>3. QED
  BY <1>1, <1>2

\* IInv is inductive: an invariant of every behaviour of the executor, for any
\* board and any number of permits, executions, crashes and reruns.
THEOREM Inductive == Spec => []IInv
<1>1. Init => IInv
  BY InitType, InitCustody DEF IInv, Custody
<1>2. IInv /\ [Next]_vars => IInv'
  BY TypeStep, CustodyStep DEF IInv, Custody
<1>3. QED
  BY <1>1, <1>2, PTL DEF Spec

\* Each of the safety properties the runs check follows from IInv.
\* Every reachable state has the types of TypeOK.
THEOREM TypeCorrect == Spec => []TypeOK
BY Inductive, PTL DEF IInv

\* No row is ever in the hands of two of the loop and the workers.
THEOREM ClaimsExclusive == Spec => []ClaimExclusive
BY Inductive, PTL DEF IInv

\* What the loop or a worker holds is claimed by the executor or deleted.
THEOREM HeldOwned == Spec => []HeldIsOwned
BY Inductive, PTL DEF IInv

\* Automatic retries stay within max_retries; only a client's rerun adds one.
THEOREM RetriesBounded == Spec => []RetryBudget
BY Inductive, PTL DEF IInv

(***************************************************************************)
(* The executor implements Claims.                                         *)
(***************************************************************************)

\* The empty board maps to no keepers in Claims.
LEMMA KeepInit == Init => Keep!Init
BY DEF Init, Keep!Init, Keeps, Keepers

\* A step that changes neither keeper is a stutter of Claims.
LEMMA KeepStutter ==
  ASSUME UNCHANGED <<loop, job>>
  PROVE  UNCHANGED Keeps
BY DEF Keeps, Keepers

\* A worker that lets go of its task drops it.
LEMMA KeepDrop ==
  ASSUME IInv, NEW w \in Slot, step[w] # "idle", Release(w), UNCHANGED loop
  PROVE  Keep!Drop(w)
<1>1. w # Loop /\ w \in Keepers
  BY LoopAssumption DEF Keepers
<1>2. Keeps[w] # NoTask
  BY <1>1 DEF IInv, WorkerHasTask, Keeps
<1>3. Keeps' = [Keeps EXCEPT ![w] = NoTask]
  <2>1. \A k \in Slot : job'[k] = IF k = w THEN NoTask ELSE job[k]
    BY DEF Release, IInv, TypeOK
  <2>2. QED
    BY <1>1, <2>1 DEF Keeps, Keepers
<1>4. QED
  BY <1>2, <1>3 DEF Keep!Drop

\* A claim by the loop is a Take of Claims.
LEMMA KeepTake ==
  ASSUME IInv, NEW t \in Task, Claim(t)
  PROVE  Keep!Take(Loop, t)
<1>1. loop = NoTask /\ loop' = t /\ UNCHANGED job
  BY DEF Claim
<1>2. \A w \in Slot : job[w] # t
  BY DEF Claim, Head, Claimable, IInv, HeldIsOwned, Held
<1>3. \A k \in Keepers : Keeps[k] # t
  BY <1>1, <1>2, NullAssumption DEF Keeps, Keepers
<1>4. Keeps' = [Keeps EXCEPT ![Loop] = t] /\ Keeps[Loop] = NoTask
  BY <1>1 DEF Keeps, Keepers
<1>5. QED
  BY <1>3, <1>4 DEF Keep!Take

\* Spawning a worker is a Pass of Claims.
LEMMA KeepPass ==
  ASSUME IInv, NEW w \in Slot, Spawn(w)
  PROVE  Keep!Pass(Loop, w)
<1>1. w # Loop
  BY LoopAssumption
<1>2. loop # NoTask /\ job[w] = NoTask
  BY DEF Spawn, IInv, WorkerHasTask
<1>3. Keeps[Loop] # NoTask /\ Keeps[w] = NoTask
  BY <1>1, <1>2 DEF Keeps, Keepers
<1>4. Keeps' = [Keeps EXCEPT ![Loop] = NoTask, ![w] = Keeps[Loop]]
  BY <1>1 DEF Keeps, Keepers, Spawn, IInv, TypeOK
<1>5. QED
  BY <1>3, <1>4 DEF Keep!Pass

\* Every step of a worker is a step or a stutter of Claims.
LEMMA KeepWorker ==
  ASSUME IInv, NEW w \in Slot, Worker(w)
  PROVE  Keep!Next \/ UNCHANGED Keeps
<1>1. w \in Keepers /\ Loop \in Keepers
  BY DEF Keepers
<1>2. CASE Spawn(w)
  BY <1>1, <1>2, KeepPass DEF Keep!Next
<1>3. CASE CheckTask(w) \/ AwaitTerminal(w)
  <2>1. step[w] # "idle" /\ UNCHANGED loop
    BY <1>3 DEF CheckTask, AwaitTerminal
  <2>2. CASE Release(w)
    BY <1>1, <2>1, <2>2, KeepDrop DEF Keep!Next
  <2>3. CASE ~Release(w)
    BY <1>3, <2>1, <2>3, KeepStutter DEF CheckTask, AwaitTerminal
  <2>4. QED
    BY <2>2, <2>3
<1>4. CASE Finalize(w)
  BY <1>1, <1>4, KeepDrop DEF Finalize, Keep!Next
<1>5. CASE DispatchFails(w) \/ AwaitCap(w) \/ \E e \in Exec : Dispatch(w, e)
  BY <1>5, KeepStutter DEF DispatchFails, AwaitCap, Dispatch
<1>6. QED
  BY <1>2, <1>3, <1>4, <1>5 DEF Worker

\* The death of the daemon is a Crash of Claims, a stop a Drop, the rest stutters.
LEMMA KeepLifecycle ==
  ASSUME IInv, Lifecycle
  PROVE  Keep!Next \/ UNCHANGED Keeps
<1>1. CASE StopDaemon \/ Boot \/ Reconcile
  BY <1>1, KeepStutter DEF StopDaemon, Boot, Reconcile, process
<1>2. CASE StopExecutor
  <2>1. loop' = NoTask /\ UNCHANGED job
    BY <1>2 DEF StopExecutor
  <2>2. CASE loop = NoTask
    BY <2>1, <2>2, KeepStutter
  <2>3. CASE loop # NoTask
    <3>1. Keeps[Loop] # NoTask /\ Keeps' = [Keeps EXCEPT ![Loop] = NoTask]
      BY <2>1, <2>3 DEF Keeps, Keepers
    <3>2. QED
      BY <3>1 DEF Keep!Drop, Keep!Next, Keepers
  <2>4. QED
    BY <2>2, <2>3
<1>3. CASE Die
  <2>1. Keep!Crash
    BY <1>3 DEF Die, Keep!Crash, Keeps, Keepers
  <2>2. QED
    BY <2>1 DEF Keep!Next
<1>4. QED
  BY <1>1, <1>2, <1>3 DEF Lifecycle

\* Every step of the executor is a step or a stutter of Claims.
LEMMA KeepStep == IInv /\ [Next]_vars => [Keep!Next]_Keeps
<1> SUFFICES ASSUME IInv, [Next]_vars
             PROVE  Keep!Next \/ UNCHANGED Keeps
  OBVIOUS
<1>1. CASE UNCHANGED vars
  BY <1>1, KeepStutter DEF vars, process
<1>2. ASSUME NEW t \in Task, Client(t)
      PROVE  UNCHANGED Keeps
  BY <1>2, KeepStutter
     DEF Client, Submit, ApiSubmit, ApiResubmit, CancelTask, RerunTask, DeleteTask, ReapExpired,
         SetTaskStatus, process
<1>3. ASSUME NEW t \in Task, Claim(t)
      PROVE  Keep!Next
  BY <1>3, KeepTake DEF Keep!Next, Keepers
<1>4. ASSUME NEW t \in Task, ApiDispatchFails(t) \/ \E e \in Exec : ApiDispatch(t, e)
      PROVE  UNCHANGED Keeps
  BY <1>4, KeepStutter DEF ApiDispatchFails, ApiDispatch
<1>5. ASSUME NEW e \in Exec, Execution(e) \/ GraphCancel(e)
      PROVE  UNCHANGED Keeps
  BY <1>5, KeepStutter DEF Execution, AgentRunEnds, GraphRunEnds, GraphWriteback, GraphCancel
<1>6. QED
  BY <1>1, <1>2, <1>3, <1>4, <1>5, KeepWorker, KeepLifecycle DEF Next

\* Claims is what the executor implements: each of its steps takes, passes on or
\* drops one task, or is a crash, or is none of Claims' business.
THEOREM Refinement == Spec => ImplementsClaims
<1>1. IInv /\ [Next]_vars => [Keep!Next]_Keeps
  BY KeepStep
<1>2. QED
  BY KeepInit, <1>1, Inductive, PTL DEF Spec, ImplementsClaims, Keep!Spec

(***************************************************************************)
(* No row is left running with nobody in charge of it, as long as waits    *)
(* are not cut short and clients do not write "running" themselves.        *)
(***************************************************************************)

Charge == RunningIsHeld /\ AnnouncedIsOver

\* A step that makes no orphan and announces nothing keeps Charge.
LEMMA ChargeKept ==
  ASSUME Charge, IInv, TypeOK',
         power' = "closing" \/ power' = power \/ (power = "up" /\ power' = "stopping")
           \/ (power = "booting" /\ power' = "up"),
         power' # "closing" =>
           /\ \A t \in Task : Orphan(t)' /\ ~Held(t)' => Orphan(t) /\ ~Held(t)
           /\ \A w \in Slot : step'[w] \in {"announceFailed", "announceOther"} =>
                \/ status'[job'[w]] # "running"
                \/ /\ job'[w] = job[w] /\ step'[w] = step[w]
                   /\ status'[job[w]] = "running" => status[job[w]] = "running"
  PROVE  Charge'
<1>1. RunningIsHeld'
  BY DEF Charge, RunningIsHeld
<1>2. AnnouncedIsOver'
  BY DEF Charge, AnnouncedIsOver
<1>3. QED
  BY <1>1, <1>2 DEF Charge

\* A step of somebody who keeps no task and puts no row into running.
LEMMA ChargeOfOthers ==
  ASSUME Charge, IInv, TypeOK', UNCHANGED <<power, loop, job, step>>,
         \A t \in Task : status'[t] = "running" => status[t] = "running" /\ owner'[t] = owner[t]
  PROVE  Charge'
<1>1. \A t \in Task : Orphan(t)' /\ ~Held(t)' => Orphan(t) /\ ~Held(t)
  BY DEF Orphan, Held
<1>2. \A w \in Slot : step[w] # "idle" => job[w] \in Task
  BY DEF IInv, TypeOK, WorkerHasTask
<1>3. QED
  BY <1>1, <1>2, ChargeKept

\* The same step with the row of an execution that is started for POST /v1/runs:
\* it becomes running, but the executor never owns it.
LEMMA ChargeOfApi ==
  ASSUME Charge, IInv, TypeOK', NEW t \in Task, NEW e \in Exec, ApiDispatch(t, e)
  PROVE  Charge'
<1>1. UNCHANGED <<power, loop, job, step, owner>>
  BY DEF ApiDispatch, StartRun, UpdateStatusAndEvidence, UpdateStatus
<1>2. owner[t] = "api" /\ status[t] # "absent"
  BY DEF ApiDispatch, IInv, ApiDueIsApi, IngressOwns
<1>3. \A u \in Task : u # t => status'[u] = status[u]
  BY DEF ApiDispatch, StartRun, UpdateStatusAndEvidence, UpdateStatus, IInv, TypeOK, TableTypeOK
<1>4. status[t] = "deleted" => status'[t] = "deleted"
  BY DEF ApiDispatch, StartRun, UpdateStatusAndEvidence, UpdateStatus, Present, IInv, TypeOK,
         TableTypeOK
<1>5. \A u \in Task : Orphan(u)' /\ ~Held(u)' => Orphan(u) /\ ~Held(u)
  BY <1>1, <1>2, <1>3 DEF Orphan, Held
<1>6. \A w \in Slot : step[w] # "idle" =>
        job[w] \in Task /\ (status'[job[w]] = "running" => status[job[w]] = "running")
  <2>1. SUFFICES ASSUME NEW w \in Slot, step[w] # "idle"
                 PROVE  job[w] \in Task /\ (status'[job[w]] = "running" => status[job[w]] = "running")
    OBVIOUS
  <2>2. job[w] \in Task
    BY <2>1 DEF IInv, TypeOK, WorkerHasTask
  <2>3. CASE job[w] = t
    <3>1. status[t] = "deleted"
      BY <1>2, <2>3 DEF IInv, HeldIsOwned, Held
    <3>2. QED
      BY <1>4, <2>2, <2>3, <3>1
  <2>4. QED
    BY <1>3, <2>2, <2>3
<1>7. QED
  BY <1>1, <1>5, <1>6, ChargeKept

\* A claim leaves the claimed row with the loop and the other rows as they were.
LEMMA ChargeOfClaim ==
  ASSUME Charge, IInv, TypeOK', NEW t \in Task, Claim(t)
  PROVE  Charge'
<1>1. /\ UNCHANGED <<power, job, step>> /\ loop = NoTask /\ loop' = t
      /\ \A u \in Task : u # t => status'[u] = status[u] /\ owner'[u] = owner[u]
  BY DEF Claim, ClaimRow, IInv, TypeOK, TableTypeOK
<1>2. \A w \in Slot : job[w] # t
  BY DEF Claim, Head, Claimable, IInv, HeldIsOwned, Held
<1>3. \A u \in Task : Orphan(u)' /\ ~Held(u)' => Orphan(u) /\ ~Held(u)
  BY <1>1, NullAssumption DEF Orphan, Held
<1>4. \A w \in Slot : step[w] # "idle" => status'[job[w]] = status[job[w]]
  BY <1>1, <1>2 DEF IInv, TypeOK, WorkerHasTask
<1>5. QED
  BY <1>1, <1>3, <1>4, ChargeKept

\* A worker that lets go of a task which is not running, or in a closing daemon.
LEMMA ChargeOfRelease ==
  ASSUME Charge, IInv, TypeOK', NEW w \in Slot, step[w] # "idle", Release(w),
         UNCHANGED <<power, loop>>,
         power # "closing" => status[job[w]] # "running",
         \A t \in Task : status'[t] = "running" => status[t] = "running" /\ owner'[t] = owner[t]
  PROVE  Charge'
<1>1. \A v \in Slot : /\ job'[v] = IF v = w THEN NoTask ELSE job[v]
                     /\ step'[v] = IF v = w THEN "idle" ELSE step[v]
  BY DEF Release, IInv, TypeOK
<1>2. job[w] \in Task
  BY DEF IInv, TypeOK, WorkerHasTask
<1>3. power' # "closing" => \A t \in Task : Orphan(t)' /\ ~Held(t)' => Orphan(t) /\ ~Held(t)
  BY <1>1, <1>2 DEF Orphan, Held
<1>4. \A v \in Slot : step[v] # "idle" => job[v] \in Task
  BY DEF IInv, TypeOK, WorkerHasTask
<1>5. QED
  BY <1>1, <1>3, <1>4, ChargeKept

\* A dispatch leaves the row with its worker.
LEMMA ChargeOfDispatch ==
  ASSUME Charge, IInv, TypeOK', NEW w \in Slot, NEW e \in Exec, Dispatch(w, e)
  PROVE  Charge'
<1>1. job[w] \in Task /\ Held(job[w])
  BY DEF Dispatch, IInv, TypeOK, WorkerHasTask, Held
<1>2. /\ UNCHANGED <<power, loop, job, owner>>
      /\ \A v \in Slot : step'[v] = IF v = w THEN "await" ELSE step[v]
  BY DEF Dispatch, StartRun, UpdateStatusAndEvidence, UpdateStatus, IInv, TypeOK
<1>3. \A u \in Task : u # job[w] => status'[u] = status[u]
  BY <1>1 DEF Dispatch, StartRun, UpdateStatusAndEvidence, UpdateStatus, IInv, TypeOK, TableTypeOK
<1>4. \A u \in Task : Orphan(u)' /\ ~Held(u)' => Orphan(u) /\ ~Held(u)
  BY <1>1, <1>2, <1>3 DEF Orphan, Held
<1>5. \A v \in Slot : v # w /\ step[v] # "idle" => job[v] \in Task /\ job[v] # job[w]
  BY DEF IInv, TypeOK, WorkerHasTask, ClaimExclusive
<1>6. \A v \in Slot : v # w /\ step[v] # "idle" => status'[job[v]] = status[job[v]]
  BY <1>3, <1>5
<1>7. QED
  BY <1>2, <1>4, <1>6, ChargeKept

\* Every step of a worker keeps a running claim held.
LEMMA ChargeOfWorker ==
  ASSUME ~WaitCapExpires, Charge, IInv, TypeOK', NEW w \in Slot, Worker(w)
  PROVE  Charge'
<1>1. step[w] # "idle" => job[w] \in Task
  BY DEF IInv, TypeOK, WorkerHasTask
<1>2. CASE Spawn(w)
  <2>1. /\ UNCHANGED <<power, status, owner>>
        /\ loop \in Task /\ loop' = NoTask /\ job[w] = NoTask
        /\ \A v \in Slot : /\ job'[v] = IF v = w THEN loop ELSE job[v]
                           /\ step'[v] = IF v = w THEN "check" ELSE step[v]
    BY <1>2 DEF Spawn, IInv, TypeOK, WorkerHasTask, table
  <2>2. \A t \in Task : Held(t) => Held(t)'
    BY <2>1, NullAssumption DEF Held
  <2>3. \A t \in Task : Orphan(t)' /\ ~Held(t)' => Orphan(t) /\ ~Held(t)
    BY <2>1, <2>2 DEF Orphan
  <2>4. QED
    BY <2>1, <2>3, ChargeKept
<1>3. CASE CheckTask(w)
  <2>1. UNCHANGED <<status, owner, power, loop>> /\ step[w] # "idle"
    BY <1>3 DEF CheckTask, table
  <2>2. CASE status[job[w]] = "running"
    <3>1. UNCHANGED job /\ \A v \in Slot : step'[v] = IF v = w THEN "dispatch" ELSE step[v]
      BY <1>3, <2>2 DEF CheckTask, IInv, TypeOK
    <3>2. \A t \in Task : Orphan(t)' /\ ~Held(t)' => Orphan(t) /\ ~Held(t)
      BY <2>1, <3>1 DEF Orphan, Held
    <3>3. QED
      BY <2>1, <3>1, <3>2, ChargeKept
  <2>3. CASE status[job[w]] # "running"
    BY <1>3, <2>1, <2>3, ChargeOfRelease DEF CheckTask
  <2>4. QED
    BY <2>2, <2>3
<1>4. CASE DispatchFails(w)
  <2>1. /\ UNCHANGED <<power, loop, job, owner>>
        /\ \A v \in Slot : step'[v] = IF v = w THEN "await" ELSE step[v]
    BY <1>4 DEF DispatchFails, UpdateStatus, IInv, TypeOK
  <2>2. \A t \in Task : status'[t] = "running" => status[t] = "running"
    BY <1>4 DEF DispatchFails, UpdateStatus, IInv, TypeOK, TableTypeOK
  <2>3. \A t \in Task : Orphan(t)' /\ ~Held(t)' => Orphan(t) /\ ~Held(t)
    BY <2>1, <2>2 DEF Orphan, Held
  <2>4. \A v \in Slot : step[v] # "idle" => job[v] \in Task
    BY DEF IInv, TypeOK, WorkerHasTask
  <2>5. QED
    BY <2>1, <2>2, <2>3, <2>4, ChargeKept
<1>5. CASE AwaitTerminal(w)
  <2>1. UNCHANGED <<status, owner, power, loop>> /\ step[w] # "idle"
    BY <1>5 DEF AwaitTerminal, table
  <2>2. CASE ~Present(job[w]) /\ Release(w)
    BY <2>1, <2>2, ChargeOfRelease DEF Present
  <2>3. CASE /\ status[job[w]] \in Terminal /\ UNCHANGED job
             /\ step' = [step EXCEPT ![w] = IF status[job[w]] = "failed"
                                            THEN "announceFailed" ELSE "announceOther"]
    <3>1. \A v \in Slot : v # w => step'[v] = step[v]
      BY <2>3 DEF IInv, TypeOK
    <3>2. status[job[w]] # "running"
      BY <2>3 DEF Terminal
    <3>3. \A t \in Task : Orphan(t)' /\ ~Held(t)' => Orphan(t) /\ ~Held(t)
      BY <2>1, <2>3 DEF Orphan, Held
    <3>4. QED
      BY <2>1, <2>3, <3>1, <3>2, <3>3, ChargeKept
  <2>4. QED
    BY <1>5, <2>2, <2>3 DEF AwaitTerminal
<1>6. CASE AwaitCap(w)
  BY <1>6, ChargeKept DEF AwaitCap
<1>7. CASE Finalize(w)
  <2>1. UNCHANGED <<power, loop>> /\ Release(w) /\ step[w] # "idle"
    BY <1>7 DEF Finalize
  <2>2. power # "closing" => status[job[w]] # "running"
    BY <1>7 DEF Finalize, Charge, AnnouncedIsOver
  <2>3. \A t \in Task : status'[t] = "running" => status[t] = "running" /\ owner'[t] = owner[t]
    BY <1>1, <1>7 DEF Finalize, RequeueRow, IInv, TypeOK, TableTypeOK, table
  <2>4. QED
    BY <2>1, <2>2, <2>3, ChargeOfRelease
<1>8. QED
  BY <1>2, <1>3, <1>4, <1>5, <1>6, <1>7, ChargeOfDispatch DEF Worker

\* Every client call keeps a running claim held.
LEMMA ChargeOfClient ==
  ASSUME "running" \notin ClientStatuses, Charge, IInv, TypeOK', NEW t \in Task, Client(t)
  PROVE  Charge'
<1>1. UNCHANGED <<power, loop, job, step>>
  BY DEF Client, Submit, ApiSubmit, ApiResubmit, CancelTask, RerunTask, DeleteTask, ReapExpired,
         SetTaskStatus, process
<1>2. \A u \in Task : status'[u] = "running" => status[u] = "running" /\ owner'[u] = owner[u]
  <2>1. CASE Submit(t) \/ ApiSubmit(t)
    BY <2>1 DEF Submit, ApiSubmit, InsertRow, IInv, TypeOK, TableTypeOK
  <2>2. CASE ApiResubmit(t)
    BY <2>2 DEF ApiResubmit, table
  <2>3. CASE CancelTask(t)
    BY <2>3 DEF CancelTask, UpdateStatus, IInv, TypeOK, TableTypeOK
  <2>4. CASE RerunTask(t)
    BY <2>4 DEF RerunTask, RerunRow, IInv, TypeOK, TableTypeOK
  <2>5. CASE DeleteTask(t) \/ ReapExpired(t)
    BY <2>5 DEF DeleteTask, ReapExpired, DeleteRow, IInv, TypeOK, TableTypeOK
  <2>6. CASE \E s \in ClientStatuses : SetTaskStatus(t, s)
    BY <2>6 DEF SetTaskStatus, UpdateStatus, IInv, TypeOK, TableTypeOK
  <2>7. QED
    BY <2>1, <2>2, <2>3, <2>4, <2>5, <2>6 DEF Client
<1>3. QED
  BY <1>1, <1>2, ChargeOfOthers

\* Every step of an execution keeps a running claim held.
LEMMA ChargeOfExecution ==
  ASSUME Charge, IInv, TypeOK', NEW e \in Exec, Execution(e) \/ GraphCancel(e)
  PROVE  Charge'
<1>1. UNCHANGED <<power, loop, job, step, owner>>
  BY DEF Execution, AgentRunEnds, GraphRunEnds, GraphWriteback, GraphCancel, UpdateStatus,
         UpdateStatusAndEvidence, table
<1>2. \A u \in Task : status'[u] = "running" => status[u] = "running"
  BY DEF Execution, AgentRunEnds, GraphRunEnds, GraphWriteback, GraphCancel, UpdateStatus,
         UpdateStatusAndEvidence, IInv, TypeOK, TableTypeOK, table
<1>3. QED
  BY <1>1, <1>2, ChargeOfOthers

\* Stop, death, boot and reconcile keep a running claim held.
LEMMA ChargeOfLifecycle ==
  ASSUME Charge, IInv, TypeOK', Lifecycle
  PROVE  Charge'
<1>1. CASE StopDaemon
  <2>1. UNCHANGED <<status, owner, loop, job, step>> /\ power = "up" /\ power' = "stopping"
    BY <1>1 DEF StopDaemon, table
  <2>2. \A t \in Task : Orphan(t)' /\ ~Held(t)' => Orphan(t) /\ ~Held(t)
    BY <2>1 DEF Orphan, Held
  <2>3. QED
    BY <2>1, <2>2, ChargeKept
<1>2. CASE StopExecutor
  BY <1>2, ChargeKept DEF StopExecutor
<1>3. CASE Die
  BY <1>3 DEF Die, Charge, RunningIsHeld, AnnouncedIsOver, IInv, TypeOK
<1>4. CASE Boot
  <2>1. power' = "booting" /\ \A w \in Slot : step'[w] = "idle"
    BY <1>4 DEF Boot, process, IInv, DownKeepsNothing, WorkerHasTask
  <2>2. \A t \in Task : ~Orphan(t)'
    BY <1>4 DEF Boot, ResetOrphans, Orphan, IInv, TypeOK, TableTypeOK
  <2>3. QED
    BY <2>1, <2>2 DEF Charge, RunningIsHeld, AnnouncedIsOver
<1>5. CASE Reconcile
  <2>1. /\ UNCHANGED <<owner, loop, job, step>>
        /\ power = "booting" /\ power' = "up"
    BY <1>5 DEF Reconcile, process
  <2>2. \A t \in Task : status'[t] = "running" => status[t] = "running"
    BY <1>5 DEF Reconcile
  <2>3. \A t \in Task : Orphan(t)' /\ ~Held(t)' => Orphan(t) /\ ~Held(t)
    BY <2>1, <2>2 DEF Orphan, Held
  <2>4. \A w \in Slot : step[w] # "idle" => job[w] \in Task
    BY DEF IInv, TypeOK, WorkerHasTask
  <2>5. QED
    BY <2>1, <2>2, <2>3, <2>4, ChargeKept
<1>6. QED
  BY <1>1, <1>2, <1>3, <1>4, <1>5 DEF Lifecycle

\* Every step, or none, keeps a running claim held.
LEMMA ChargeStep ==
  ASSUME ~WaitCapExpires, "running" \notin ClientStatuses
  PROVE  Charge /\ IInv /\ IInv' /\ [Next]_vars => Charge'
<1> SUFFICES ASSUME Charge, IInv, IInv', [Next]_vars
             PROVE  Charge'
  OBVIOUS
<1>1. TypeOK'
  BY DEF IInv
<1>2. CASE UNCHANGED vars
  <2>1. UNCHANGED <<status, owner, power, loop, job, step>>
    BY <1>2 DEF vars, table, process
  <2>2. QED
    BY <1>1, <2>1, ChargeOfOthers
<1>3. ASSUME NEW t \in Task, ApiDispatchFails(t)
      PROVE  Charge'
  <2>1. UNCHANGED <<power, loop, job, step, owner>>
    BY <1>3 DEF ApiDispatchFails, UpdateStatus, table
  <2>2. \A u \in Task : status'[u] = "running" => status[u] = "running"
    BY <1>3 DEF ApiDispatchFails, UpdateStatus, IInv, TypeOK, TableTypeOK, table
  <2>3. QED
    BY <1>1, <2>1, <2>2, ChargeOfOthers
<1>4. CASE Next
  BY <1>1, <1>3, <1>4, ChargeOfClient, ChargeOfClaim, ChargeOfApi, ChargeOfWorker,
     ChargeOfExecution, ChargeOfLifecycle DEF Next
<1>5. QED
  BY <1>2, <1>4

\* With full waits and clients that never write "running", no row the executor
\* shows as running is without a keeper until the daemon closes.
THEOREM RunningHeld ==
  ASSUME ~WaitCapExpires, "running" \notin ClientStatuses
  PROVE  Spec => []RunningIsHeld
<1>1. Init => Charge
  BY DEF Init, TableInit, Charge, RunningIsHeld, AnnouncedIsOver, Orphan
<1>2. Charge /\ IInv /\ IInv' /\ [Next]_vars => Charge'
  BY ChargeStep
<1>3. QED
  BY <1>1, <1>2, Inductive, PTL DEF Spec, Charge

(***************************************************************************)
(* One execution per task.                                                 *)
(***************************************************************************)

\* The row of a task that executes: neither claimable nor in the hands of anybody
\* who is still going to dispatch or to retry it.
Away(t) ==
  /\ owner[t] # "none" \/ status[t] = "deleted"
  /\ status[t] # "failed"
  /\ t \notin apiDue
  /\ loop # t
  /\ \A w \in Slot : job[w] = t => step[w] \in {"await", "announceOther"}

\* Rows of /v1/runs never come into the hands of the loop or of a worker.
ApiUnheld == \A t \in Task : Ingress[t] = "api" => ~Held(t)

\* No POST repeats the key of an earlier one.
Fresh == \A t \in Task : ~ApiResubmit(t)

RunsAlone ==
  /\ power = "up"
  /\ ApiUnheld
  /\ \A e \in Exec : Active(e) => Away(runTask[e])
  /\ OneRunPerTask

\* What comes into somebody's hands was unowned before.
LEMMA UnheldKept ==
  ASSUME RunsAlone, IInv, Next
  PROVE  ApiUnheld'
<1>1. ASSUME NEW t \in Task, Held(t)', ~Held(t)
      PROVE  Claim(t)
  <2>1. CASE \E w \in Slot : Worker(w)
    <3>1. PICK w \in Slot : Worker(w)
      BY <2>1
    <3>2. /\ loop' \in {loop, NoTask} /\ job'[w] \in {job[w], loop, NoTask}
          /\ \A v \in Slot \ {w} : job'[v] = job[v]
      BY <3>1 DEF Worker, Spawn, CheckTask, DispatchFails, Dispatch, AwaitTerminal, AwaitCap,
         Finalize, Release, IInv, TypeOK
    <3>3. QED
      BY <1>1, <3>2, NullAssumption DEF Held
  <2>2. CASE \E u \in Task : Claim(u)
    BY <1>1, <2>2 DEF Claim, Held
  <2>3. CASE UNCHANGED <<loop, job>>
    BY <1>1, <2>3 DEF Held
  <2>4. CASE Lifecycle
    <3>1. loop' \in {loop, NoTask} /\ \A v \in Slot : job'[v] \in {job[v], NoTask}
      BY <2>4 DEF Lifecycle, StopDaemon, StopExecutor, Die, Boot, Reconcile, process, IInv, TypeOK
    <3>2. QED
      BY <1>1, <3>1, NullAssumption DEF Held
  <2>5. ASSUME NEW u \in Task, Client(u) PROVE UNCHANGED <<loop, job>>
    BY <2>5 DEF Client, Submit, ApiSubmit, ApiResubmit, CancelTask, RerunTask, DeleteTask,
       ReapExpired, SetTaskStatus, process
  <2>6. ASSUME NEW e \in Exec, Execution(e) \/ GraphCancel(e) PROVE UNCHANGED <<loop, job>>
    BY <2>6 DEF Execution, AgentRunEnds, GraphRunEnds, GraphWriteback, GraphCancel
  <2>7. ASSUME NEW u \in Task, ApiDispatchFails(u) \/ \E e \in Exec : ApiDispatch(u, e)
        PROVE  UNCHANGED <<loop, job>>
    BY <2>7 DEF ApiDispatchFails, ApiDispatch
  <2>8. QED
    BY <2>1, <2>2, <2>3, <2>4, <2>5, <2>6, <2>7 DEF Next
<1>2. ASSUME NEW t \in Task, Ingress[t] = "api"
      PROVE  ~Claim(t)
  BY <1>2 DEF Claim, Head, Claimable, IInv, IngressOwns
<1>3. QED
  BY <1>1, <1>2 DEF ApiUnheld, RunsAlone

\* A step that starts no execution only has to leave the rows of those under
\* way alone.
LEMMA AloneKept ==
  ASSUME RunsAlone, ApiUnheld', power' = "up", UNCHANGED runTask,
         \A e \in Exec : Active(e)' => Active(e),
         \A e \in Exec : Active(e)' => Away(runTask[e])'
  PROVE  RunsAlone'
BY DEF RunsAlone, OneRunPerTask

\* Who executes a task has a task.
LEMMA ActiveTask ==
  ASSUME IInv, NEW e \in Exec, Active(e)
  PROVE  runTask[e] \in Task
BY DEF IInv, RunHasTask, Active

\* Client calls other than writing "failed" keep executions alone.
LEMMA AloneOfClient ==
  ASSUME "failed" \notin ClientStatuses, Fresh,
         RunsAlone, IInv, ApiUnheld', NEW t \in Task, Client(t)
  PROVE  RunsAlone'
<1>1. ~ApiResubmit(t)
  BY DEF Fresh
<1>2. UNCHANGED <<power, loop, job, step, runTask, runStage>> /\ apiDue' \subseteq apiDue \cup {t}
      /\ (apiDue' = apiDue \/ ApiSubmit(t))
  BY <1>1 DEF Client, Submit, ApiSubmit, CancelTask, RerunTask, DeleteTask, ReapExpired, SetTaskStatus, process
<1>3. ASSUME NEW u \in Task, Away(u)
      PROVE  Away(u)'
  <2>1. u # t => status'[u] = status[u] /\ owner'[u] = owner[u]
    BY <1>1 DEF Client, Submit, ApiSubmit, CancelTask, RerunTask, DeleteTask, ReapExpired,
       SetTaskStatus, InsertRow, UpdateStatus, RerunRow, DeleteRow, IInv, TypeOK, TableTypeOK
  <2>2. CASE u = t /\ (Submit(t) \/ ApiSubmit(t))
    <3>1. owner[t] = "none" /\ status[t] = "absent"
      BY <2>2 DEF Submit, ApiSubmit, IInv, IngressOwns
    <3>2. QED
      BY <1>3, <2>2, <3>1 DEF Away
  <2>3. CASE u = t /\ ~Submit(t) /\ ~ApiSubmit(t)
    <3>1. owner'[t] = owner[t] /\ status[t] \notin {"absent", "deleted"}
      BY <1>1, <2>3 DEF Client, CancelTask, RerunTask, DeleteTask, ReapExpired, SetTaskStatus,
         Cancelable, Present, Terminal, UpdateStatus, RerunRow, DeleteRow
    <3>2. status'[t] # "failed"
      BY <1>1, <2>3 DEF Client, CancelTask, RerunTask, DeleteTask, ReapExpired, SetTaskStatus,
         Cancelable, Present, UpdateStatus, RerunRow, DeleteRow, IInv, TypeOK, TableTypeOK
    <3>3. QED
      BY <1>2, <1>3, <2>3, <3>1, <3>2 DEF Away
  <2>4. QED
    BY <1>2, <1>3, <2>1, <2>2, <2>3 DEF Away
<1>4. \A e \in Exec : Active(e)' <=> Active(e)
  BY <1>2 DEF Active
<1>5. \A e \in Exec : Active(e)' => Away(runTask[e])'
  BY <1>2, <1>3, <1>4, ActiveTask DEF RunsAlone
<1>6. QED
  BY <1>2, <1>4, <1>5, AloneKept DEF RunsAlone

\* The row the loop claims is pending and unowned: nothing executes it.
LEMMA AloneOfClaim ==
  ASSUME RunsAlone, IInv, ApiUnheld', NEW t \in Task, Claim(t)
  PROVE  RunsAlone'
<1>1. /\ UNCHANGED <<power, job, step, runTask, runStage, apiDue>> /\ loop' = t
      /\ status[t] = "pending" /\ owner[t] = "none"
  BY DEF Claim, Head, Claimable
<1>2. \A u \in Task : u # t => status'[u] = status[u] /\ owner'[u] = owner[u]
  BY DEF Claim, ClaimRow, IInv, TypeOK, TableTypeOK
<1>3. \A u \in Task : Away(u) => Away(u)'
  BY <1>1, <1>2 DEF Away
<1>4. \A e \in Exec : Active(e)' <=> Active(e)
  BY <1>1 DEF Active
<1>5. \A e \in Exec : Active(e)' => Away(runTask[e])'
  BY <1>1, <1>3, <1>4, ActiveTask DEF RunsAlone
<1>6. QED
  BY <1>1, <1>4, <1>5, AloneKept DEF RunsAlone

\* A worker that holds a row for dispatch is the only one that does.
LEMMA AloneOfDispatch ==
  ASSUME RunsAlone, IInv, ApiUnheld', NEW w \in Slot, NEW e \in Exec, Dispatch(w, e)
  PROVE  RunsAlone'
<1> DEFINE t == job[w]
<1>1. /\ t \in Task /\ step[w] = "dispatch"
      /\ UNCHANGED <<power, loop, job, owner, apiDue>>
      /\ \A v \in Slot : step'[v] = IF v = w THEN "await" ELSE step[v]
  BY DEF Dispatch, IInv, TypeOK, WorkerHasTask, StartRun, UpdateStatusAndEvidence, UpdateStatus
<1>2. /\ \A f \in Exec : runTask'[f] = IF f = e THEN t ELSE runTask[f]
      /\ \A f \in Exec : runStage'[f] = IF f = e THEN "live" ELSE runStage[f]
  BY DEF Dispatch, StartRun, Launch, IInv, TypeOK
<1>3. /\ \A u \in Task : u # t => status'[u] = status[u]
      /\ status'[t] \in {status[t], "running"} /\ (Present(t) => status'[t] = "running")
      /\ status[t] \in {"absent", "deleted"} => status'[t] = status[t]
  BY <1>1 DEF Dispatch, StartRun, UpdateStatusAndEvidence, UpdateStatus, Present, IInv, TypeOK, TableTypeOK
<1>4. \A f \in Exec : Active(f) => runTask[f] # t /\ runTask[f] \in Task
  BY <1>1, ActiveTask DEF RunsAlone, Away
<1>5. Away(t)'
  <2>1. \A v \in Slot : v # w => job[v] # t
    BY <1>1, NullAssumption DEF IInv, ClaimExclusive
  <2>2. loop # t
    BY <1>1, NullAssumption DEF IInv, ClaimExclusive
  <2>3. owner[t] = "executor" \/ status[t] = "deleted"
    BY <1>1 DEF IInv, HeldIsOwned, Held
  <2>4. status'[t] # "failed"
    BY <1>3 DEF Present
  <2>5. t \notin apiDue
    BY <1>1 DEF RunsAlone, ApiUnheld, Held, IInv, ApiDueIsApi
  <2>6. QED
    BY <1>1, <1>3, <2>1, <2>2, <2>3, <2>4, <2>5 DEF Away
<1>6. ASSUME NEW f \in Exec, Active(f)', f # e
      PROVE  Active(f) /\ runTask'[f] = runTask[f] /\ Away(runTask[f])'
  <2>1. Active(f) /\ runTask'[f] = runTask[f]
    BY <1>2, <1>6 DEF Active
  <2>2. runTask[f] # t /\ runTask[f] \in Task /\ Away(runTask[f])
    BY <1>4, <2>1 DEF RunsAlone
  <2>3. QED
    BY <1>1, <1>3, <2>1, <2>2 DEF Away
<1>7. \A f \in Exec : Active(f)' => Away(runTask[f])'
  <2>1. Away(runTask[e])'
    BY <1>1, <1>2, <1>5 DEF Away
  <2>2. QED
    BY <1>6, <2>1
<1>8. OneRunPerTask'
  BY <1>2, <1>4, <1>6 DEF OneRunPerTask, RunsAlone
<1>9. QED
  BY <1>1, <1>7, <1>8 DEF RunsAlone

\* The steps of a worker that do not dispatch.
LEMMA AloneOfWorker ==
  ASSUME RunsAlone, IInv, ApiUnheld', NEW w \in Slot, Worker(w)
  PROVE  RunsAlone'
<1> DEFINE t == job[w]
<1>1. CASE \E e \in Exec : Dispatch(w, e)
  BY <1>1, AloneOfDispatch
<1>2. ASSUME ~\E e \in Exec : Dispatch(w, e)
      PROVE  RunsAlone'
  <2>1. UNCHANGED <<power, runTask, runStage, apiDue>>
    BY <1>2 DEF Worker, Spawn, CheckTask, DispatchFails, AwaitTerminal, AwaitCap, Finalize
  <2>2. \A e \in Exec : Active(e)' <=> Active(e)
    BY <2>1 DEF Active
  <2>3. ASSUME NEW u \in Task, Away(u), \E e \in Exec : Active(e) /\ runTask[e] = u
        PROVE  Away(u)'
    <3>1. CASE Spawn(w)
      <4>1. /\ UNCHANGED <<status, owner>> /\ loop # u /\ loop' = NoTask
            /\ \A v \in Slot : /\ job'[v] = IF v = w THEN loop ELSE job[v]
                               /\ step'[v] = IF v = w THEN "check" ELSE step[v]
        BY <2>3, <3>1 DEF Spawn, table, Away, IInv, TypeOK
      <4>2. QED
        BY <2>1, <2>3, <4>1, NullAssumption DEF Away
    <3>2. ASSUME UNCHANGED loop, \A v \in Slot \ {w} : job'[v] = job[v] /\ step'[v] = step[v],
                 t # u \/ job'[w] = NoTask
                   \/ (step'[w] \in {"await", "announceOther"} /\ job'[w] = job[w]),
                 job'[w] \in {job[w], NoTask},
                 owner'[u] = owner[u] /\ status'[u] = status[u]
          PROVE  Away(u)'
      BY <2>1, <2>3, <3>2, NullAssumption DEF Away
    <3>3. CASE CheckTask(w)
      <4>1. t # u
        BY <2>3, <3>3 DEF CheckTask, Away
      <4>2. QED
        BY <3>2, <3>3, <4>1 DEF CheckTask, Release, table, IInv, TypeOK
    <3>4. CASE DispatchFails(w)
      <4>1. t # u /\ t \in Task
        BY <2>3, <3>4 DEF DispatchFails, Away, IInv, TypeOK, WorkerHasTask
      <4>2. owner'[u] = owner[u] /\ status'[u] = status[u]
        BY <3>4, <4>1 DEF DispatchFails, UpdateStatus, IInv, TypeOK, TableTypeOK
      <4>3. QED
        BY <3>2, <3>4, <4>1, <4>2 DEF DispatchFails, IInv, TypeOK
    <3>5. CASE AwaitTerminal(w)
      <4>1. t = u => status[t] # "failed"
        BY <2>3 DEF Away
      <4>2. QED
        BY <3>2, <3>5, <4>1 DEF AwaitTerminal, Release, table, IInv, TypeOK
    <3>6. CASE AwaitCap(w)
      BY <3>2, <3>6 DEF AwaitCap, table, IInv, TypeOK
    <3>7. CASE Finalize(w)
      <4>1. owner'[u] = owner[u] /\ status'[u] = status[u]
        <5>1. step[w] = "announceFailed" => t # u
          BY <2>3 DEF Away
        <5>2. QED
          BY <3>7, <5>1 DEF Finalize, RequeueRow, table, IInv, TypeOK, TableTypeOK
      <4>2. job'[w] = NoTask /\ UNCHANGED loop /\ \A v \in Slot \ {w} : job'[v] = job[v] /\ step'[v] = step[v]
        BY <3>7 DEF Finalize, Release, IInv, TypeOK
      <4>3. QED
        BY <3>2, <4>1, <4>2
    <3>8. QED
      BY <1>2, <3>1, <3>3, <3>4, <3>5, <3>6, <3>7 DEF Worker
  <2>4. \A e \in Exec : Active(e)' => Away(runTask[e])'
    <3>1. ASSUME NEW e \in Exec, Active(e)' PROVE Away(runTask[e])'
      <4>1. Active(e) /\ runTask[e] \in Task /\ Away(runTask[e]) /\ runTask'[e] = runTask[e]
        BY <2>1, <2>2, <3>1, ActiveTask DEF RunsAlone
      <4>2. QED
        BY <2>3, <4>1
    <3>2. QED
      BY <3>1
  <2>5. QED
    BY <2>1, <2>2, <2>4, AloneKept DEF RunsAlone
<1>3. QED
  BY <1>1, <1>2

\* What an execution writes back is about its own task, and nobody else's.
LEMMA AloneOfExecution ==
  ASSUME RunsAlone, IInv, ApiUnheld', NEW e \in Exec, Execution(e) \/ GraphCancel(e)
  PROVE  RunsAlone'
<1>1. UNCHANGED <<power, loop, job, step, runTask, owner, apiDue>>
  BY DEF Execution, AgentRunEnds, GraphRunEnds, GraphWriteback, GraphCancel, UpdateStatus,
     UpdateStatusAndEvidence, table
<1>2. \A f \in Exec : Active(f)' => Active(f)
  BY DEF Execution, AgentRunEnds, GraphRunEnds, GraphWriteback, GraphCancel, CancelRuns, Active,
     CaughtCancel, UncaughtCancel, IInv, TypeOK
<1>3. \A u \in Task : \/ status'[u] = status[u]
                      \/ Active(e) /\ u = runTask[e] /\ ~Active(e)'
  <2>1. CASE UNCHANGED table
    BY <2>1 DEF table
  <2>2. CASE \E s \in {"completed", "failed"} : AgentRunEnds(e, s)
    BY <2>2 DEF AgentRunEnds, UpdateStatus, Active, IInv, TypeOK, TableTypeOK
  <2>3. CASE GraphWriteback(e)
    BY <2>3 DEF GraphWriteback, UpdateStatusAndEvidence, UpdateStatus, Active, IInv, TypeOK, TableTypeOK
  <2>4. QED
    BY <2>1, <2>2, <2>3 DEF Execution, GraphRunEnds, GraphCancel
<1>4. ASSUME NEW f \in Exec, Active(f)' PROVE Away(runTask[f])'
  <2>1. Active(f) /\ runTask[f] \in Task /\ Away(runTask[f])
    BY <1>2, <1>4, ActiveTask DEF RunsAlone
  <2>2. status'[runTask[f]] = status[runTask[f]]
    BY <1>2, <1>3, <1>4, <2>1 DEF RunsAlone, OneRunPerTask
  <2>3. QED
    BY <1>1, <2>1, <2>2 DEF Away
<1>5. QED
  BY <1>1, <1>2, <1>4, AloneKept DEF RunsAlone

\* A row of /v1/runs is dispatched once, and nobody else starts it.
LEMMA AloneOfApi ==
  ASSUME RunsAlone, IInv, ApiUnheld', NEW t \in Task,
         ApiDispatchFails(t) \/ \E e \in Exec : ApiDispatch(t, e)
  PROVE  RunsAlone'
<1>1. /\ t \in apiDue /\ apiDue' = apiDue \ {t} /\ UNCHANGED <<power, loop, job, step, owner>>
      /\ \A u \in Task : u # t => status'[u] = status[u]
  BY DEF ApiDispatchFails, ApiDispatch, StartRun, UpdateStatusAndEvidence, UpdateStatus, table,
     IInv, TypeOK, TableTypeOK
<1>2. \A f \in Exec : Active(f) => runTask[f] # t /\ runTask[f] \in Task
  BY <1>1, ActiveTask DEF RunsAlone, Away
<1>3. \A u \in Task : u # t /\ Away(u) => Away(u)'
  BY <1>1 DEF Away
<1>4. CASE ApiDispatchFails(t)
  <2>1. UNCHANGED <<runTask, runStage>>
    BY <1>4 DEF ApiDispatchFails
  <2>2. \A f \in Exec : Active(f)' <=> Active(f)
    BY <2>1 DEF Active
  <2>3. \A f \in Exec : Active(f)' => Away(runTask[f])'
    BY <1>2, <1>3, <2>1, <2>2 DEF RunsAlone
  <2>4. QED
    BY <1>1, <2>1, <2>2, <2>3, AloneKept DEF RunsAlone
<1>5. ASSUME NEW e \in Exec, ApiDispatch(t, e)
      PROVE  RunsAlone'
  <2>1. /\ \A f \in Exec : runTask'[f] = IF f = e THEN t ELSE runTask[f]
        /\ \A f \in Exec : runStage'[f] = IF f = e THEN "live" ELSE runStage[f]
    BY <1>5 DEF ApiDispatch, StartRun, Launch, IInv, TypeOK
  <2>2. Away(t)'
    <3>1. status[t] # "absent" /\ Ingress[t] = "api" /\ owner[t] = "api"
      BY <1>1 DEF IInv, ApiDueIsApi, IngressOwns
    <3>2. status'[t] # "failed"
      BY <1>5 DEF ApiDispatch, StartRun, UpdateStatusAndEvidence, UpdateStatus, Present,
         IInv, TypeOK, TableTypeOK
    <3>3. loop # t /\ \A w \in Slot : job[w] # t
      BY <3>1 DEF RunsAlone, ApiUnheld, Held
    <3>4. QED
      BY <1>1, <3>1, <3>2, <3>3 DEF Away
  <2>3. ASSUME NEW f \in Exec, Active(f)', f # e
        PROVE  Active(f) /\ runTask'[f] = runTask[f] /\ runTask[f] # t /\ Away(runTask[f])'
    <3>1. Active(f) /\ runTask'[f] = runTask[f]
      BY <2>1, <2>3 DEF Active
    <3>2. runTask[f] # t /\ runTask[f] \in Task /\ Away(runTask[f])
      BY <1>2, <3>1 DEF RunsAlone
    <3>3. QED
      BY <1>3, <3>1, <3>2
  <2>4. \A f \in Exec : Active(f)' => Away(runTask[f])'
    <3>1. runTask'[e] = t
      BY <2>1
    <3>2. Away(runTask[e])'
      BY <2>2, <3>1 DEF Away
    <3>3. ASSUME NEW f \in Exec, Active(f)', f # e PROVE Away(runTask[f])'
      <4>1. runTask'[f] = runTask[f] /\ Away(runTask[f])'
        BY <2>3, <3>3
      <4>2. QED
        BY <4>1
    <3>4. QED
      BY <3>2, <3>3
  <2>5. OneRunPerTask'
    BY <2>1, <2>3 DEF OneRunPerTask, RunsAlone
  <2>6. QED
    BY <1>1, <2>4, <2>5 DEF RunsAlone
<1>6. QED
  BY <1>4, <1>5

\* Every step, or none, keeps executions alone.
LEMMA AloneStep ==
  ASSUME MaxCrashes = 0, "failed" \notin ClientStatuses
  PROVE  RunsAlone /\ IInv /\ [Next]_vars /\ [Fresh]_vars => RunsAlone'
<1> SUFFICES ASSUME RunsAlone, IInv, [Next]_vars, [Fresh]_vars
             PROVE  RunsAlone'
  OBVIOUS
<1>1. CASE UNCHANGED vars
  BY <1>1 DEF vars, table, process, RunsAlone, ApiUnheld, Held, OneRunPerTask, Active, Away
<1>2. ~Lifecycle
  BY DEF Lifecycle, StopDaemon, StopExecutor, Die, Boot, Reconcile, RunsAlone, IInv, TypeOK
<1>3. CASE Next /\ Fresh
  <2>1. ApiUnheld'
    BY <1>3, UnheldKept
  <2>2. QED
    BY <1>2, <1>3, <2>1, AloneOfClient, AloneOfClaim, AloneOfWorker, AloneOfExecution, AloneOfApi
    DEF Next
<1>4. QED
  BY <1>1, <1>3

\* While the daemon stays up, clients do not write "failed" and no POST repeats a
\* key, no task has two executions under way: retries wait for the end and a row
\* of /v1/runs is dispatched once, whatever clients cancel, rerun or delete and
\* however long an execution takes.
THEOREM RunsDoNotOverlap ==
  ASSUME MaxCrashes = 0, "failed" \notin ClientStatuses
  PROVE  Spec /\ [][Fresh]_vars => []OneRunPerTask
<1>1. Init => RunsAlone
  BY NullAssumption DEF Init, RunsAlone, ApiUnheld, Held, OneRunPerTask, Active
<1>2. RunsAlone /\ IInv /\ [Next]_vars /\ [Fresh]_vars => RunsAlone'
  BY AloneStep
<1>3. RunsAlone => OneRunPerTask
  BY DEF RunsAlone
<1>4. QED
  BY <1>1, <1>2, <1>3, Inductive, PTL DEF Spec

(***************************************************************************)
(* Dependencies stay met.                                                  *)
(***************************************************************************)

\* A completed row is nobody's who could still write it.
CompletedRests ==
  \A t \in Task : status[t] = "completed" =>
    /\ loop # t /\ t \notin apiDue
    /\ \A w \in Slot : job[w] = t => step[w] \in {"await", "announceOther"}
    /\ \A e \in Exec : Active(e) => runTask[e] # t

Underway(t) == Held(t) \/ \E e \in Exec : Active(e) /\ runTask[e] = t

Met(d) == status[d] \in {"completed", "deleted"}

\* A POST to /v1/runs is dispatched without a look at depends_on.
DepsHold ==
  /\ RunsAlone
  /\ CompletedRests
  /\ \A t \in Task : Ingress[t] # "api" /\ Underway(t) => \A d \in DependsOn[t] : Met(d)

\* A step that puts no task under way, turns no row completed and spoils no
\* completed one keeps dependencies met.
LEMMA DepsKept ==
  ASSUME DepsHold, RunsAlone', CompletedRests',
         \A t \in Task : Ingress[t] # "api" /\ Underway(t)' => Underway(t),
         \A t \in Task : Met(t) => Met(t)'
  PROVE  DepsHold'
BY RowAssumption DEF DepsHold

\* Completed rows rest as long as nobody takes them up.
LEMMA RestKept ==
  ASSUME CompletedRests,
         \A t \in Task : status'[t] = "completed" =>
           /\ status[t] = "completed"
           /\ loop' # t \/ loop' = loop
           /\ t \in apiDue' => t \in apiDue
           /\ \A w \in Slot : job'[w] = t => \/ job[w] = t /\ step'[w] = step[w]
                                             \/ step'[w] \in {"await", "announceOther"}
           /\ \A e \in Exec : Active(e)' /\ runTask'[e] = t => Active(e) /\ runTask[e] = t
  PROVE  CompletedRests'
BY DEF CompletedRests

\* No client call spoils a completed row: cancel refuses it, and rerun and
\* task.status are not used.
LEMMA DepsOfClient ==
  ASSUME Fresh, MaxReruns = 0, ClientStatuses = {},
         DepsHold, RunsAlone', IInv, NEW t \in Task, Client(t)
  PROVE  DepsHold'
<1>1. ~ApiResubmit(t) /\ ~RerunTask(t) /\ ~\E s \in ClientStatuses : SetTaskStatus(t, s)
  BY DEF Fresh, RerunTask, IInv, TypeOK
<1>2. UNCHANGED <<loop, job, step, runTask, runStage>>
  BY <1>1 DEF Client, Submit, ApiSubmit, CancelTask, DeleteTask, ReapExpired, process
<1>3. \A u \in Task : u \in apiDue' => u \in apiDue \/ status'[u] # "completed"
  <2>1. CASE ApiSubmit(t)
    BY <2>1 DEF ApiSubmit, InsertRow, IInv, TypeOK, TableTypeOK
  <2>2. CASE ~ApiSubmit(t)
    BY <1>1, <2>2 DEF Client, Submit, CancelTask, DeleteTask, ReapExpired, process
  <2>3. QED
    BY <2>1, <2>2
<1>4. \A u \in Task : \/ status'[u] = status[u]
                      \/ status'[u] = "pending" /\ status[u] = "absent"
                      \/ status'[u] = "canceled" /\ status[u] \notin {"completed", "deleted"}
                      \/ status'[u] = "deleted"
  BY <1>1 DEF Client, Submit, ApiSubmit, CancelTask, DeleteTask, ReapExpired, InsertRow, Cancelable,
     Present, UpdateStatus, DeleteRow, IInv, TypeOK, TableTypeOK
<1>5. CompletedRests'
  BY <1>2, <1>3, <1>4, RestKept DEF DepsHold, Active
<1>6. \A u \in Task : Met(u) => Met(u)'
  BY <1>4 DEF Met
<1>7. \A u \in Task : Underway(u)' => Underway(u)
  BY <1>2 DEF Underway, Held, Active
<1>8. QED
  BY <1>5, <1>6, <1>7, DepsKept

\* The row the loop claims has all it depends on completed.
LEMMA DepsOfClaim ==
  ASSUME DepsHold, RunsAlone', IInv, NEW t \in Task, Claim(t)
  PROVE  DepsHold'
<1>1. /\ UNCHANGED <<job, step, runTask, runStage, apiDue>> /\ loop' = t /\ loop = NoTask
      /\ status[t] = "pending" /\ DepsMet(t)
  BY DEF Claim, Head, Claimable
<1>2. \A u \in Task : status'[u] = IF u = t THEN "running" ELSE status[u]
  BY DEF Claim, ClaimRow, IInv, TypeOK, TableTypeOK
<1>3. CompletedRests'
  BY <1>1, <1>2, RestKept DEF DepsHold, Active
<1>4. \A u \in Task : Met(u) => Met(u)'
  BY <1>1, <1>2 DEF Met
<1>5. \A u \in Task : Underway(u)' => Underway(u) \/ u = t
  BY <1>1 DEF Underway, Held, Active
<1>6. \A d \in DependsOn[t] : Met(d)
  BY <1>1 DEF DepsMet, Met
<1>7. QED
  BY <1>3, <1>4, <1>5, <1>6, RowAssumption DEF DepsHold

\* A dispatch works for the task its worker holds.
LEMMA DepsOfDispatch ==
  ASSUME DepsHold, RunsAlone', IInv, NEW w \in Slot, NEW e \in Exec, Dispatch(w, e)
  PROVE  DepsHold'
<1> DEFINE t == job[w]
<1>1. /\ t \in Task /\ step[w] = "dispatch" /\ UNCHANGED <<loop, job, apiDue>>
      /\ \A v \in Slot : step'[v] = IF v = w THEN "await" ELSE step[v]
  BY DEF Dispatch, IInv, TypeOK, WorkerHasTask
<1>2. /\ \A f \in Exec : runTask'[f] = IF f = e THEN t ELSE runTask[f]
      /\ \A f \in Exec : runStage'[f] = IF f = e THEN "live" ELSE runStage[f]
  BY DEF Dispatch, StartRun, Launch, IInv, TypeOK
<1>3. status[t] # "completed"
  BY <1>1 DEF DepsHold, CompletedRests
<1>4. /\ \A u \in Task : u # t => status'[u] = status[u]
      /\ status'[t] # "completed" /\ (status[t] = "deleted" => status'[t] = "deleted")
  BY <1>1, <1>3 DEF Dispatch, StartRun, UpdateStatusAndEvidence, UpdateStatus, Present, IInv, TypeOK, TableTypeOK
<1>5. CompletedRests'
  BY <1>1, <1>2, <1>4, RestKept DEF DepsHold, Active
<1>6. \A u \in Task : Met(u) => Met(u)'
  BY <1>3, <1>4 DEF Met
<1>7. \A u \in Task : Underway(u)' => Underway(u)
  BY <1>1, <1>2 DEF Underway, Held, Active
<1>8. QED
  BY <1>5, <1>6, <1>7, DepsKept

\* The other steps of a worker write only rows that are not completed.
LEMMA DepsOfWorker ==
  ASSUME DepsHold, RunsAlone', IInv, NEW w \in Slot, Worker(w)
  PROVE  DepsHold'
<1> DEFINE t == job[w]
<1>1. CASE \E e \in Exec : Dispatch(w, e)
  BY <1>1, DepsOfDispatch
<1>2. ASSUME ~\E e \in Exec : Dispatch(w, e)
      PROVE  DepsHold'
  <2>1. UNCHANGED <<runTask, runStage, apiDue>>
    BY <1>2 DEF Worker, Spawn, CheckTask, DispatchFails, AwaitTerminal, AwaitCap, Finalize
  <2>2. \A e \in Exec : Active(e)' <=> Active(e)
    BY <2>1 DEF Active
  <2>3. step[w] # "idle" => t \in Task
    BY DEF IInv, TypeOK, WorkerHasTask
  <2>4. \A u \in Task : \/ status'[u] = status[u]
                        \/ status'[u] # "completed" /\ status[u] \notin {"completed", "deleted"}
    <3>1. CASE UNCHANGED status
      BY <3>1
    <3>2. CASE DispatchFails(w)
      <4>1. status[t] # "completed"
        BY <2>3, <3>2 DEF DispatchFails, DepsHold, CompletedRests
      <4>2. QED
        BY <2>3, <3>2, <4>1 DEF DispatchFails, UpdateStatus, Present, IInv, TypeOK, TableTypeOK
    <3>3. CASE Finalize(w) /\ step[w] = "announceFailed" /\ RetryDue(t)
      <4>1. status[t] # "completed" /\ t \in Task
        BY <2>3, <3>3 DEF DepsHold, CompletedRests
      <4>2. QED
        BY <3>3, <4>1 DEF Finalize, RetryDue, RequeueRow, Present, IInv, TypeOK, TableTypeOK
    <3>4. QED
      BY <1>2, <3>1, <3>2, <3>3 DEF Worker, Spawn, CheckTask, AwaitTerminal, AwaitCap, Finalize, table
  <2>5. \A u \in Task : Met(u) => Met(u)'
    BY <2>4 DEF Met
  <2>6. \A v \in Slot \ {w} : job'[v] = job[v] /\ step'[v] = step[v]
    BY <1>2 DEF Worker, Spawn, CheckTask, DispatchFails, AwaitTerminal, AwaitCap, Finalize, Release,
       IInv, TypeOK
  <2>7. loop' \in {loop, NoTask} /\ job'[w] \in {job[w], loop, NoTask}
        /\ (job'[w] = loop => loop = NoTask \/ Spawn(w) \/ job'[w] = job[w])
    BY <1>2 DEF Worker, Spawn, CheckTask, DispatchFails, AwaitTerminal, AwaitCap, Finalize, Release,
       IInv, TypeOK
  <2>8. \A u \in Task : Underway(u)' => Underway(u)
    BY <2>1, <2>2, <2>6, <2>7, NullAssumption DEF Underway, Held
  <2>9. ASSUME NEW u \in Task, status[u] = "completed", job'[w] = u
        PROVE  job[w] = u /\ (step'[w] = step[w] \/ step'[w] \in {"await", "announceOther"})
    <3>1. loop # u /\ (t = u => step[w] \in {"await", "announceOther"})
      BY <2>9 DEF DepsHold, CompletedRests
    <3>2. job[w] = u
      BY <2>7, <2>9, <3>1, NullAssumption
    <3>3. ~Spawn(w)
      BY <2>9, <3>1 DEF Spawn, IInv, TypeOK
    <3>4. QED
      BY <1>2, <2>9, <3>1, <3>2, <3>3, NullAssumption
      DEF Worker, CheckTask, DispatchFails, AwaitTerminal, AwaitCap, Finalize, Release, IInv, TypeOK
  <2>10. CompletedRests'
    BY <2>1, <2>2, <2>4, <2>6, <2>7, <2>9, RestKept, NullAssumption DEF DepsHold
  <2>11. QED
    BY <2>5, <2>8, <2>10, DepsKept
<1>3. QED
  BY <1>1, <1>2

\* An execution completes its own row only, which then rests.
LEMMA DepsOfExecution ==
  ASSUME DepsHold, RunsAlone', IInv, NEW e \in Exec, Execution(e) \/ GraphCancel(e)
  PROVE  DepsHold'
<1>1. UNCHANGED <<loop, job, step, runTask, apiDue>>
  BY DEF Execution, AgentRunEnds, GraphRunEnds, GraphWriteback, GraphCancel, table
<1>2. \A f \in Exec : Active(f)' => Active(f)
  BY DEF Execution, AgentRunEnds, GraphRunEnds, GraphWriteback, GraphCancel, CancelRuns, Active,
     CaughtCancel, UncaughtCancel, IInv, TypeOK
<1>3. \A u \in Task : \/ status'[u] = status[u]
                      \/ /\ Active(e) /\ u = runTask[e] /\ ~Active(e)'
                         /\ status[u] \notin {"completed", "deleted"}
  <2>1. CASE UNCHANGED table
    BY <2>1 DEF table
  <2>2. Active(e) /\ runTask[e] \in Task => status[runTask[e]] # "completed"
    BY DEF DepsHold, CompletedRests
  <2>3. CASE \E s \in {"completed", "failed"} : AgentRunEnds(e, s)
    <3>1. Active(e) /\ ~Active(e)' /\ runTask[e] \in Task
      BY <2>3, ActiveTask DEF AgentRunEnds, Active, IInv, TypeOK
    <3>2. QED
      BY <2>2, <2>3, <3>1 DEF AgentRunEnds, UpdateStatus, Present, IInv, TypeOK, TableTypeOK
  <2>4. CASE GraphWriteback(e)
    <3>1. Active(e) /\ ~Active(e)' /\ runTask[e] \in Task
      BY <2>4, ActiveTask DEF GraphWriteback, Active, IInv, TypeOK
    <3>2. QED
      BY <2>2, <2>4, <3>1 DEF GraphWriteback, UpdateStatusAndEvidence, UpdateStatus, Present, IInv,
         TypeOK, TableTypeOK
  <2>5. QED
    BY <2>1, <2>3, <2>4 DEF Execution, GraphRunEnds, GraphCancel
<1>4. \A u \in Task : Met(u) => Met(u)'
  BY <1>3 DEF Met
<1>5. \A u \in Task : Underway(u)' => Underway(u)
  BY <1>1, <1>2 DEF Underway, Held
<1>6. CompletedRests'
  <2>1. ASSUME NEW u \in Task, status'[u] = "completed", status'[u] = status[u]
        PROVE  /\ loop # u /\ u \notin apiDue
               /\ \A w \in Slot : job[w] = u => step[w] \in {"await", "announceOther"}
               /\ \A f \in Exec : Active(f) => runTask[f] # u
    BY <2>1 DEF DepsHold, CompletedRests
  <2>2. ASSUME NEW u \in Task, Active(e), u = runTask[e], ~Active(e)'
        PROVE  /\ loop # u /\ u \notin apiDue
               /\ \A w \in Slot : job[w] = u => step[w] \in {"await", "announceOther"}
               /\ \A f \in Exec : Active(f)' => runTask[f] # u
    BY <1>2, <2>2 DEF DepsHold, RunsAlone, Away, OneRunPerTask
  <2>3. QED
    BY <1>1, <1>2, <1>3, <2>1, <2>2 DEF CompletedRests
<1>7. QED
  BY <1>4, <1>5, <1>6, DepsKept

\* Before its dispatch a row of /v1/runs is not completed, and afterwards it is
\* running or failed.
LEMMA DepsOfApi ==
  ASSUME DepsHold, RunsAlone', IInv, NEW t \in Task,
         ApiDispatchFails(t) \/ \E e \in Exec : ApiDispatch(t, e)
  PROVE  DepsHold'
<1>1. /\ t \in apiDue /\ apiDue' = apiDue \ {t} /\ UNCHANGED <<loop, job, step>>
      /\ \A u \in Task : u # t => status'[u] = status[u]
      /\ status'[t] \in {status[t], "running", "failed"} /\ (status[t] = "deleted" => status'[t] = "deleted")
  BY DEF ApiDispatchFails, ApiDispatch, StartRun, UpdateStatusAndEvidence, UpdateStatus, Present,
     table, IInv, TypeOK, TableTypeOK
<1>2. status[t] # "completed" /\ Ingress[t] = "api"
  BY <1>1 DEF DepsHold, CompletedRests, IInv, ApiDueIsApi
<1>3. \A f \in Exec : Active(f)' => \/ Active(f) /\ runTask'[f] = runTask[f]
                                   \/ runTask'[f] = t
  <2>1. CASE ApiDispatchFails(t)
    BY <2>1 DEF ApiDispatchFails, Active
  <2>2. ASSUME NEW e \in Exec, ApiDispatch(t, e)
        PROVE  \A f \in Exec : /\ runTask'[f] = IF f = e THEN t ELSE runTask[f]
                              /\ runStage'[f] = IF f = e THEN "live" ELSE runStage[f]
    BY <2>2 DEF ApiDispatch, StartRun, Launch, IInv, TypeOK
  <2>3. QED
    BY <2>1, <2>2 DEF Active
<1>4. CompletedRests'
  BY <1>1, <1>2, <1>3, RestKept DEF DepsHold
<1>5. \A u \in Task : Met(u) => Met(u)'
  BY <1>1, <1>2 DEF Met
<1>6. \A u \in Task : Ingress[u] # "api" /\ Underway(u)' => Underway(u)
  BY <1>1, <1>2, <1>3 DEF Underway, Held
<1>7. QED
  BY <1>4, <1>5, <1>6, DepsKept

\* Every step, or none, keeps dependencies met.
LEMMA DepsStep ==
  ASSUME MaxCrashes = 0, MaxReruns = 0, ClientStatuses = {}
  PROVE  DepsHold /\ IInv /\ [Next]_vars /\ [Fresh]_vars => DepsHold'
<1> SUFFICES ASSUME DepsHold, IInv, [Next]_vars, [Fresh]_vars
             PROVE  DepsHold'
  OBVIOUS
<1>1. RunsAlone'
  BY AloneStep DEF DepsHold
<1>2. CASE UNCHANGED vars
  <2>1. UNCHANGED <<status, loop, job, step, runTask, runStage, apiDue>>
    BY <1>2 DEF vars, table, process
  <2>2. QED
    BY <1>1, <2>1, DepsKept DEF DepsHold, CompletedRests, Underway, Held, Met, Active
<1>3. ~Lifecycle
  BY DEF Lifecycle, StopDaemon, StopExecutor, Die, Boot, Reconcile, DepsHold, RunsAlone, IInv, TypeOK
<1>4. CASE Next /\ Fresh
  BY <1>1, <1>3, <1>4, DepsOfClient, DepsOfClaim, DepsOfWorker, DepsOfExecution, DepsOfApi DEF Next
<1>5. QED
  BY <1>2, <1>4

\* While the daemon stays up, clients neither rerun tasks nor write statuses and no
\* POST repeats a key, what a task of the board depends on stays completed, or is
\* deleted, as long as the task executes: dequeue consults depends_on once, and
\* nothing takes a completed row back.
THEOREM DependenciesHold ==
  ASSUME MaxCrashes = 0, MaxReruns = 0, ClientStatuses = {}
  PROVE  Spec /\ [][Fresh]_vars => []DepsStayMet
<1>1. Init => DepsHold
  <2>1. ASSUME Init PROVE RunsAlone /\ CompletedRests
    BY <2>1, NullAssumption DEF Init, TableInit, RunsAlone, ApiUnheld, Held, OneRunPerTask,
       CompletedRests, Active
  <2>2. ASSUME Init, NEW t \in Task PROVE ~Underway(t)
    BY <2>2, NullAssumption DEF Init, Underway, Held, Active
  <2>3. QED
    BY <2>1, <2>2 DEF DepsHold
<1>2. DepsHold /\ IInv /\ [Next]_vars /\ [Fresh]_vars => DepsHold'
  BY DepsStep
<1>3. DepsHold /\ IInv => DepsStayMet
  <2>1. ASSUME DepsHold, IInv, NEW e \in Exec, Active(e), Ingress[runTask[e]] = "board"
        PROVE  \A d \in DependsOn[runTask[e]] : Met(d)
    BY <2>1, ActiveTask DEF DepsHold, Underway
  <2>2. QED
    BY <2>1 DEF DepsStayMet, Met
<1>4. QED
  BY <1>1, <1>2, <1>3, Inductive, PTL DEF Spec
=============================================================================
