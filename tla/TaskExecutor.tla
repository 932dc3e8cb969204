--------------------------- MODULE TaskExecutor ---------------------------
(***************************************************************************)
(* Everything that moves a row of the task board: the daemon's executor    *)
(* loop and its workers (task_executor.py), the background executions it   *)
(* and POST /v1/runs dispatch (dispatchers/subagent.py, daemon_server.py), *)
(* the task.* and graph.cancel RPCs, and the death and restart of the      *)
(* daemon with its two recovery passes.  A step is what one coroutine does *)
(* between two awaits; the steps of all coroutines interleave.             *)
(***************************************************************************)
EXTENDS TaskStore

CONSTANTS
  Slot,            \* permits of the executor's semaphore
  Loop,            \* the pickup loop, which keeps a row between claim and permit
  MaxCrashes,      \* bound on daemon deaths
  MaxReruns,       \* bound on task.rerun
  ClientStatuses,  \* statuses clients write with the task.status RPC
  GraphCancels,    \* whether clients call graph.cancel
  WaitCapExpires   \* whether an execution may outlive _TERMINAL_WAIT_CAP

ASSUME LoopAssumption == Loop \notin Slot

ASSUME BoundAssumption ==
  /\ MaxCrashes \in Nat /\ MaxReruns \in Nat
  /\ ClientStatuses \subseteq {"pending", "running"} \cup Terminal
  /\ GraphCancels \in BOOLEAN /\ WaitCapExpires \in BOOLEAN

VARIABLES
  evidence,  \* last execution.* event but "started" in the jsonl of each execution
  power,     \* phase of the daemon process
  loop,      \* the row _loop claimed and holds while it waits for a permit
  job,       \* job[w]: the task of the worker that holds permit w
  step,      \* step[w]: the await that worker is at
  runTask,   \* runTask[e]: the task execution e works for
  runStage,  \* runStage[e]: how far the coroutine of e has come
  apiDue,    \* POST /v1/runs handlers between task.submit and their dispatch
  crashes, reruns

process == <<loop, job, step, runTask, runStage, apiDue>>
vars == <<table, evidence, power, process, crashes, reruns>>

Evidence == {"none", "started", "completed", "failed", "cancelled"}
Power    == {"down", "booting", "up", "stopping", "closing"}
Step     == {"idle", "check", "dispatch", "await", "announceFailed", "announceOther"}
Stage    == {"unused", "live", "completed", "failed", "cancelled", "over"}

\* A daemon that has finished start() on an empty board.
Init ==
  /\ TableInit
  /\ evidence = [e \in Exec |-> "none"]
  /\ power = "up"
  /\ loop = NoTask
  /\ job = [w \in Slot |-> NoTask]
  /\ step = [w \in Slot |-> "idle"]
  /\ runTask = [e \in Exec |-> NoTask]
  /\ runStage = [e \in Exec |-> "unused"]
  /\ apiDue = {}
  /\ crashes = 0
  /\ reruns = 0

Serving == power # "down"

(***************************************************************************)
(* task.submit, POST /v1/runs and the other RPCs on a row                  *)
(***************************************************************************)

Submit(t) ==
  /\ Serving /\ status[t] = "absent" /\ Ingress[t] # "api"
  /\ InsertRow(t)
  /\ UNCHANGED <<evidence, power, process, crashes, reruns>>

\* The row is inserted with owner "api"; the dispatch follows after an await.
ApiSubmit(t) ==
  /\ Serving /\ status[t] = "absent" /\ Ingress[t] = "api"
  /\ InsertRow(t)
  /\ apiDue' = apiDue \cup {t}
  /\ UNCHANGED <<evidence, power, loop, job, step, runTask, runStage, crashes, reruns>>

\* A repeated POST with the same idempotency key: submit returns the old row.
\* The graph branch goes on to dispatch whether or not the row is new; the spec
\* branch looks for "deduped" where task.submit does not put it (the flag is a
\* field of the answer's "task"), so it goes on as well.
ApiResubmit(t) ==
  /\ Serving /\ Present(t) /\ Ingress[t] = "api"
  /\ apiDue' = apiDue \cup {t}
  /\ UNCHANGED <<table, evidence, power, loop, job, step, runTask, runStage, crashes, reruns>>

CancelTask(t) ==
  /\ Serving /\ Cancelable(t)
  /\ UpdateStatus(t, "canceled")
  /\ UNCHANGED <<evidenceRef, evidence, power, process, crashes, reruns>>

RerunTask(t) ==
  /\ Serving /\ Present(t) /\ reruns < MaxReruns
  /\ RerunRow(t)
  /\ reruns' = reruns + 1
  /\ UNCHANGED <<evidence, power, process, crashes>>

DeleteTask(t) ==
  /\ Serving /\ Present(t)
  /\ DeleteRow(t)
  /\ UNCHANGED <<evidence, power, process, crashes, reruns>>

\* task.list and task.submit drop terminal rows older than the TTL.
ReapExpired(t) ==
  /\ Serving /\ status[t] \in Terminal
  /\ DeleteRow(t)
  /\ UNCHANGED <<evidence, power, process, crashes, reruns>>

SetTaskStatus(t, s) ==
  /\ Serving /\ Present(t)
  /\ UpdateStatus(t, s)
  /\ UNCHANGED <<evidenceRef, evidence, power, process, crashes, reruns>>

(***************************************************************************)
(* Starting an execution: subagent.run_task and graph.execute_async        *)
(***************************************************************************)

Launch(e, t) ==
  /\ runStage[e] = "unused"
  /\ runTask' = [runTask EXCEPT ![e] = t]
  /\ runStage' = [runStage EXCEPT ![e] = "live"]

StartRun(e, t) ==
  /\ Launch(e, t)
  /\ IF Target[t] = "graph"
     THEN /\ UpdateStatusAndEvidence(t, "running", e)
          /\ evidence' = [evidence EXCEPT ![e] = "started"]
     ELSE /\ UpdateStatus(t, "running")
          /\ UNCHANGED <<evidenceRef, evidence>>

ApiDispatch(t, e) ==
  /\ Serving /\ t \in apiDue
  /\ StartRun(e, t)
  /\ apiDue' = apiDue \ {t}
  /\ UNCHANGED <<power, loop, job, step, crashes, reruns>>

\* The dispatch RPC failed: a spec run is marked failed, a graph run only logged.
ApiDispatchFails(t) ==
  /\ Serving /\ t \in apiDue
  /\ IF Target[t] = "graph" THEN UNCHANGED table
     ELSE UpdateStatus(t, "failed") /\ UNCHANGED evidenceRef
  /\ apiDue' = apiDue \ {t}
  /\ UNCHANGED <<evidence, power, loop, job, step, runTask, runStage, crashes, reruns>>

(***************************************************************************)
(* _loop and _run_one                                                      *)
(***************************************************************************)

\* dequeue; when the head of the queue has unmet dependencies the claim is
\* reverted in the same call and no other row is tried: no step at all here.
Claim(t) ==
  /\ Serving /\ power # "closing" /\ loop = NoTask
  /\ Head(t) /\ DepsMet(t)
  /\ ClaimRow(t)
  /\ loop' = t
  /\ UNCHANGED <<evidence, power, job, step, runTask, runStage, apiDue, crashes, reruns>>

\* Mistake: the permit is taken for a task the loop does not let go of.
SpawnCopy(w) ==
  /\ loop # NoTask /\ step[w] = "idle"
  /\ job' = [job EXCEPT ![w] = loop]
  /\ step' = [step EXCEPT ![w] = "check"]
  /\ UNCHANGED <<table, evidence, power, loop, runTask, runStage, apiDue, crashes, reruns>>

\* _sem.acquire() returned: _run_one is spawned for the claimed row.
Spawn(w) ==
  /\ loop # NoTask /\ step[w] = "idle"
  /\ job' = [job EXCEPT ![w] = loop]
  /\ step' = [step EXCEPT ![w] = "check"]
  /\ loop' = NoTask
  /\ UNCHANGED <<table, evidence, power, runTask, runStage, apiDue, crashes, reruns>>

\* Leaves _run_one: the finally clause releases the permit.
Release(w) ==
  /\ job' = [job EXCEPT ![w] = NoTask]
  /\ step' = [step EXCEPT ![w] = "idle"]

CheckTask(w) ==
  /\ Serving /\ step[w] = "check"
  /\ IF status[job[w]] = "running"
     THEN step' = [step EXCEPT ![w] = "dispatch"] /\ UNCHANGED job
     ELSE Release(w)
  /\ UNCHANGED <<table, evidence, power, loop, runTask, runStage, apiDue, crashes, reruns>>

\* After the broadcast the row is not read again: a cancel that came meanwhile
\* is overwritten with "running".
Dispatch(w, e) ==
  /\ Serving /\ step[w] = "dispatch" /\ Target[job[w]] # "none"
  /\ StartRun(e, job[w])
  /\ step' = [step EXCEPT ![w] = "await"]
  /\ UNCHANGED <<power, loop, job, apiDue, crashes, reruns>>

\* No target, unknown agent or graph, invalid spec, or a raising handler.
DispatchFails(w) ==
  /\ Serving /\ step[w] = "dispatch"
  /\ UpdateStatus(job[w], "failed")
  /\ step' = [step EXCEPT ![w] = "await"]
  /\ UNCHANGED <<evidenceRef, evidence, power, loop, job, runTask, runStage, apiDue, crashes, reruns>>

\* Mistake: _await_terminal does not give up on a row that is gone.
AwaitPresent(w) ==
  /\ Serving /\ step[w] = "await" /\ status[job[w]] \in Terminal
  /\ step' = [step EXCEPT ![w] = IF status[job[w]] = "failed"
                                 THEN "announceFailed" ELSE "announceOther"]
  /\ UNCHANGED <<table, evidence, power, loop, job, runTask, runStage, apiDue, crashes, reruns>>

\* _await_terminal sees a final status or no row; _finalize reads the row and
\* announces it, which is an await.
AwaitTerminal(w) ==
  /\ Serving /\ step[w] = "await"
  /\ \/ /\ ~Present(job[w])
        /\ Release(w)
     \/ /\ status[job[w]] \in Terminal
        /\ step' = [step EXCEPT ![w] = IF status[job[w]] = "failed"
                                       THEN "announceFailed" ELSE "announceOther"]
        /\ UNCHANGED job
  /\ UNCHANGED <<table, evidence, power, loop, runTask, runStage, apiDue, crashes, reruns>>

\* Mistake: one poll, no wait.
AwaitOnce(w) ==
  /\ Serving /\ step[w] = "await"
  /\ Present(job[w]) /\ status[job[w]] \notin Terminal
  /\ step' = [step EXCEPT ![w] = "announceOther"]
  /\ UNCHANGED <<table, evidence, power, loop, job, runTask, runStage, apiDue, crashes, reruns>>

\* The wait ends at _TERMINAL_WAIT_CAP, and at once when the executor stops.
AwaitCap(w) ==
  /\ Serving /\ (WaitCapExpires \/ power = "closing") /\ step[w] = "await"
  /\ Present(job[w]) /\ status[job[w]] \notin Terminal
  /\ step' = [step EXCEPT ![w] = "announceOther"]
  /\ UNCHANGED <<table, evidence, power, loop, job, runTask, runStage, apiDue, crashes, reruns>>

\* Mistakes: one retry too many, one too few.
RetryDueOnceMore(t) == Present(t) /\ retries[t] <= MaxRetries[t] /\ owner[t] = "executor"
RetryDueOnceLess(t) == Present(t) /\ retries[t] + 1 < MaxRetries[t] /\ owner[t] = "executor"

RetryDue(t) == Present(t) /\ retries[t] < MaxRetries[t] /\ owner[t] = "executor"

\* The status that decides is the one read before the broadcast; the retry
\* budget and the owner are read after it.
Finalize(w) ==
  /\ Serving /\ step[w] \in {"announceFailed", "announceOther"}
  /\ IF step[w] = "announceFailed" /\ RetryDue(job[w])
     THEN RequeueRow(job[w]) ELSE UNCHANGED table
  /\ Release(w)
  /\ UNCHANGED <<evidence, power, loop, runTask, runStage, apiDue, crashes, reruns>>

(***************************************************************************)
(* The background executions: _run_task_bg and _run_graph_async            *)
(***************************************************************************)

IsGraphRun(e) == Target[runTask[e]] = "graph"

AgentRunEnds(e, s) ==
  /\ Serving /\ runStage[e] = "live" /\ ~IsGraphRun(e) /\ s \in {"completed", "failed"}
  /\ UpdateStatus(runTask[e], s)
  /\ runStage' = [runStage EXCEPT ![e] = "over"]
  /\ UNCHANGED <<evidenceRef, evidence, power, loop, job, step, runTask, apiDue, crashes, reruns>>

\* Mistake: the row is written before the broadcast.
GraphRowFirst(e, s) ==
  /\ Serving /\ runStage[e] = "live" /\ IsGraphRun(e) /\ s \in {"completed", "failed"}
  /\ evidence' = [evidence EXCEPT ![e] = s]
  /\ UpdateStatus(runTask[e], s)
  /\ runStage' = [runStage EXCEPT ![e] = s]
  /\ UNCHANGED <<evidenceRef, power, loop, job, step, runTask, apiDue, crashes, reruns>>

\* Terminal evidence first, then the broadcast, then the row.
GraphRunEnds(e, s) ==
  /\ Serving /\ runStage[e] = "live" /\ IsGraphRun(e) /\ s \in {"completed", "failed"}
  /\ evidence' = [evidence EXCEPT ![e] = s]
  /\ runStage' = [runStage EXCEPT ![e] = s]
  /\ UNCHANGED <<table, power, loop, job, step, runTask, apiDue, crashes, reruns>>

GraphWriteback(e) ==
  /\ Serving /\ runStage[e] \in {"completed", "failed", "cancelled"}
  /\ CASE runStage[e] = "completed" -> UpdateStatusAndEvidence(runTask[e], "completed", e)
       [] runStage[e] = "failed"    -> UpdateStatus(runTask[e], "failed") /\ UNCHANGED evidenceRef
       [] runStage[e] = "cancelled" -> UpdateStatus(runTask[e], "canceled") /\ UNCHANGED evidenceRef
  /\ runStage' = [runStage EXCEPT ![e] = "over"]
  /\ UNCHANGED <<evidence, power, loop, job, step, runTask, apiDue, crashes, reruns>>

\* CancelledError is caught inside the try body only: raised in the broadcast
\* of one of the except clauses it ends the coroutine with no writeback.
CaughtCancel(e)   == runStage[e] \in {"live", "completed"} /\ IsGraphRun(e)
UncaughtCancel(e) == runStage[e] \in {"failed", "cancelled"}

CancelRuns(S) ==
  /\ evidence' = [e \in Exec |-> IF e \in S /\ CaughtCancel(e) THEN "cancelled" ELSE evidence[e]]
  /\ runStage' = [e \in Exec |-> IF e \in S /\ CaughtCancel(e) THEN "cancelled"
                                 ELSE IF e \in S /\ UncaughtCancel(e) THEN "over"
                                 ELSE runStage[e]]

GraphCancel(e) ==
  /\ Serving /\ GraphCancels /\ (CaughtCancel(e) \/ UncaughtCancel(e))
  /\ CancelRuns({e})
  /\ UNCHANGED <<table, power, loop, job, step, runTask, apiDue, crashes, reruns>>

(***************************************************************************)
(* Death and restart of the daemon                                         *)
(***************************************************************************)

\* stop() cancels every graph execution and lets them write back.
StopDaemon ==
  /\ power = "up" /\ crashes < MaxCrashes
  /\ power' = "stopping"
  /\ CancelRuns(Exec)
  /\ UNCHANGED <<table, loop, job, step, runTask, apiDue, crashes, reruns>>

\* ... and after the drain, which may time out, stop() cancels _loop; a row the
\* loop had claimed stays claimed by nobody.  The workers go on.
StopExecutor ==
  /\ power = "stopping"
  /\ power' = "closing"
  /\ loop' = NoTask
  /\ UNCHANGED <<table, evidence, job, step, runTask, runStage, apiDue, crashes, reruns>>

\* The process ends, by a crash at any point or at the end of stop().
Die ==
  /\ Serving /\ crashes < MaxCrashes
  /\ power' = "down"
  /\ loop' = NoTask
  /\ job' = [w \in Slot |-> NoTask]
  /\ step' = [w \in Slot |-> "idle"]
  /\ runStage' = [e \in Exec |-> IF runStage[e] = "unused" THEN "unused" ELSE "over"]
  /\ apiDue' = {}
  /\ crashes' = crashes + 1
  /\ UNCHANGED <<table, evidence, runTask, reruns>>

\* Mistake: the loop starts without reset_orphans.
BootKeepingOrphans ==
  /\ power = "down"
  /\ power' = "booting"
  /\ UNCHANGED <<table, evidence, process, crashes, reruns>>

\* start(): TaskExecutor.start resets the orphans and starts the loop; the
\* daemon serves RPCs and claims rows from here on.
Boot ==
  /\ power = "down"
  /\ power' = "booting"
  /\ ResetOrphans
  /\ UNCHANGED <<evidence, process, crashes, reruns>>

\* What _reconcile_task_states makes of a running row with evidence v.
Reconciled(v) == CASE v = "completed" -> "completed"
                   [] v = "failed"    -> "failed"
                   [] v = "cancelled" -> "canceled"
                   [] OTHER           -> "running"

Verdict(t) == IF evidenceRef[t] = NoExec THEN "running"
              ELSE Reconciled(evidence[evidenceRef[t]])

\* The tail of start(), some awaits after Boot.
Reconcile ==
  /\ power = "booting"
  /\ power' = "up"
  /\ status' = [t \in Task |-> IF status[t] = "running" THEN Verdict(t) ELSE status[t]]
  /\ needsFix' = needsFix \cup {t \in Task : status[t] = "running" /\ Verdict(t) = "running"}
  /\ UNCHANGED <<owner, retries, born, evidenceRef, evidence, process, crashes, reruns>>

(***************************************************************************)
(* The specification                                                       *)
(***************************************************************************)

Client(t) == \/ Submit(t) \/ ApiSubmit(t) \/ ApiResubmit(t)
             \/ CancelTask(t) \/ RerunTask(t) \/ DeleteTask(t) \/ ReapExpired(t)
             \/ \E s \in ClientStatuses : SetTaskStatus(t, s)

Worker(w) == \/ Spawn(w) \/ CheckTask(w) \/ DispatchFails(w)
             \/ \E e \in Exec : Dispatch(w, e)
             \/ AwaitTerminal(w) \/ AwaitCap(w) \/ Finalize(w)

Execution(e) == \/ \E s \in {"completed", "failed"} : AgentRunEnds(e, s) \/ GraphRunEnds(e, s)
                \/ GraphWriteback(e)

Lifecycle == StopDaemon \/ StopExecutor \/ Die \/ Boot \/ Reconcile

Next == \/ \E t \in Task : \/ Client(t) \/ Claim(t)
                           \/ ApiDispatchFails(t) \/ \E e \in Exec : ApiDispatch(t, e)
        \/ \E w \in Slot : Worker(w)
        \/ \E e \in Exec : Execution(e) \/ GraphCancel(e)
        \/ Lifecycle

Spec == Init /\ [][Next]_vars

\* The event loop resumes every ready coroutine, a killed daemon is started
\* again, and an execution ends (its model calls and tools have timeouts).
Fairness ==
  /\ \A t \in Task : WF_vars(Claim(t)) /\ WF_vars((\E e \in Exec : ApiDispatch(t, e)) \/ ApiDispatchFails(t))
  /\ \A w \in Slot : /\ WF_vars(Spawn(w)) /\ WF_vars(CheckTask(w))
                     /\ WF_vars((\E e \in Exec : Dispatch(w, e)) \/ DispatchFails(w))
                     /\ WF_vars(AwaitTerminal(w)) /\ WF_vars(AwaitCap(w)) /\ WF_vars(Finalize(w))
  /\ \A e \in Exec : WF_vars(Execution(e))
  /\ WF_vars(StopExecutor) /\ WF_vars(power = "closing" /\ Die)
  /\ WF_vars(Boot) /\ WF_vars(Reconcile)

FairSpec == Spec /\ Fairness

(***************************************************************************)
(* Properties                                                              *)
(***************************************************************************)

TypeOK ==
  /\ TableTypeOK
  /\ evidence \in [Exec -> Evidence]
  /\ power \in Power
  /\ loop \in Task \cup {NoTask}
  /\ job \in [Slot -> Task \cup {NoTask}]
  /\ step \in [Slot -> Step]
  /\ runTask \in [Exec -> Task \cup {NoTask}]
  /\ runStage \in [Exec -> Stage]
  /\ apiDue \subseteq Task
  /\ crashes \in Nat
  /\ reruns \in Nat

Held(t) == t = loop \/ \E w \in Slot : job[w] = t

\* A row is in the hands of at most one of the loop and the workers, however
\* claims, retries, cancels, deletes and restarts interleave.
ClaimExclusive ==
  /\ loop # NoTask => \A w \in Slot : job[w] # loop
  /\ \A v, w \in Slot : v # w /\ job[v] # NoTask => job[v] # job[w]

\* What a worker holds cannot be claimed again: its row carries the executor's
\* claim or is gone.
HeldIsOwned == \A t \in Task : Held(t) => owner[t] = "executor" \/ status[t] = "deleted"

\* A row the executor shows as running has the loop or a worker in charge of
\* it until the daemon closes: nothing else would ever retry or announce it.
RunningIsHeld ==
  power \in {"booting", "up", "stopping"} => \A t \in Task : Orphan(t) => Held(t)

\* The executor alone never spends more attempts than max_retries allows.
RetryBudget == \A t \in Task : retries[t] <= MaxRetries[t] + reruns

(***************************************************************************)
(* The inductive invariant: what the four above rest on.                   *)
(***************************************************************************)

WorkerHasTask == \A w \in Slot : step[w] = "idle" <=> job[w] = NoTask

RunHasTask == \A e \in Exec : runStage[e] # "unused" => runTask[e] \in Task

DownKeepsNothing == power = "down" => loop = NoTask /\ \A w \in Slot : job[w] = NoTask

IngressOwns ==
  \A t \in Task : /\ status[t] = "absent" => owner[t] = "none"
                  /\ status[t] # "absent" /\ Ingress[t] = "api" => owner[t] = "api"

ApiDueIsApi == \A t \in apiDue : status[t] # "absent" /\ Ingress[t] = "api"

IInv == /\ TypeOK /\ WorkerHasTask /\ RunHasTask /\ DownKeepsNothing
        /\ IngressOwns /\ ApiDueIsApi
        /\ HeldIsOwned /\ ClaimExclusive /\ RetryBudget

\* What a worker announces is over, unless it gave up waiting.
AnnouncedIsOver ==
  power # "closing" =>
    \A w \in Slot : step[w] \in {"announceFailed", "announceOther"}
                     => status[job[w]] # "running"

(***************************************************************************)
(* More than one actor                                                     *)
(***************************************************************************)

Active(e) == runStage[e] \in {"live", "completed", "failed", "cancelled"}

\* No task has two executions under way at a time.
OneRunPerTask ==
  \A e, f \in Exec : e # f /\ Active(e) /\ Active(f) => runTask[e] # runTask[f]

\* While a task of the board executes, what it depends on stays completed.
DepsStayMet ==
  \A e \in Exec : Active(e) /\ Ingress[runTask[e]] = "board" =>
    \A d \in DependsOn[runTask[e]] : status[d] \in {"completed", "deleted"}

Settled(t) == status[t] \in Terminal \cup {"deleted"}

\* Every submitted row comes to rest in a final status or is deleted.
EveryTaskSettles == \A t \in Task : status[t] = "pending" ~> []Settled(t)

\* Every permit of the semaphore comes back.
PermitsReturn == \A w \in Slot : step[w] # "idle" ~> step[w] = "idle"

\* A failed row with retry budget left that a worker waits for, and that no
\* crash will take from it any more, does not stay failed.
FailedIsRetried ==
  \A t \in Task :
    (/\ \E w \in Slot : job[w] = t /\ step[w] = "await"
     /\ status[t] = "failed" /\ owner[t] = "executor" /\ retries[t] < MaxRetries[t]
     /\ crashes = MaxCrashes)
    ~> status[t] # "failed"

(***************************************************************************)
(* The loop and the workers keep tasks the way Claims says.                *)
(***************************************************************************)

Keepers == Slot \cup {Loop}

Keeps == [k \in Keepers |-> IF k = Loop THEN loop ELSE job[k]]

Keep == INSTANCE Claims WITH Keeper <- Keepers, keeps <- Keeps

\* The conditional updates of the table are all the mutual exclusion there is,
\* and they make the executor an implementation of Claims.
ImplementsClaims == Keep!Spec
=============================================================================
