---------------------------- MODULE CronManager ----------------------------
(***************************************************************************)
(* Scheduled jobs: CronManager of agent_runtime/triggers.py, the RPCs      *)
(* cron.* and the handler _cron_default_handler of the daemon.  _run_loop  *)
(* gathers the jobs that are due and waits for all of them; each is a      *)
(* coroutine with awaits for the handler, the execution record and the     *)
(* row.  Rows of cron_jobs are written by threads, in any order.           *)
(*                                                                         *)
(* A member of Job is one registration (one CronJob object and, after a    *)
(* restart, its copy); registrations may share an id.  A next_run is the   *)
(* rank of that time among those of the registration, 0 when dormant.      *)
(***************************************************************************)
EXTENDS Naturals, FiniteSets

CONSTANTS
  Job,            \* registrations
  Id,             \* job ids
  NoRow,          \* no row in cron_jobs
  IdOf,           \* IdOf[j]: the id of registration j
  Mode,           \* Mode[j]: one_shot, or loop_mode; "loop" is continuous or interval
  MaxIterations,  \* MaxIterations[j], 0 for no cap
  MaxRetries,     \* MaxRetries[j]
  Budgeted,       \* those with a token_budget
  MaxEvents,      \* bound: event times per registration
  MaxRestarts     \* bound: deaths of the daemon

\* What decides in an object or a row.
Columns(j) == [enabled : BOOLEAN, next : Nat, count : Nat, retries : 0..MaxRetries[j]]

ASSUME CronAssumption ==
  /\ IdOf \in [Job -> Id]
  /\ Mode \in [Job -> {"once", "cron", "loop", "event"}]
  /\ MaxIterations \in [Job -> Nat] /\ MaxRetries \in [Job -> Nat]
  /\ Budgeted \subseteq Job
  /\ \A j \in Job : NoRow \notin Columns(j)
  /\ MaxEvents \in Nat /\ MaxRestarts \in Nat

VARIABLES
  up,         \* the daemon runs
  memory,     \* registrations in _jobs
  job,        \* job[j]: the columns of the CronJob object that decide
  disk,       \* disk[j]: the row written from j, or NoRow
  saves,      \* registrations whose first save is on its way to a thread
  deletes,    \* ids whose delete is on its way to a thread
  phase,      \* phase[j]: where the coroutine _run_single_job(j) stands
  iteration,  \* iteration[j]: the time whose execution the handler awaits, or 0
  issued,     \* issued[j]: how many times next_run was computed
  passed,     \* passed[j]: the latest next_run of j the clock has reached
  tasks,      \* idempotency keys <<j, time>> in the task store
  executing,  \* executions of loop iterations under way, by key
  restarts    \* deaths so far

vars == <<up, memory, job, disk, saves, deletes, phase, iteration, issued,
          passed, tasks, executing, restarts>>

Phase == {"new", "idle", "due", "waiting", "announcing", "late", "recording",
          "saving", "deleting"}

CronJob == [enabled |-> TRUE, next |-> 0, count |-> 0, retries |-> 0]

Init ==
  /\ up = TRUE
  /\ memory = {}
  /\ job = [j \in Job |-> CronJob]
  /\ disk = [j \in Job |-> NoRow]
  /\ saves = {} /\ deletes = {}
  /\ phase = [j \in Job |-> "new"]
  /\ iteration = [j \in Job |-> 0]
  /\ issued = [j \in Job |-> 0]
  /\ passed = [j \in Job |-> 0]
  /\ tasks = {} /\ executing = {}
  /\ restarts = 0

SameId(i) == {j \in Job : IdOf[j] = i}

(***************************************************************************)
(* Rows: INSERT OR REPLACE by id, DELETE by id.                            *)
(***************************************************************************)

SaveJob(j, object) ==
  disk' = [k \in Job |-> IF k = j THEN object
                         ELSE IF IdOf[k] = IdOf[j] THEN NoRow ELSE disk[k]]

DeleteJob(i) == disk' = [k \in Job |-> IF IdOf[k] = i THEN NoRow ELSE disk[k]]

(***************************************************************************)
(* Clients.                                                                *)
(***************************************************************************)

\* cron.register, or task.submit with trigger cron or run_at: the object is in
\* _jobs at once, its row when a thread gets to it.
Register(j) ==
  /\ up /\ phase[j] = "new"
  /\ LET next == IF Mode[j] = "event" THEN 0 ELSE 1 IN
     /\ job' = [job EXCEPT ![j].next = next]
     /\ issued' = [issued EXCEPT ![j] = next]
  /\ memory' = (memory \ SameId(IdOf[j])) \cup {j}
  /\ saves' = saves \cup {j}
  /\ phase' = [phase EXCEPT ![j] = "idle"]
  /\ UNCHANGED <<up, disk, deletes, iteration, passed, tasks, executing, restarts>>

\* cron.unregister; of an id without job and row it changes nothing.
Unregister(i) ==
  /\ up /\ \E j \in SameId(i) : j \in memory \/ disk[j] # NoRow
  /\ memory' = memory \ SameId(i)
  /\ deletes' = deletes \cup {i}
  /\ UNCHANGED <<up, job, disk, saves, phase, iteration, issued, passed, tasks,
                 executing, restarts>>

\* Mistake: the arming is not saved.
TriggerUnsaved(j) ==
  /\ up /\ j \in memory /\ job[j].enabled
  /\ Mode[j] = "event" /\ issued[j] < MaxEvents
  /\ job' = [job EXCEPT ![j].next = issued[j] + 1]
  /\ issued' = [issued EXCEPT ![j] = @ + 1]
  /\ UNCHANGED <<up, memory, disk, saves, deletes, phase, iteration, passed,
                 tasks, executing, restarts>>

\* cron.trigger: next_run is now, and the row is saved in the same step.
Trigger(j) ==
  /\ up /\ j \in memory /\ job[j].enabled
  /\ Mode[j] = "event" /\ issued[j] < MaxEvents
  /\ job' = [job EXCEPT ![j].next = issued[j] + 1]
  /\ issued' = [issued EXCEPT ![j] = @ + 1]
  /\ SaveJob(j, job'[j])
  /\ UNCHANGED <<up, memory, saves, deletes, phase, iteration, passed, tasks,
                 executing, restarts>>

\* A thread runs the _save_job of a registration: it writes the object as it
\* is by then, registered or not.
FlushSave(j) ==
  /\ j \in saves
  /\ SaveJob(j, job[j])
  /\ saves' = saves \ {j}
  /\ UNCHANGED <<up, memory, job, deletes, phase, iteration, issued, passed,
                 tasks, executing, restarts>>

\* A thread runs the _delete_job of an unregistration.
FlushDelete(i) ==
  /\ i \in deletes
  /\ DeleteJob(i)
  /\ deletes' = deletes \ {i}
  /\ UNCHANGED <<up, memory, job, saves, phase, iteration, issued, passed, tasks,
                 executing, restarts>>

(***************************************************************************)
(* The loop.                                                               *)
(***************************************************************************)

\* The clock reaches next_run.
PassTime(j) ==
  /\ j \in memory /\ passed[j] < job[j].next
  /\ passed' = [passed EXCEPT ![j] = job[j].next]
  /\ UNCHANGED <<up, memory, job, disk, saves, deletes, phase, iteration, issued,
                 tasks, executing, restarts>>

Due(j) ==
  /\ j \in memory /\ job[j].enabled
  /\ job[j].next > 0 /\ passed[j] >= job[j].next

AtRest(j) == phase[j] \in {"new", "idle"}

\* One round of _run_loop: gather the due jobs, the previous ones being done.
Tick ==
  /\ up /\ \A j \in Job : AtRest(j)
  /\ \E j \in Job : Due(j)
  /\ phase' = [j \in Job |-> IF Due(j) THEN "due" ELSE phase[j]]
  /\ UNCHANGED <<up, memory, job, disk, saves, deletes, iteration, issued, passed,
                 tasks, executing, restarts>>

(***************************************************************************)
(* _run_single_job and the handler it awaits under FUSION_CRON_JOB_TIMEOUT.*)
(***************************************************************************)

\* idem_key
Key(j) == <<j, job[j].next>>

Step(j, from, to) == phase[j] = from /\ phase' = [phase EXCEPT ![j] = to]

\* The handler returned: retry_count = 0.
Succeeded(j) == job' = [job EXCEPT ![j].retries = 0]

\* _handle_retry: no run is repeated, but the job stays enabled.
HandleRetry(j) ==
  job' = IF job[j].retries < MaxRetries[j] THEN [job EXCEPT ![j].retries = @ + 1]
         ELSE [job EXCEPT ![j].enabled = FALSE]

\* The key is in the task store: status "deduped".
Dedup(j) ==
  /\ Step(j, "due", "recording")
  /\ Key(j) \in tasks
  /\ Succeeded(j)
  /\ UNCHANGED <<up, memory, disk, saves, deletes, iteration, issued, passed,
                 tasks, executing, restarts>>

\* A one-shot or cron job: the task is left to the task executor.
Enqueue(j) ==
  /\ Mode[j] \in {"once", "cron"}
  /\ Step(j, "due", "announcing")
  /\ Key(j) \notin tasks
  /\ tasks' = tasks \cup {Key(j)}
  /\ UNCHANGED <<up, memory, job, disk, saves, deletes, iteration, issued, passed,
                 executing, restarts>>

\* A loop or event job: the handler starts the execution and awaits it.
Iterate(j) ==
  /\ Mode[j] \in {"loop", "event"}
  /\ Step(j, "due", "waiting")
  /\ Key(j) \notin tasks
  /\ tasks' = tasks \cup {Key(j)}
  /\ executing' = executing \cup {Key(j)}
  /\ iteration' = [iteration EXCEPT ![j] = job[j].next]
  /\ UNCHANGED <<up, memory, job, disk, saves, deletes, issued, passed, restarts>>

\* graph.execute_async raises: the task is marked failed, the handler returns.
IterateFails(j) ==
  /\ Mode[j] \in {"loop", "event"}
  /\ Step(j, "due", "recording")
  /\ Key(j) \notin tasks
  /\ tasks' = tasks \cup {Key(j)}
  /\ Succeeded(j)
  /\ UNCHANGED <<up, memory, disk, saves, deletes, iteration, issued, passed,
                 executing, restarts>>

\* The task store raises before there is a task.
FireFails(j) ==
  /\ Step(j, "due", "recording")
  /\ HandleRetry(j)
  /\ UNCHANGED <<up, memory, disk, saves, deletes, iteration, issued, passed,
                 tasks, executing, restarts>>

ExecutionEnds(k) ==
  /\ k \in executing
  /\ executing' = executing \ {k}
  /\ UNCHANGED <<up, memory, job, disk, saves, deletes, phase, iteration, issued,
                 passed, tasks, restarts>>

\* The awaited execution is over.
Awaited(j) ==
  /\ Step(j, "waiting", "announcing")
  /\ <<j, iteration[j]>> \notin executing
  /\ UNCHANGED <<up, memory, job, disk, saves, deletes, iteration, issued, passed,
                 tasks, executing, restarts>>

\* Mistake: the caught CancelledError leads back to the await.
TimeOutIgnored(j) ==
  /\ Step(j, "waiting", "waiting")
  /\ <<j, iteration[j]>> \in executing
  /\ UNCHANGED <<up, memory, job, disk, saves, deletes, iteration, issued, passed,
                 tasks, executing, restarts>>

\* wait_for cancels the handler at its await of shield(bg_task); the handler
\* catches the CancelledError and goes on, the execution goes on as well.
TimeOut(j) ==
  /\ Step(j, "waiting", "late")
  /\ <<j, iteration[j]>> \in executing
  /\ UNCHANGED <<up, memory, job, disk, saves, deletes, iteration, issued, passed,
                 tasks, executing, restarts>>

\* The broadcast is sent and the handler returns.
Announced(j) ==
  /\ \E from \in {"announcing", "late"} : Step(j, from, "recording")
  /\ Succeeded(j)
  /\ UNCHANGED <<up, memory, disk, saves, deletes, iteration, issued, passed,
                 tasks, executing, restarts>>

\* The broadcast waits for a client that does not read: TimeoutError.
AnnounceTimesOut(j) ==
  /\ Step(j, "announcing", "recording")
  /\ HandleRetry(j)
  /\ iteration' = [iteration EXCEPT ![j] = 0]
  /\ UNCHANGED <<up, memory, disk, saves, deletes, issued, passed, tasks,
                 executing, restarts>>

\* The execution record is saved; a one-shot job leaves _jobs, whoever holds
\* its id by now.
Retire(j) ==
  /\ Mode[j] = "once"
  /\ Step(j, "recording", "deleting")
  /\ memory' = memory \ SameId(IdOf[j])
  /\ UNCHANGED <<up, job, disk, saves, deletes, iteration, issued, passed, tasks,
                 executing, restarts>>

\* The execution record is saved and _post_iteration_accounting counts.
Account(j, object, times) ==
  /\ Mode[j] # "once"
  /\ Step(j, "recording", "saving")
  /\ job' = [job EXCEPT ![j] = object]
  /\ issued' = [issued EXCEPT ![j] = times]
  /\ iteration' = [iteration EXCEPT ![j] = 0]
  /\ UNCHANGED <<up, memory, disk, saves, deletes, passed, tasks, executing, restarts>>

Counted(j) == [job[j] EXCEPT !.count = @ + 1]

CapReached(j) == MaxIterations[j] > 0 /\ job[j].count + 1 >= MaxIterations[j]

\* Only an iteration that reported usage can exceed the token budget.
SpendsTokens(j) == j \in Budgeted /\ iteration[j] > 0

\* max_iterations or budget_exceeded.
EndLoop(j) ==
  /\ CapReached(j) \/ SpendsTokens(j)
  /\ Account(j, [Counted(j) EXCEPT !.enabled = FALSE], issued[j])

\* An event job is dormant until the next trigger.
GoDormant(j) ==
  /\ ~CapReached(j) /\ Mode[j] = "event"
  /\ Account(j, [Counted(j) EXCEPT !.next = 0], issued[j])

\* _next_run_for
Reschedule(j) ==
  /\ ~CapReached(j) /\ Mode[j] # "event"
  /\ Account(j, [Counted(j) EXCEPT !.next = issued[j] + 1], issued[j] + 1)

\* The row is saved, even of a job unregistered meanwhile.
Persist(j) ==
  /\ Step(j, "saving", "idle")
  /\ SaveJob(j, job[j])
  /\ UNCHANGED <<up, memory, job, saves, deletes, iteration, issued, passed, tasks,
                 executing, restarts>>

Forget(j) ==
  /\ Step(j, "deleting", "idle")
  /\ DeleteJob(IdOf[j])
  /\ UNCHANGED <<up, memory, job, saves, deletes, iteration, issued, passed, tasks,
                 executing, restarts>>

(***************************************************************************)
(* The daemon's life.                                                      *)
(***************************************************************************)

\* Coroutines and threads of the dead process are gone.
Die ==
  /\ up /\ restarts < MaxRestarts
  /\ up' = FALSE /\ restarts' = restarts + 1
  /\ memory' = {} /\ saves' = {} /\ deletes' = {} /\ executing' = {}
  /\ phase' = [j \in Job |-> IF phase[j] = "new" THEN "new" ELSE "idle"]
  /\ iteration' = [j \in Job |-> 0]
  /\ UNCHANGED <<job, issued, passed, tasks>>

Crash == Die /\ UNCHANGED disk

\* stop(): the enabled recurring jobs are saved before the connection closes.
Stop ==
  /\ Die
  /\ LET kept == {j \in memory : job[j].enabled /\ Mode[j] # "once"} IN
     disk' = [k \in Job |-> IF k \in kept THEN job[k]
                            ELSE IF \E j \in kept : IdOf[j] = IdOf[k] THEN NoRow
                            ELSE disk[k]]

\* Mistake: loading a job schedules it anew.
BootRescheduling ==
  /\ ~up /\ up' = TRUE
  /\ memory' = {j \in Job : disk[j] # NoRow}
  /\ job' = [j \in Job |-> IF disk[j] # NoRow THEN [disk[j] EXCEPT !.next = issued[j] + 1]
                           ELSE job[j]]
  /\ issued' = [j \in Job |-> IF disk[j] # NoRow THEN issued[j] + 1 ELSE issued[j]]
  /\ UNCHANGED <<disk, saves, deletes, phase, iteration, passed, tasks, executing, restarts>>

\* _load_jobs: next_run is what the row says.
Boot ==
  /\ ~up /\ up' = TRUE
  /\ memory' = {j \in Job : disk[j] # NoRow}
  /\ job' = [j \in Job |-> IF disk[j] # NoRow THEN disk[j] ELSE job[j]]
  /\ UNCHANGED <<disk, saves, deletes, phase, iteration, issued, passed, tasks,
                 executing, restarts>>

RunStep(j) ==
  \/ Dedup(j) \/ Enqueue(j) \/ Iterate(j) \/ IterateFails(j) \/ FireFails(j)
  \/ Awaited(j) \/ TimeOut(j) \/ Announced(j) \/ AnnounceTimesOut(j)
  \/ Retire(j) \/ EndLoop(j) \/ GoDormant(j) \/ Reschedule(j) \/ Persist(j) \/ Forget(j)

Next ==
  \/ \E j \in Job : Register(j) \/ Trigger(j) \/ FlushSave(j) \/ PassTime(j) \/ RunStep(j)
  \/ \E i \in Id : Unregister(i) \/ FlushDelete(i)
  \/ Tick
  \/ \E k \in executing : ExecutionEnds(k)
  \/ Crash \/ Stop \/ Boot

Spec == Init /\ [][Next]_vars

\* Time passes, the loop ticks, coroutines and threads go on, connected clients
\* read or are dropped, and a dead daemon is started again.  Nothing makes an
\* execution end.
FairSpec ==
  /\ Spec
  /\ WF_vars(Tick) /\ WF_vars(Boot)
  /\ \A j \in Job : WF_vars(PassTime(j)) /\ WF_vars(RunStep(j)) /\ WF_vars(FlushSave(j))
  /\ \A i \in Id : WF_vars(FlushDelete(i))

(***************************************************************************)
(* Correctness.                                                            *)
(***************************************************************************)

\* Registrations with different ids, columns in range: _handle_retry never
\* counts past max_retries.
TypeOK ==
  /\ up \in BOOLEAN
  /\ memory \subseteq Job /\ \A j, k \in memory : IdOf[j] = IdOf[k] => j = k
  /\ DOMAIN job = Job /\ DOMAIN disk = Job
  /\ \A j \in Job : job[j] \in Columns(j) /\ (disk[j] # NoRow => disk[j] \in Columns(j))
  /\ saves \subseteq Job /\ deletes \subseteq Id
  /\ phase \in [Job -> Phase]
  /\ iteration \in [Job -> Nat] /\ issued \in [Job -> Nat] /\ passed \in [Job -> Nat]
  /\ tasks \subseteq Job \X Nat /\ executing \subseteq tasks
  /\ restarts \in Nat

TasksOf(j) == {k \in tasks : k[1] = j}

\* How many tasks a registration may create at most; 0 for any number.
Cap(j) == IF Mode[j] = "once" THEN 1 ELSE MaxIterations[j]

\* However the daemon dies between the task, the accounting and the row, and
\* whoever unregisters or re-registers meanwhile, a one-shot job creates one
\* task and a capped job no more than max_iterations (_post_iteration_accounting
\* with the idempotency key of _cron_default_handler).  Event jobs are left
\* out: arming one during its run replaces the time that made its key.
TasksWithinCap ==
  \A j \in Job : Mode[j] # "event" /\ Cap(j) > 0 => Cardinality(TasksOf(j)) <= Cap(j)

OnlyOfItsId(j) == \A k \in Job : IdOf[k] = IdOf[j] => k = j

\* A registered job has a row that agrees with it on time and count, whenever
\* no write of it is on its way: a restart continues where the dead process
\* was (_save_job, trigger_event).  Claimed of ids registered once.
RegisteredIsOnDisk ==
  \A j \in memory :
    OnlyOfItsId(j) /\ j \notin saves /\ phase[j] # "saving" =>
      disk[j] # NoRow /\ disk[j].next = job[j].next /\ disk[j].count = job[j].count

\* Job j is given to a run, or the daemon that runs no longer has it enabled: a
\* client took it out, a cap, the budget or its failures ended it, or it died
\* before its first row was written.  A death alone serves nobody.
Served(j) == phase[j] = "due" \/ (up /\ ~(j \in memory /\ job[j].enabled))

\* A job that is due and not running is run, whatever hangs in the other jobs
\* of its round and whenever the daemon dies: the gather of _run_loop ends
\* because wait_for bounds each handler.  A job that becomes due while it runs is
\* left out: GoDormant wipes an event that arms it then.
DueJobRuns == \A j \in Job : Due(j) /\ AtRest(j) ~> Served(j)
=============================================================================
