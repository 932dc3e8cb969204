# Fusion Agent Studio in TLA+

Fusion Agent Studio is a daemon (`src/agent_runtime/daemon_server.py`) with one
asyncio event loop, a set of SQLite stores, and clients that talk JSON-RPC over
a socket or HTTP (`api_server.py`).  Clients put work on a task board; an
executor loop claims rows from it and starts executions (a graph run or a
sub-agent run); cron jobs, chains and webhooks put more work on the same board;
executions compete for resources through leases.  An execution runs an agent
graph node by node, with calls of models behind a gateway, tools behind
approvals, sub-graphs and sub-agents; workflows and background sessions are
further ways to start such work.  Everything runs in one thread,
so the atomic steps are the stretches between two `await`s, and almost every
mistake the code could make is an interleaving of such stretches or a death of
the process between two of them.  That is what these modules are about.

Source paths below are relative to `src/agent_runtime/` unless they start with
`src/`.

## 1. The system: inventory

| Component | State | Operations | Interacts with | Hard behaviour | What makes it correct |
|---|---|---|---|---|---|
| Task board store (`task_store.py`) | `tasks` rows: status, owner, attempt token, retries, dependencies, priority, evidence and lease links | submit, update_status, cancel, rerun, delete, reap, dequeue, requeue, reset_orphans, set_evidence, set_review_state | every other component writes it | one writer at a time, but many coroutines with an old picture of a row | a claim is exclusive; a retry budget is kept; dependencies are respected |
| Task executor (`task_executor.py`) | the loop, a semaphore of permits, workers in `_run_one` | start, stop, poll and claim, dispatch, wait, announce, retry | store, `subagent.run_task`, `graph.execute_async` | claims held across awaits; waiting by polling; a status read before an await decides after it | no row runs without somebody in charge; no permit is lost; every row comes to rest |
| RPCs and `/v1/runs` (`dispatchers/infra.py`, `dispatchers/subagent.py`, `api_server.py`) | handlers between two awaits | task.*, POST /v1/runs | store, executions | repeated POSTs, cancel and delete of rows in progress | one execution per idempotency key |
| Daemon executions and recovery (`daemon_server.py`) | background coroutines, evidence jsonl | graph.execute_async, graph.cancel, stop, start and its reconcile passes | store, executor | evidence before row; cancellation at any await; crash between any two steps; recovery racing the restarted loop | evidence and table agree in the end; finished work is not repeated |
| Resource leases (`resource_lease.py`, `persistence.py`) | registry of resources, lease rows, queue positions | apply, release, promote, expiry sweep, register, seed | task store (link), daemon start | promotions do not count slots again; positions with gaps; re-registration; deadlines | never more holders than slots; a queue is a queue; nobody waits for a free slot |
| Cron and webhook triggers (`triggers.py`, `trigger_input.py`) | `_jobs`, rows of `cron_jobs`, coroutines `_run_single_job` | register, unregister, trigger_event, tick, retry, caps, stop, load | board, executions | job unregistered or armed while it runs; rows written by threads; time-outs; death between firing and row | one task per firing and no more than the cap; a due job is run; rows agree with jobs; iterations never overlap |
| Agent graphs (`graph.py`, the split of a fan-out in `_runtime_nodes.py`) | nodes, edges, labels | validate, next node, merge node, branch and downstream subgraphs | graph runtime | shapes nobody drew: cycles, entries reached by other branches | each node in its place after a split, a result follows its own edge |
| Graph runtime (`runtime.py`, `_runtime_*.py`) | `AgentContext` of each execution, futures of the runtime, checkpoints | execute, resume, nodes, tool calls, approvals, human input, cancel | gateway, safety, store, sub-runtimes | four ways to execute a tool; two loops over one node; futures shared by executions; crash and resume | an approval before a gated tool; plan mode; a failed tool stops the cascade; a pause can be resumed; runs end |
| LLM gateway (`llm_gateway.py`) | breakers, model table, one semaphore | chat, stream, route, fallback chain, record result | all model calls | breaker shared by concurrent calls; cancellation while waiting and while calling | permits come back; counts and trip times agree |
| Sessions (`session_manager.py`, `session_store.py`) | background sessions and their tasks | fork, inject, kill, attach, list | runtime, gateway | status written after an await; inputs arriving during a turn | no input lost; ended means idle |
| Safety and confirmation (`safety.py`, `confirmation_policy.py`, `permission*.py`) | pending approvals | request, answer, time out | graph runtime, UI | answer racing the time-out; reaping | a denied action never runs |
| Workflow engine (`workflow_engine.py`) | executions in memory and rows, pause gates, a semaphore | execute, pause, resume, cancel, status | gateway, store | pause and cancel at any await; paused executions hold permits; partial failure of a pattern | what ended stays ended; rows agree with memory |
| Sub-agents (`subagent*.py`, `durable_roster.py`) | transcripts, roster, task manager, two attributes of the one runner | run, spawn, resume, wait, cancel | graph runtime, executor | state read from the shared runner after an await; cancel at any await | transcripts apart and with a final status |
| Task chains (`daemon_server.py`, `_run_chain_async`) | steps as board rows | insert steps, run in order, merge artifacts | board, executor | the executor can claim a step first | each step executed once, in order |
| Event tree, checkpoints, undo | trees and snapshots | append, branch, restore | runs | restore after a branch | restore gives the state that was saved |
| Rate limiter, token budget, watchdog | counters and windows | take, record, reset | executions | boundary values | the limit is the limit |

The remaining components (orchestrator and planner, plaza
and clusters, memory and knowledge, chat, sandboxes, keys and audit, bridges,
packages, telemetry, model server processes, command line) are listed with their
reasons in PROJECT.json.

## 2. Modules

    TaskStore  <--EXTENDS--  TaskExecutor  --INSTANCE-->  Claims
                                  ^  ^
                    MCTaskExecutor   TaskExecutorProofs
    ResourceLease  <--EXTENDS--  MCResourceLease, ResourceLeaseProofs
         |--INSTANCE--> Handover
    CronManager    <--EXTENDS--  MCCronManager, CronManagerProofs
    AgentGraph     <--EXTENDS--  MCAgentGraph  <--EXTENDS--  AgentGraphProofs
         ^--EXTENDS--  GraphRuntime  <--EXTENDS--  MCGraphRuntime, GraphRuntimeProofs
    LLMGateway     <--EXTENDS--  SessionManager  <--EXTENDS--  MCSessionManager, SessionManagerProofs
                                      |--INSTANCE--> Semaphore
    WorkflowEngine <--EXTENDS--  MCWorkflowEngine, WorkflowEngineProofs
    SubAgents      <--EXTENDS--  MCSubAgents, SubAgentsProofs

**TaskStore** is the table: one variable per column that a decision reads, one
operator per SQL statement or store method.  `status[t]` also tells whether the
row exists (`absent`, `deleted`).  `owner` stands for `owner_agent` and
`attempt_token`, which every statement writes together.  `born` is the rank of
`created_at`.  `Head(t)` is the row the `ORDER BY priority DESC, created_at ASC
LIMIT 1` of `dequeue` selects; `DepsMet` is checked after the claim and an unmet
head is put back in the same call, so a blocked head is a call without effect.
The cache of Task objects in front of the rows is not a second copy here: every
writer of the daemon updates or evicts the object in the call that writes the
row.

**TaskExecutor** is everything that moves those rows.  The correspondence:

| Model | Code |
|---|---|
| `loop`, `Claim`, `Spawn` | `_loop`: the row between `dequeue` and the permit, `ensure_future(_run_one)` |
| `job[w]`, `step[w]` | worker with permit `w` in `_run_one` and the await it is at |
| `CheckTask` | `store.get` and the status check, up to the `task.updated` broadcast |
| `Dispatch`, `DispatchFails` | `_execute_agent` / `_execute_graph` and the handlers they call; the row is not read again |
| `AwaitTerminal`, `AwaitCap`, `Finalize` | `_await_terminal` (poll, 4 h cap, `_stopping`), the announcement, then the retry decision and the release of the permit |
| `runTask`, `runStage`, `AgentRunEnds`, `GraphRunEnds`, `GraphWriteback` | `_run_task_bg`; `_run_graph_async`: terminal evidence, broadcast, row |
| `GraphCancel`, `CaughtCancel`, `UncaughtCancel` | `graph.cancel`: CancelledError inside the `try` body is caught, inside an `except` clause it ends the coroutine |
| `Submit`, `ApiSubmit`, `ApiResubmit`, `ApiDispatch`, `ApiDispatchFails`, `CancelTask`, `RerunTask`, `DeleteTask`, `SetTaskStatus`, `ReapExpired` | the RPCs; a POST to /v1/runs is two steps, insert and dispatch |
| `power` = up, stopping, closing, down, booting | serving; `stop()` cancelled the executions; `TaskExecutor.stop()` cancelled the loop; dead; `start()` between the executor's start and the reconcile |
| `StopDaemon`, `StopExecutor`, `Die` | `stop()`, and a crash in any state |
| `Boot`, `Reconcile` | `TaskExecutor.start` with `reset_orphans`; `_reconcile_task_states`, some awaits later |

**Claims** is the abstract specification: keepers take tasks nobody keeps, pass
them to one free keeper, drop them, and lose them in a crash.  The loop and the
workers are its keepers (`Keeps`); `ImplementsClaims` is the refinement.

**ResourceLease** is the lease manager.  No call of it awaits, so a call is a
step.  Time is one event per lease: `PassDeadline(l)` is the moment its
`expires_at` passes.  `Move` is what releases and sweeps share: leases leave and
successors, chosen by `FirstOf` as `_promote_queued` chooses them (own team
only, no look at the slots), become granted.  A sweep handles expired leases
one after the other; `Successors` is the result of the whole loop.  The state
lives in SQLite, so `Restart` only seeds the registry again and makes the start-up
sweep due.

**Handover** is what the leases promise, without positions, deadlines or statuses:
a newcomer gets in while its place has room and else stands behind its line (a
team at a resource); when holders leave, in any number and at all places at once,
as many of their own line get in, or all when they are fewer, and nobody whose
predecessor stays behind.  `Holding`, `Waiting` and `Before` read the lines off the rows:
granted leases, queued leases, and the order of their positions.  `ImplementsHandover`
is the refinement; releases and the sweep are `Leave`, a re-registration or a
restart is `Resize`, a deadline that passes is a stutter.

**CronManager** is the schedule and the daemon's handler for its jobs.  Of the
board it needs the idempotency keys only (`tasks`), of an execution that it is
under way (`executing`).

| Model | Code |
|---|---|
| a member of `Job` | one registration: the CronJob object and its copies after restarts; several may have one id (`IdOf`) |
| `memory`, `job`, `disk` | `_jobs`; the deciding fields of the object; the row, kept under the registration that wrote it |
| `next`, `issued`, `passed` | next_run as a rank among the times of its registration, how many were computed, which the clock has reached |
| `saves`, `deletes`, `FlushSave`, `FlushDelete` | `to_thread(_save_job)` and `to_thread(_delete_job)` of the RPCs: the thread reads the object when it runs |
| `Register`, `Unregister`, `Trigger` | `aregister` and `aregister_once`, `aunregister`, `trigger_event` |
| `Tick` | a round of `_run_loop`, which gathers what is due and waits for all of it |
| `phase[j]` | where the coroutine stands: `due` (the handler is about to run), `waiting` at the shielded execution, `late` (its CancelledError was caught), `announcing` at the broadcast, `recording`, `saving`, `deleting` |
| `Dedup`, `Enqueue`, `Iterate`, `IterateFails`, `FireFails` | the ways through `_cron_default_handler` up to its first await |
| `Awaited`, `TimeOut`, `Announced`, `AnnounceTimesOut` | the end of the await; `FUSION_CRON_JOB_TIMEOUT` at the shield and at the broadcast |
| `Retire`, `EndLoop`, `GoDormant`, `Reschedule` | the branches after `_save_execution`, with `_post_iteration_accounting` |
| `Persist`, `Forget` | the last write of a run, whoever unregistered the job meanwhile |
| `Crash`, `Stop`, `Boot` | death with and without `stop()`; `_load_jobs` |

From the round that picked it to the end of its run the code works on the object it
started with; that is why a registration, not an id, is the unit here.

**AgentGraph** is the pure part of the graph runtime: `get_next_node` with its
order of preferences among labels, reachability, `_find_merge_node` and
`_build_branch_subgraph`.  The edges out of a node are their indices, whose order is
the order of the list; `InOrder` makes a list of them again.  A search of the code is
`BfsOrder`, a recursive function over its steps.  **MCAgentGraph** chooses a graph, lets a node fan out or a
condition decide, and compares with a reference definition by distances.

**GraphRuntime** is an execution, one per `AgentContext`.  A run is named by a
sequence, so that `<<r>>` is an execution of the daemon's runtime and
`Append(e, i)` a sub-runtime `e` waits for (`i` the branch of a parallel node, or
the item of an iteration counted from one); this is the tree the code builds with
`_execute_sub_graph`, iteration and parallel nodes.

| Model | Code |
|---|---|
| `run[e].node`, `iter`, `chain`, `loop`, `last`, `plan`, `vals` | `ctx.current_node_id`, `iteration_count`, `tool_call_chain_count`, the counter of the agent loop, the role of the last message, `plan_mode`, the variables a node decides on |
| `run[e].pc` | the await the run stands at: `node` (dispatch), `reply` (model call), `tools`, `ask_model`, `ask_call`, `ask_tool` (approval), `human`, `out` (a planner, a verifier, an external agent), `plan` (approval of a plan), `wait` (sub-runtimes), `done`; `again` and `retry` are the next call of the model and the next attempt of a handler |
| `run[e].home`, `attempt`, `blame`, `err` | the error handler that retries the current node, its counter, the node whose id it finds in the messages, whether `ctx.error` is set |
| `run[e].ask` | the entry of the safety gateway (`status`) and the future of the runtime (`fut`): two objects, since an answer finds the entry after the wait is over |
| `Visit`, `Pass`, `EndNode`, `LeaveLoop` | the main loop and the nodes that only choose the next one |
| `ToolNode`, `ToolNodeGranted`, `RunsToolNode` | `_execute_tool_node`, admission before and after an approval |
| `RanAt`, `Captured`, `Asserted`, the last branch of `RunsToolNode` | `post_action_capture`: `_post_action_assert` executes the tool registered as `screenshot` after the node's own tool, without an admission, and may emit an ERROR when an assertion fails |
| `LlmNode`, `LlmReply`, `EndHop`, `After` | `_execute_llm_node` and the agent loop of `_execute_graph_inner` |
| `RagNode` | `_execute_rag_node`: an LLM node, `bare` when documents were found (the code then builds a node without the options of the original) |
| `HandlerNode`, `Blames`, `Fails`, `AttemptEnds`, `Begins` | `_execute_error_handler_node`, which executes a tool, LLM or rag node again |
| `CallsAtOnce`, `CallTool`, `CallGranted`, `CallsDone`, `RepairReply` | the calls of a reply: gathered, in sequence, after an approval, the stop, the self-repair |
| `Asks`, `Answer`, `AskTimeout`, `AskRefused`, `AskCancelled`, `Reaped` | `_await_safety_approval`, `approve_action`, `reject_action`, `_reap_exec_futures` |
| `HumanNode`, `resolve_human_input`, `HumanAnswered`, `HumanTimeout`, `Saved`, `Restored`, `Resume` | human input, `_save_checkpoint`, `resume_from_checkpoint` |
| `CallOut`, `PlanReturns`, `PlanDecided`, `PlanTimeout`, `VerifyReturns`, `AcpReturns`, `approve_plan_in_graph`, `reject_plan_in_graph` | planner nodes with the approval of their plan, verify nodes, acp nodes |
| `SubGraphRun`, `SubFlowNode`, `SubCall`, `ParallelNode`, `SubRunsDone` | sub-runtimes and how they end |
| `hops`, `did`, `bad` | history: model calls outside self-repairs and retries; tools that ran, each execution switching its tool's membership, so that a second one shows too (`Noted`); a tool failed outside a retry |

What an admission says (`Verdicts`) is a set per tool, so that a permission that
changes between two admissions is covered.

**LLMGateway** has no next-state relation of its own: a call of a model is a step
of somebody.  Its variables are the breakers, the permits and the call each
coroutine has under way; `Ask`, `Acquire`, `Answers`, `Fails` and `Cancelled` are
the stretches of `chat` and `chat_stream` between its awaits.  A breaker's count
stops at the threshold, since the code only asks whether it is reached.
**SessionManager** composes it with background sessions, whose turns call
`chat`, and with other runs that chat and stream.  `task[s]` is the place of
`_run_background` (`ready`, `turn`, `stopping`, `done`).
**Semaphore** is what the permits promise: at most `Limit` holders, let in from the head
of the queue; a holder leaves by itself (and may queue up again, as a fallback
does), a waiter may give up from any place.  Its queue is `queue`, its holders
are the coroutines whose call has a permit (`Calling`), and `ImplementsSemaphore` is the
refinement: the breakers, fallbacks, sessions and their inputs are hidden.

**WorkflowEngine** has one coroutine per `workflow.execute` call: `task[r]` is
its place (`queued` at the semaphore, `phase`, `blocked` at the pause gate,
`woken`), `run` and `row` the object and its row (`RowOf` is `to_dict`: the status,
the phase number and the results).  Each `exec_*` action is one await of that pattern.
`_persist_run` logs a failed save and returns, so a save (`Saves`) of a run in
`Faulty` may leave the row as it was; `unsaved` remembers whose last save did.  The
phase number changes without a save (`Entering`): while a phase is under way the row has
the number of the one before.

**SubAgents** is the one runner of the daemon.  A run keeps its own context
(`act[c].msgs`), but reports from `last`, the attributes `last_ctx` and
`last_seeded_count`.  Messages are named by the call that produced them, which is
what a transcript's purity is about.

The **MC** modules give the constants small values.

Operators whose comment starts with *Mistake* are wrong variants of the
operators they stand next to.  Each shows that some property notices a plausible
slip at that place; nothing else uses them.

## 3. Runs

| Run | Instance | Shows |
|---|---|---|
| `executor_safety` | 3 rows (a graph, an agent depending on it, a row without target), 2 permits, 3 executions, one retry each, cancels, deletes, reaping, graph.cancel; no crash; waits do not expire | `RunningIsHeld`, `OneRunPerTask`, `DepsStayMet` |
| `executor_crash` | a board graph row and a `/v1/runs` agent row, 2 permits, 2 executions, one death or shutdown at any step, one rerun, clients that write "running", waits that expire | `ClaimExclusive`, `RetryBudget`, and the refinement `ImplementsClaims` |
| `executor_liveness` | 2 board rows, one of them with a retry, 1 permit, one death | `EveryTaskSettles`, `PermitsReturn`, `FailedIsRetried` |
| `lease_safety` | 5 leases, an exclusive browser two teams want, a GPU re-registered with 1 and 2 slots, an advisory disk | `NoOvergrant`, `PositionsDistinct`, `NobodyWaitsForFree`, `GrantsWithinSlots`, `FirstComeFirstServed` |
| `cron_safety` | a loop job (2 iterations, 1 retry) and a cron job (1 iteration, no retry) registered under one id, 2 deaths | `TasksWithinCap` |
| `cron_liveness` | a one-shot job and an event job with a token budget and 2 event times, 1 retry each, 1 death | `RegisteredIsOnDisk`, `DueJobRuns` |
| `graph_algorithms` | every valid graph of 4 nodes and at most 5 unlabelled edges, every labelling of a fork to 3 nodes | `MergeIsNearest`, `BranchesAreValid`, `NoNodeLost`, `ResultNeverFlips` |
| `runtime_safety` | one execution of any of eight graphs (agent, batch, human, fork, each, review, plan, survey) and a second one of a one-tool graph in the same session, 4 iterations, 1 death | `HopsBounded`, `FuturesHaveWaiters`, `PauseIsSaved`, `OnlyGrantedToolsRun`, `PlanModeHolds`, `StopsCascade`, `RunsEnd` |
| `sessions_safety` | a background session with up to 4 inputs, another run, 2 models, threshold 2, 1 permit | `PermitsKept`, `TripsMatch`, `InputsAreRun`, `EndedIsIdle`, `SessionsEnd` |
| `workflows_safety` | 2 workflows of 3 phases that use all 6 patterns, 1 permit, 1 death, saves of one of them may fail | `CompletedIsWhole`, `RowAgrees`, `EndedStaysEnded`, `ExecutionsEnd` |
| `subagents_safety` | 2 calls, each of them run, spawn or a resume, 1 waiter, 1 death | `TranscriptsAlone`, `RosterIsLive`, `TranscriptsSettle` |
| `subagent_transcripts` (violation) | 3 calls | `TranscriptsIndependent`: a report takes the messages another run left in the shared runner |

Deadlock checking is off everywhere: a board whose rows are all settled, or a
daemon with nobody calling it, really does stop.  `TypeOK`, `HeldIsOwned` and
`LinkIsGranted` are invariants of their modules that no run repeats: they are
proved (section 4).

**Bounds.**  `MaxCrashes` deaths, `MaxReruns` client reruns, as many executions
as `Exec` has members, as many submissions as `Task`.  One death is enough to
meet each recovery pass with each row in each state; a second would start from a
state like those of the first.  Two permits and two or three executions are what
a race between two workers, or between a worker and an earlier execution, takes.
Three leases on a two-slot resource make a queue, a fourth and a fifth make
queues with gaps.  In CronManager
`MaxEvents` bounds the times an event job is armed (two: one for a run, one
during it) and `MaxRestarts` the deaths (two in `cron_safety`: the second meets
a row the first left behind); the times of the other jobs are bounded by their
caps, and a job without a cap is left to the proofs.
`MaxIter` = 4 in `runtime_safety` is exceeded by the agent loop, by the fork that
repeats, by the review graph (which asks for one visit more than that, or three
when it goes back to its handler) and by the human graph
with its second round (a resume starts again at its start node with the count it
had); the fork that does not repeat, the batch and the fan-out's branches end below it;
`MaxChain` = 1 is exceeded by the second reply whose calls go to a sub-flow; two
attempts of a handler tell the last one from the others; `MaxDepth` = 2 lets a sub-flow in a sub-flow run and
refuses the next; the one-tool execution shares the session, so that one run's
end reaps the other's approval.  A graph of four nodes is the smallest with two
branches, a merge and a node that only one branch reaches before it.  In
`sessions_safety` a threshold of 2 tells one failure from a trip, one permit makes
the two callers queue.  In `workflows_safety` the
second execution queues behind the first, which may be paused with the permit; the two
share nothing else, so one permit takes nothing from what each of them does.  One
run whose saves may fail (`Faulty`) is beside one whose saves do not: no step looks
at the outcome of a save, so failures of the other would repeat the picture.  In `runtime_safety` captures follow the tool of the survey graph, with an assertion
that may fail, and the `send` tool, which is asked for.  Two sub-agent calls overlap, follow each
other, or resume each other.  When `Exec` runs out, `Dispatch` is disabled and
`DispatchFails` goes on, so liveness runs do not stop for want of executions.

**Fairness.**  `FairSpec` of TaskExecutor: the event loop resumes each ready
coroutine (`Claim`, `Spawn`, each worker step, `Boot`, `Reconcile`); an execution
ends, because model calls and tools have timeouts; a process that began to close
ends, and a dead daemon is started again.  Clients are under no fairness.
`FairSpec` of ResourceLease: only the start-up sweep; nothing makes a client
release or a daemon restart.
`FairSpec` of CronManager: time passes, the loop and its coroutines and threads
go on, a broadcast ends (a client that does not read is dropped), a dead daemon
is started again.  Nothing makes an execution end: `DueJobRuns` rests on the
job time-out alone.  With `FUSION_CRON_JOB_TIMEOUT` = 0, which means no time-out,
it does not hold.
`FairSpec` of GraphRuntime: each execution goes on as long as a step of its tree
is possible; model calls and approvals have timeouts (`_llm_call_timeout`,
`_safety_timeout`, `timeout_seconds`) and tools return.  No client answers
anything by fairness.  `FairSpec` of SessionManager: a call of a model returns (HTTP client
timeouts), the head of the queue gets a free permit, a ready turn is resumed.
`FairSpec` of WorkflowEngine: a coroutine that can go on does; nobody resumes a
pause.  `FairSpec` of SubAgents: graphs end, which is what `RunsEnd` shows of
GraphRuntime, hooks return, and a waiter whose task has ended is resumed.

**What is true only with a premise.**
- `RunningIsHeld` needs waits that do not outlive `_TERMINAL_WAIT_CAP` and
  clients that do not write "running" themselves.
- `OneRunPerTask` and `DepsStayMet` are claimed without a crash.  With one, TLC
  finds both violated: the reconcile pass of `start()` runs while the restarted
  loop already claims rows, and judges a fresh claim by the evidence of the
  execution before it.
- `EveryTaskSettles` is about clients that do not call `graph.cancel`: a cancel
  that hits the broadcast of an `except` clause ends the execution without a
  writeback, and the row stays running until the 4 h cap.  It also assumes no
  rerun, no dependency and no `/v1/runs` rows, which the violation runs and the
  hazards cover.
- `NobodyWaitsForFree` is about resources one team uses.  `_promote_queued`
  promotes within the team of the lease that left; with two teams a slot can stand free
  beside a queue.
- `DueJobRuns` is about a job that is due while none of its runs is under way
  (`AtRest`).  An event that arms the job during its run is wiped when the run
  ends.
- `OnlyGrantedToolsRun` and `PlanModeHolds` name one exception each, the same
  one: the tool `screenshot` after a node with `post_action_capture`.
- `RowAgrees` is about runs whose last save did not fail, and allows the phase
  number of the row to lag by one while a phase is under way.
- `TasksWithinCap` leaves event jobs out: an event that arrives during a run
  replaces the time in `next_run`, and after a crash the firing is no longer
  recognised by its key.
- `RegisteredIsOnDisk` is about ids registered once.  When an id is registered
  again while its earlier job runs, the last write of that run overwrites the
  row of the new job, or deletes it.
- `HopsBounded` counts model calls outside the self-repair, whose attempts have a
  bound of their own (`max_retries`, at most 5).
- `RunsEnd` is about an execution nobody makes wait without a timeout: every wait of the
  modelled nodes has one.
- `EndedIsIdle` says nothing about which terminal status a session keeps:
  a kill overwrites completed.
- `ExecutionsEnd` excepts executions behind a paused one: a paused execution
  keeps its permit.
- `RosterIsLive` excepts agents whose run was cancelled or died with the daemon.
- `TranscriptsAlone` is `TranscriptsIndependent` without overlapping runs and
  without a run that reports before it has a context: the violation run shows
  what happens otherwise.
- `NoOvergrant` and `NobodyWaitsForFree` are about resources nobody re-registers
  with other slots; `GrantsWithinSlots` is what remains for the others.

**Known disagreements.**  The violation run `subagent_transcripts` is the finding of
PROJECT.json.  The others met while modelling; the behaviour is in the models,
and no passing run states what it contradicts:

- An event accepted while its job runs is never answered: `trigger_event` writes the
  time of the next run, saves the row and answers true; the end of the run under
  way sets that time to 0 (`triggers.py:960-962`), although `triggers.py:712` and
  docs/guides/06-triggers-cron.md:263 of the repository speak of one run per event.
- After a tool node with `post_action_capture` the tool registered as `screenshot` is
  executed (`_runtime_nodes.py:1829`) with no admission, approval or look at the plan
  mode.  `_runtime_nodes.py:1600` says of tool nodes that there is "no side door around
  pipeline stage 3", and `runtime.py:177` and README.md:287 of the repository promise
  a read-only plan mode.  No built-in tool has that name (`ScreenCaptureTool` is
  `screen_capture`), so it takes one that a client registers, as the tests do; without
  it the capture is a warning in the log.
- A pending row need not be claimed: a head with unmet dependencies blocks the
  queue (`task_store.py:926`), and `rerun` of a claimed row keeps `owner_agent`
  (`task_store.py:758`).
- After a crash between evidence and row a finished graph is executed again:
  `reset_orphans` comes before the evidence (`daemon_server.py:833`).
- A repeated POST /v1/runs with its idempotency key starts a second execution:
  the `deduped` flag is read where `task.submit` does not put it
  (`api_server.py:1245`).
- A lease past its deadline is taken back at the next daemon start only
  (`daemon_server.py:893`).
- Cron iterations overlap after a job timeout (`daemon_server.py:3966-3983`).
- A resumed execution starts at the start node, so what ran before the
  checkpoint runs again (`_runtime_checkpoint.py:47` speaks of avoiding it), and the chain
  counter it restores is zeroed by the dispatch (`runtime.py:736`).
- `_reap_exec_futures` goes by session id: the end of one execution cancels the
  pending approval of another one in the session (`runtime.py:1371`).
- README.md:413 of the repository says `error_handler` nodes can retry failed `acp`
  nodes: the ERROR of an acp node ends the dispatch before a handler is reached
  (`runtime.py:1189`), and a handler only finds nodes that left a tool message
  (`_runtime_nodes.py:2269`).
- An error handler retries its node whether it failed or not, and does not clear
  `ctx.error` between attempts (`_runtime_nodes.py:2347`): after one failure all attempts
  are made although one succeeded.  While `ctx.error` is set, also by a bad verdict
  (`_runtime_nodes.py:3086`), a tool that was approved is passed over in silence
  (`_runtime_nodes.py:909`, `1645`).  `max_retries` 0 reads an unbound variable
  (`_runtime_nodes.py:2354`).
- `planner.approve_plan` answers for the planner's own plans only, though it
  resolves the future of an in-graph plan too (`dispatchers/planner.py:57`).
- `_record_tokens` tests an empty list for truth, so a workflow's budget is
  always spent by the estimate (`workflow_engine.py:586`, `713`).
- A save of a workflow run that fails is logged and nothing else
  (`workflow_engine.py:344`): pause, resume and cancel answer true with the row
  unwritten, although README.md:298 of the repository speaks of a dual write.
  `current_phase` is a field of the row but is set without a save
  (`workflow_engine.py:385`): after a death inside a phase the row shows the phase before.
- A pause during the last phase of a workflow is overwritten by its completion; a
  paused or running row after a restart has no coroutine, and `resume_run` still
  says yes; all branches of a `parallel_barrier` failing counts as success.
- A cancel during the last hook of a sub-agent overwrites its finished report
  with failed; a cancelled or crashed agent stays "running" on the roster.
- `TaskStore.cancel` says in a comment that only pending and running rows can be
  canceled, the code also cancels failed ones; the log of a failed graph
  dispatch in `/v1/runs` says the task is still queued, but its owner "api" keeps
  the executor away from it.

## 4. Proofs

Eight modules of proofs, one for each component below, are checked by TLAPS for
every value of the constants that satisfies the `ASSUME`s of the modules they
extend: any finite set of tasks, any permits and executions, any dependencies
and priorities, any number of crashes and reruns; any finite set of leases, any
resources, teams and requests; any registrations and ids, modes, caps and
retries; any models, fallbacks, thresholds, permits, sessions and streams; any
runs with any sequence of phases; any number of sub-agent calls and messages; any
saved graphs, admissions, bounds and number of executions of the graph runtime; and
graphs of any size, with any labels and results.

*TaskExecutor.*  Exclusive claims are not inductive by themselves.  A claim takes a
row without owner; to conclude that nobody holds it one needs `HeldIsOwned`
(whatever is held carries the executor's mark or is deleted), which in turn needs
that idle workers hold nothing (`WorkerHasTask`), that a dead daemon holds
nothing (`DownKeepsNothing`, for `reset_orphans`, which removes marks), that
executions name tasks (`RunHasTask`) and that rows of `/v1/runs` carry "api" for
good (`IngressOwns`, `ApiDueIsApi`).  `IInv` is their conjunction; `Inductive`
proves it, and `TypeCorrect`, `ClaimsExclusive`, `HeldOwned` and `RetriesBounded`
follow.  `Refinement` maps each step to `Claims`: claim to Take, spawn to Pass,
the end of a worker or of the loop to Drop, death to Crash, all others to a
stutter.  `RunningHeld` adds `AnnouncedIsOver` (a worker announces only rows
that are not running any more, so that `Finalize` lets go of nothing running), for
waits that do not expire and clients that never write "running".

`RunsDoNotOverlap` and `DependenciesHold` prove `OneRunPerTask` and `DepsStayMet`
where they are true.  Both take a daemon that does not die and behaviours in
which no POST to `/v1/runs` repeats a key (`[][Fresh]_vars`: a repeated one is dispatched again,
a hazard of the list).  The first also assumes that no client writes "failed" (the write
frees a row whose execution goes on, and the retry starts a second one); cancels,
deletes, reruns and waits that expire are all allowed.  Its invariant `RunsAlone`
says of the row of an execution under way that it is `Away`: out of the reach of
`dequeue`, because it has an owner or is deleted; not failed; not about to be
dispatched by a `/v1/runs` handler; not in the hands of the loop; and any worker that
holds it is in its wait or in an announcement that decides nothing.  So neither a
claim, nor a dispatch of either kind, nor a retry can start it again.  For the two ways
of dispatch to exclude each other it also says that rows of `/v1/runs` never come into
the executor's hands (`ApiUnheld`).  The second theorem allows neither reruns nor statuses
written by clients, since each takes a completed row back; its invariant adds that a
completed row is nobody's who could still write it (`CompletedRests`), a handler
before its dispatch included.  It is about tasks of the board: `/v1/runs` does not
look at `depends_on`.

*ResourceLease.*  `IInv` joins type correctness, distinct positions, the slot
bounds of resources nobody re-registers, the queue-implies-full invariant and the links.
The hard steps are counting steps: a release frees one slot and fills at most
one; a sweep frees, in each team, as many as it fills there at most, which the
proofs show by splitting granted and promoted leases by team
(`ClassByClass`) and by counting those with few others ahead (`FirstFew`).
`GrantsWithinSlots` and `FirstComeFirstServed` are proved as action properties
from the same invariant.  `Refinement` is the whole promise in one formula: each step maps to
a step of `Handover` or a stutter.  What release and sweep share is `MoveHandsOver`: whatever set of
leases leaves and whatever set becomes granted, the lines change as `HandOver` says, if
the choice is fair in each line.  That it is fair has two parts: the order is
`OrderOfService` again, and the numbers are those of the counting lemmas, now per
line: one successor or none for a release (`OneSuccessor`), and for a sweep
the first k of a line of which k expired (`FirstFew`).  A new lease's number is behind all
of its line because `LastPosition` is a maximum.

*CronManager.*  A cap on tasks is not inductive, because a job is counted after
its task exists, in memory first and on disk later.  What every step keeps is
`CountedBy`: an object, and a row, has counted all tasks of its registration
except the one its own next_run is the key of.  A crash before the row is
written goes back to a row for which this still holds, and the run after it
finds the key in the store.  It needs that no time is used before it is issued
(`TimesAreIssued`), that row and object agree between writes (`RowIsCurrent`),
that an id has one row (`OneRowPerId`) and that what runs is enabled
(`DueIsReady`).  `CapsHold` follows, because an enabled object has counted less
than the cap.  `OnDisk` uses `RowIsCurrent` and `RowIsKept`: nobody else deletes
the row of an id that is registered once.

*SessionManager and LLMGateway.*  A permit is given at one place and comes back
at four (the answer, the failure, the timeout, the cancellation), and the queue
of the semaphore loses a member at its head when a permit is handed on and
anywhere when a waiting call is cancelled.  `PermitsOK` and `QueueOK` are shown
per change of one call: the set of calls under way gains or loses one element, the
queue is appended to, or loses its head or one member it has once (`Head`,
`Tail` and `RemoveFirst` lemmas).  `BreakerOK` adds to `TripsMatch` that a count
never passes the threshold.  `SessionOK` accounts for the inputs of a session:
run, injected during the turn and pending add up to those taken, so that the
complete status, which is written when nothing is pending, means that all were
run; a call exists in a turn only or while the task is being stopped.  `Refinement`
maps each step to `Semaphore`: a call that starts to Enter, a permit handed on to Admit, an
answer, failure, timeout or cancellation to Leave, a cancelled wait to Withdraw, and
everything else to a stutter.  That Admit finds room is `PermitsOK`, the
count of permits against the calls under way.

*WorkflowEngine.*  The invariant is about one run at a time (`Good`): types, the
row agrees with the object (`Agrees`) unless the last save failed, the phase number
apart, an active coroutine has an object whose
results are the phases behind it and whose status is running or paused, or
cancelled once a kill was accepted (`ActiveRun`), a coroutine that has not begun
has no row, and a completed row is whole.  `OthersStay` says once that a step of a
run leaves the others alone.  That what ended stays so is proved per step, by
`EndedKept`; it needs `ActiveRun`, because only a coroutine that is active
writes a status without reading it.

*SubAgents.*  `RosterIsLive` follows from `RosterOK`: the roster says running no
longer than until the report.  `TranscriptsAlone` needs the state of the
attributes all runs share: while no run began beside another one, at most one
is in its graph, and `last` holds the seeded count of that one (`TurnsAlone`).
A report then appends exactly the messages behind the seeds, which are its own;
`PlacesOwn` and `PlacesOther` count the places of a run's messages before and
after an append.

*GraphRuntime.*  The invariant is about one run (`Good`) and its place in the tree
(`Top`, `Awaited`).  A bound on model calls is not inductive, since a run about to call
has not called yet: `HopsPaid` counts that call as made (`MayCall`), and stays below the
session's iterations and the bound at once.  `FutureOK` ties the two objects of an
approval to each other and to the place of the run, so that a granted tool finds an
entry somebody approved; `AsksToRead` keeps what plan mode waits for to tools that read;
`Stopping` says that a run whose tool failed stays inside the reply it belongs to until it
ends.  `Top` says that a pause is among the checkpoints.  A step changes one
run, and may end a tree of others, start sub-runtimes or reap the futures of a
session: `RunsMove` says once what such a step owes (`Moves`, `NoOrphan`), and
`BecomesSound`, `EndsSound` and their like reduce each action to the one run it is
about.  `Awaited` is needed because the end of a run removes those below it by name: a
sub-runtime has a parent that waits for it and, in an iteration, for that item.
`Inductive` gives the three invariants; `GatedToolsWait`, `PlansOnlyRead` and
`FailuresStopTheRun` are action properties, proved from `StepOK`, what a step adds to a
run's history: each tool that ran was admitted, or asked for under its own name and
granted (`Admitted`), and reads when the plan mode is on, or it is the capture after a
tool node (`CaptureAfter`, in both statements; `RanAtMayRun`).  The assumption `FlowsAssumption` is that graphs are stored under
their own names and that only stored ones are executed.

*AgentGraph.*  MCAgentGraph computes everything in one step, so its invariant only
says which graphs are chosen and that `merge`, `branches` and `next` are what
the operators make of them; the work is in the lemmas about those.  `Recursion` (by
the well-foundedness of the numbers) gives the recursive functions their values, and
`SearchIs` turns `BfsOrder` into the last of a sequence of search states.  What every step of a
search keeps (`SearchOK`): nothing excluded was visited; each entry of the queue is paid for
by an edge out of a visited node, so that Len(edges) + 1 steps empty the queue; the visited
nodes lead to visited or enqueued ones; and all of these are in every set
that has the root and is closed under the edges.  Hence `BfsFinds`: a search finds the least closed set.
The order needs a second invariant (`Near`): if a node in the order, or in the queue, is not
within k edges of the root, everything within k edges came before it (`BfsIsNear`).  The
reference definition by distances is closed after as many levels as there are
nodes, by counting (`LastLevel`), so both agree (`ReachableIsCanReach`), and the four
properties follow: `MergeFound` with the order, `BranchesValid` and `NoneLost` with
closed sets, `NoFlip` from the order of preferences in `ChosenEdge` and from the edges of a
fork leading to different nodes.  The assumptions are that there are finitely many
names, that none is empty, and that the results looked at are not empty.

*Only model-checked*: the liveness properties (`EveryTaskSettles`, `PermitsReturn`,
`FailedIsRetried`, `DueJobRuns`, `RunsEnd`, `SessionsEnd`,
`ExecutionsEnd`, `TranscriptsSettle`), since fairness and ENABLED are outside this prover,
and the violation.  *Only proved*: `ImplementsHandover` and `ImplementsSemaphore`, since a run
of five leases or of these sessions that also computes the abstract state is
too long; the runs check what follows from them (`FirstComeFirstServed`, `GrantsWithinSlots`,
`PermitsKept`).

## 5. Not modelled, and why

- Client-supplied `task_id`s that overwrite a row by `INSERT OR REPLACE`, and a
  client-chosen initial status: a row is inserted once, as pending.
- `sandbox = multi-node:...`: the delegation to a cluster node is a remote call
  whose answer marks the row; no local execution is involved.
- The graph semaphore (`FUSION_GRAPH_CONCURRENCY`, off by default): an execution
  waiting for it is `live`.
- Titles, inputs, artifacts, history rows, logging, broadcasts as messages: a
  broadcast is only the await it is.
- Cron expressions: `_compute_next_run` is some later time.  The idempotency
  key holds the time in whole seconds; that two firings of a job fall into one
  second, or that two registrations of an id share a time, would only suppress
  a task, and the model takes them to be different.
- `loop_stop_reason` and the number of tokens: an iteration of a job with a
  budget may or may not exhaust it.
- SQLite writes of cron rows are assumed to succeed.  Jobs name a graph, and the task
  executor runs, so that cron and one-shot firings are left to it.
- The placeholder rows `task.submit` leaves on the board for a schedule:
  `dequeue` skips them, the firings are rows of their own.
- Webhooks: a signature check and a token bucket in front of an execution.
- `resource.unregister` has no RPC; `lease_apply` on an unknown resource changes
  nothing.
- Graph runtime: dynamic tools, the values of variables and conditions (a
  condition is true or false, or asks whether there is an error), what a resident
  reviewer sees in the events, streaming of events, compaction, failures of saving a
  checkpoint.  A tool node whose tool is `__sub_graph__` does what a `sub_flow` node
  does and is not modelled beside it.  A branch of a fan-out that raises is an error text in the code and
  not modelled.  A branch graph also drops the `confirmation_policy` of its graph, so its
  verdicts may differ; here `Verdicts` belongs to a tool, whichever runtime asks.
  A node in `Captured` has a `screenshot` tool to run; a capture that fails changes nothing.  A handler finds the node to retry by the label a message of a tool
  carries: a label that is the id of another node is not modelled.
- How a safety verdict is reached: policies, risk scores, permission rules, the
  guard service.  `Verdicts` says what may come out.
- Gateway: capabilities and context sizes of models, embeddings, statistics, the
  wire format, the synchronous `execute`, `unregister_model` (never called).
- Sessions: event buffers of those who attach, history a fork inherits.  A turn is one call
  of a model, as in the graph of start, llm and end that `_run_background` builds
  when the store has none; with saved graphs it runs the first of them
  (`session_manager.py:176-185`), and without a runtime the session is failed at once
  (`169-174`).
- Leases: a release commits the lease and then the promotion (`resource_lease.py:181`,
  `190`), the sweep too (`234`, `242`).  No other call can come between the two, and
  the model makes them one step; a kill between them, which leaves a free slot beside a
  queue, is listed as a hazard without a property.
- Workflows: prompts and the parsing of answers, and the order of two writes of
  one row without an await in between (either, or both, may fail).
- Sub-agents: `fork` with a parent context, scoped memory, compaction (which would
  make the count of seeded messages meaningless), teams.
- The memory, knowledge, ingestion, orchestration, bridge and package modules are
  text, ranking, prompts, transport and archives around the components above;
  what they decide depends on model answers or on numbers, and they keep no
  state that several actors change between awaits.
- The components marked `not_modelled` in PROJECT.json, with the reason each.

## 6. Plan

1. TaskStore, TaskExecutor, Claims — done, with proofs.
2. ResourceLease — done, with proofs.
3. CronManager — done, with proofs.
4. AgentGraph and GraphRuntime — done, with proofs.
5. LLMGateway with SessionManager — done, with proofs.
6. WorkflowEngine — done, with proofs.
7. SubAgents — done, with proofs.
8. Open: TaskChain, composed with TaskStore (the steps of a chain against the
   executor's claims; abstract specification: steps run once each, in order);
   EventTree with undo, RateLimiter and TokenBudget; plaza and cluster delivery.
9. Refinements of abstract specifications: claims, leases (Handover) and permits
   (Semaphore) — done.  Open: the same for cron jobs and workflow runs.
