-------------------------- MODULE WorkflowEngine --------------------------
(***************************************************************************)
(* The workflow engine (agent_runtime/workflow_engine.py, WorkflowEngine): *)
(* executions of a workflow, phase by phase, behind a semaphore, which the *)
(* clients pause, resume and cancel, and the rows their state is saved in. *)
(*                                                                         *)
(* An agent is a call that returns a text or nothing or raises.  A phase   *)
(* without agents returns at once and is left out.  A save may fail, which *)
(* is logged and nothing else; a load of a row does not.                   *)
(***************************************************************************)
EXTENDS Integers, Sequences, SequencesExt, FiniteSets

CONSTANTS
  Runs,         \* calls of workflow.execute, each with its run id
  Phases,       \* the phases of the workflow each of them executes, in order
  Reports,      \* tokens an agent may report for its call, 0: none
  Limit,        \* FUSION_WORKFLOW_CONCURRENCY
  Faulty,       \* bound: the runs whose saves may fail
  MaxCrash      \* bound: crashes of the daemon

Patterns == {"pipeline", "parallel_barrier", "loop_until_dry", "loop_until_budget",
             "adversarial_verify", "judge_panel"}

\* A WorkflowPhase, as far as the executors look at it.
WorkflowPhase == [pattern : Patterns, continue_on_error : BOOLEAN,
                  agents : Nat \ {0}, items : Nat \ {0}, max_iterations : Nat \ {0},
                  dry_threshold : Nat \ {0}, budget : Nat \ {0},
                  cost_per_iteration : Nat \ {0}, threshold : 0..100]

ASSUME PhasesAssumption == Phases \in [Runs -> Seq(WorkflowPhase)]
ASSUME LimitAssumption == Limit \in Nat \ {0} /\ MaxCrash \in Nat
ASSUME FaultyAssumption == Faulty \subseteq Runs

VARIABLES
  run,      \* WorkflowEngine._runs
  row,      \* the table workflow_runs
  task,     \* the coroutine of each call
  queue,    \* the calls that wait for the semaphore, in order
  unsaved,  \* history: the runs whose last save has failed
  crashes   \* crashes so far
vars == <<run, row, task, queue, unsaved, crashes>>

\* An execution in memory; the gate is its _pause_event.
NewRun == [status |-> "running", results |-> <<>>, current |-> 0,
           flag |-> FALSE, gate |-> TRUE]
\* What is saved of it; current counts the phases from 0.
RowOf(o) == [status |-> o.status, results |-> o.results, current |-> o.current]

\* A coroutine: where it is, the phase, and inside the phase the calls or
\* rounds so far, the dry ones, and the tokens charged.
NewTask == [pc |-> "idle", phase |-> 1, step |-> 0, dry |-> 0, found |-> FALSE,
            charged |-> 0, kill |-> FALSE]

Init == /\ run = <<>> /\ row = <<>>
        /\ task = [r \in Runs |-> NewTask]
        /\ queue = <<>> /\ unsaved = {} /\ crashes = 0

\* The coroutine of r is registered in _active_tasks.
Active(r) == task[r].pc \in {"phase", "blocked", "woken"}

\* *Mistake*: the permit is not given back.
HoldsForGood(r) == Active(r) \/ task[r].pc = "done"

\* The coroutine of r holds a permit, from acquire to the finally.
Holds(r) == Active(r)
Known(r) == r \in DOMAIN run \cup DOMAIN row

-----------------------------------------------------------------------------
\* The dict, or the table, f with v at r.
With(f, r, v) == [q \in DOMAIN f \cup {r} |-> IF q = r THEN v ELSE f[q]]

\* _persist_run of the object o of r.  One that fails leaves what there was: the
\* row, or what the same step saved of r before.
Saves(r, o, before) ==
  \/ row' = With(row, r, RowOf(o)) /\ unsaved' = unsaved \ {r}
  \/ /\ r \in Faulty
     /\ row' \in {row} \cup {With(row, r, RowOf(b)) : b \in before}
     /\ unsaved' = unsaved \cup {r}

\* The object of run r becomes o, and is saved.
Persisted(r, o) == run' = With(run, r, o) /\ Saves(r, o, {})

Done(r) == task' = [task EXCEPT ![r] = [NewTask EXCEPT !.pc = "done"]]

\* *Mistake*: the last status is not saved.
ReturnsUnsaved(r, o, before) ==
  run' = With(run, r, o) /\ unsaved' = unsaved \ {r} /\ UNCHANGED row /\ Done(r)

\* The coroutine of r returns, and gives its permit back.
Returns(r, o, before) == run' = With(run, r, o) /\ Saves(r, o, before) /\ Done(r)

\* _restore_run: the object, or a new one of the row, with gate and flag reset.
_restore_run(r) ==
  IF r \in DOMAIN run THEN run[r]
  ELSE [NewRun EXCEPT !.status = row[r].status, !.results = row[r].results,
                      !.current = row[r].current]

\* The object of a run that enters the phase of t: the number is not saved.
Entering(o, t) == [o EXCEPT !.current = t.phase - 1]

\* The coroutine of r, with the object o just saved, begins the phase t.phase,
\* waits at the gate, or has done them all.
NextPhase(r, o, t) ==
  IF t.phase > Len(Phases[r]) THEN Returns(r, [o EXCEPT !.status = "completed"], {o})
  ELSE IF o.flag THEN Returns(r, [o EXCEPT !.status = "cancelled"], {o})
  ELSE /\ run' = With(run, r, IF o.gate THEN Entering(o, t) ELSE o)
       /\ Saves(r, o, {})
       /\ task' = [task EXCEPT ![r] = [t EXCEPT !.pc = IF o.gate THEN "phase" ELSE "blocked"]]

\* *Mistake*: an error ends the run in no case.
PhaseEndsAnyway(r, result) ==
  NextPhase(r, [run[r] EXCEPT !.results = Append(@, result)],
            [NewTask EXCEPT !.phase = task[r].phase + 1])

\* The phase of r ends with a result: an output, an empty one, or an error,
\* which fails the run unless the phase says to continue.
PhaseEnds(r, result) ==
  LET o == [run[r] EXCEPT !.results = Append(@, result)] IN
  IF result = "error" /\ ~Phases[r][task[r].phase].continue_on_error
  THEN Returns(r, [o EXCEPT !.status = "failed"], {o})
  ELSE NextPhase(r, o, [NewTask EXCEPT !.phase = task[r].phase + 1])

Goes(r, t) == task' = [task EXCEPT ![r] = t] /\ UNCHANGED <<run, row, unsaved>>

-----------------------------------------------------------------------------
\* workflow.execute waits for a permit, before the run has an object.
execute_workflow(r) ==
  /\ task[r].pc = "idle"
  /\ task' = [task EXCEPT ![r].pc = "queued"]
  /\ queue' = Append(queue, r)
  /\ UNCHANGED <<run, row, unsaved, crashes>>

Start(r) ==
  /\ queue # <<>> /\ Head(queue) = r
  /\ Cardinality({h \in Runs : Holds(h)}) < Limit
  /\ queue' = Tail(queue)
  /\ NextPhase(r, NewRun, NewTask)
  /\ UNCHANGED crashes

\* The gate has been opened: whoever waited goes on, and does not look again.
PassGate(r) ==
  /\ task[r].pc = "woken" /\ ~task[r].kill
  /\ run' = [run EXCEPT ![r] = Entering(@, task[r])]
  /\ task' = [task EXCEPT ![r].pc = "phase"]
  /\ UNCHANGED <<row, queue, unsaved, crashes>>

\* The coroutine of r is inside a phase of the pattern.
In(r, pattern) == /\ task[r].pc = "phase" /\ ~task[r].kill
                  /\ Phases[r][task[r].phase].pattern = pattern
Phase(r) == Phases[r][task[r].phase]
Counted(r) == [task[r] EXCEPT !.step = @ + 1]

\* Calls one after the other: the stages of each item, or the agents of a
\* panel and their judge.  The last one decides the output.
Sequential(r, calls) ==
  \/ PhaseEnds(r, "error")
  \/ Counted(r).step < calls /\ Goes(r, Counted(r))
  \/ Counted(r).step = calls /\ \E result \in {"output", "empty"} : PhaseEnds(r, result)

exec_pipeline(r) ==
  /\ In(r, "pipeline")
  /\ Sequential(r, Phase(r).items * Phase(r).agents)
  /\ UNCHANGED <<queue, crashes>>

exec_judge_panel(r) ==
  /\ In(r, "judge_panel")
  /\ Sequential(r, Phase(r).agents + 1)
  /\ UNCHANGED <<queue, crashes>>

\* All branches at once.  Branches that raise are left out of the output, and
\* are no error of the phase even when all of them do.
exec_parallel_barrier(r) ==
  /\ In(r, "parallel_barrier")
  /\ \E result \in {"output", "empty"} : PhaseEnds(r, result)
  /\ UNCHANGED <<queue, crashes>>

\* Rounds until enough of them in a row found nothing new.
exec_loop_until_dry(r) ==
  /\ In(r, "loop_until_dry")
  /\ \E new \in BOOLEAN :
       LET t == [Counted(r) EXCEPT !.dry = IF new THEN 0 ELSE @ + 1,
                                   !.found = @ \/ new]
       IN IF t.dry < Phase(r).dry_threshold /\ t.step < Phase(r).max_iterations
          THEN Goes(r, t)
          ELSE PhaseEnds(r, IF t.found THEN "output" ELSE "empty")
  /\ UNCHANGED <<queue, crashes>>

\* _record_tokens adds the tokens t of one call to those of the round: the
\* accumulator has to be there, and one that is empty counts as missing.
Recorded(acc, t) == IF acc = <<>> \/ t = 0 THEN acc ELSE Append(acc, t)
Sum(s) == FoldLeft(LAMBDA a, b : a + b, 0, s)

\* What a round costs: the tokens recorded, or the estimate when there are none.
Cost(p, reports) ==
  LET acc == FoldLeft(Recorded, <<>>, reports) IN
  IF acc = <<>> THEN p.cost_per_iteration ELSE Sum(acc)

\* Rounds until the budget is spent; agents that raise are left out.
exec_loop_until_budget(r) ==
  /\ In(r, "loop_until_budget")
  /\ \E reports \in [1..Phase(r).agents -> Reports] :
       LET t == [Counted(r) EXCEPT !.charged = @ + Cost(Phase(r), reports)]
       IN IF t.step < Phase(r).max_iterations /\ t.charged < Phase(r).budget
          THEN Goes(r, t) ELSE PhaseEnds(r, "output")
  /\ UNCHANGED <<queue, crashes>>

\* Every agent votes, one that raises votes against.  A refuted claim is an
\* empty output: the next phase gets the claim as its input all the same.
exec_adversarial_verify(r) ==
  /\ In(r, "adversarial_verify")
  /\ \E survived \in 0..Phase(r).agents :
       PhaseEnds(r, IF survived * 100 >= Phase(r).threshold * Phase(r).agents
                    THEN "output" ELSE "empty")
  /\ UNCHANGED <<queue, crashes>>

\* The CancelledError reaches the coroutine at its await.
Cancelled(r) ==
  /\ Active(r) /\ task[r].kill
  /\ Returns(r, [run[r] EXCEPT !.status = "cancelled"], {})
  /\ UNCHANGED <<queue, crashes>>

-----------------------------------------------------------------------------
\* *Mistake*: who waits at the gate is not woken.
StaysShut(r) == task[r].pc

\* What a coroutine at the gate becomes when the gate is opened.
Opened(r) == IF task[r].pc = "blocked" THEN "woken" ELSE task[r].pc

\* Only a running run is paused.
pause_run(r) ==
  /\ Known(r)
  /\ LET o == _restore_run(r) IN
     /\ o.status = "running"
     /\ Persisted(r, [o EXCEPT !.gate = FALSE, !.status = "paused"])
  /\ UNCHANGED <<task, queue, crashes>>

resume_run(r) ==
  /\ Known(r)
  /\ LET o == _restore_run(r) IN
     /\ o.status = "paused"
     /\ Persisted(r, [o EXCEPT !.gate = TRUE, !.status = "running"])
  /\ task' = [task EXCEPT ![r].pc = Opened(r)]
  /\ UNCHANGED <<queue, crashes>>

\* *Mistake*: the flag alone tells the coroutine.
Flagged(r) == [task[r] EXCEPT !.pc = Opened(r)]

\* The coroutine of r is told: the gate opens, and the task is cancelled.
Killed(r) == [task[r] EXCEPT !.pc = Opened(r), !.kill = Active(r)]

cancel_run(r) ==
  /\ Known(r)
  /\ LET o == _restore_run(r) IN
     /\ o.status \in {"running", "paused"}
     /\ Persisted(r, [o EXCEPT !.flag = TRUE, !.status = "cancelled",
                               !.gate = @ \/ o.status = "paused"])
  /\ task' = [task EXCEPT ![r] = Killed(r)]
  /\ UNCHANGED <<queue, crashes>>

\* workflow.status or workflow.list after a restart.
get_run_status(r) ==
  /\ r \in DOMAIN row \ DOMAIN run
  /\ run' = With(run, r, _restore_run(r))
  /\ UNCHANGED <<row, task, queue, unsaved, crashes>>

\* The daemon dies: only the rows are left, and nothing takes the runs up.
Crash ==
  /\ crashes < MaxCrash
  /\ crashes' = crashes + 1
  /\ run' = <<>> /\ queue' = <<>> /\ unsaved' = {}
  /\ task' = [r \in Runs |-> IF task[r].pc = "idle" THEN task[r]
                             ELSE [NewTask EXCEPT !.pc = "done"]]
  /\ UNCHANGED row

Step(r) ==
  \/ Start(r) \/ PassGate(r) \/ Cancelled(r)
  \/ exec_pipeline(r) \/ exec_parallel_barrier(r) \/ exec_loop_until_dry(r)
  \/ exec_loop_until_budget(r) \/ exec_adversarial_verify(r) \/ exec_judge_panel(r)

Next ==
  \/ Crash
  \/ \E r \in Runs :
       \/ Step(r) \/ execute_workflow(r)
       \/ pause_run(r) \/ resume_run(r) \/ cancel_run(r) \/ get_run_status(r)

Spec == Init /\ [][Next]_vars
\* Agents return or time out, and a runnable coroutine is scheduled.
FairSpec == Spec /\ \A r \in Runs : WF_vars(Step(r))

-----------------------------------------------------------------------------
(* Properties.                                                             *)

Terminal == {"completed", "failed", "cancelled"}

\* What ended stays as it ended, in memory and on disk: no answer of an agent,
\* no pause, resume or cancel and no restart changes a terminal status
\* (tests/test_workflow_engine.py, test_pause_resume_cancel).
EndedStaysEnded ==
  [][\A r \in DOMAIN row :
       row[r].status \in Terminal =>
         /\ row'[r].status = row[r].status
         /\ r \in DOMAIN run' => run'[r].status = row[r].status]_vars

\* A run that has completed went through all its phases, none of which failed
\* without being allowed to.
CompletedIsWhole ==
  \A r \in DOMAIN row :
    row[r].status = "completed" =>
      /\ Len(row[r].results) = Len(Phases[r])
      /\ \A i \in DOMAIN Phases[r] :
           row[r].results[i] = "error" => Phases[r][i].continue_on_error

\* At every await the row says what the object says, so that a restart loses no
\* decision of a client and no result (README.md:298, dual write): but for a run
\* whose last save has failed, and for the number of the phase, which is set
\* after the save and lags by one inside a phase.
RowAgrees ==
  \A r \in DOMAIN run \ unsaved :
    /\ r \in DOMAIN row
    /\ row[r].status = run[r].status /\ row[r].results = run[r].results
    /\ \/ row[r].current = run[r].current
       \/ task[r].pc = "phase" /\ row[r].current = run[r].current - 1

\* Every execution ends, unless it is paused and never resumed, or it waits
\* behind executions of which that is so: the paused keep their permits.
Stuck(r) == task[r].pc = "blocked" /\ run[r].status = "paused"
ExecutionsEnd ==
  \A r \in Runs :
    (task[r].pc = "queued" \/ Active(r))
      ~> (task[r].pc = "done" \/ \E h \in Runs : Stuck(h))
=============================================================================
