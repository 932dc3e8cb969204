----------------------- MODULE WorkflowEngineProofs -----------------------
(***************************************************************************)
(* Theorems about WorkflowEngine for every set of runs and workflows: rows *)
(* and objects agree unless a save fails, a completed run is whole, and    *)
(* what ended stays ended, whatever saves fail.                            *)
(***************************************************************************)
EXTENDS WorkflowEngine, SequenceTheorems, TLAPS

Results == {"output", "empty", "error"}

-----------------------------------------------------------------------------
(* The inductive invariant, run by run.                                    *)

IsRun(o) == /\ DOMAIN o = {"status", "results", "current", "flag", "gate"}
            /\ o.results \in Seq(Results)
IsRow(w) == /\ w = [status |-> w.status, results |-> w.results, current |-> w.current]
            /\ w.results \in Seq(Results)

Typed(r) ==
  /\ DOMAIN task[r] = DOMAIN NewTask
  /\ task[r].phase \in Nat \ {0} /\ task[r].kill \in BOOLEAN
  /\ r \in DOMAIN run => IsRun(run[r])
  /\ r \in DOMAIN row => IsRow(row[r])
  /\ r \in unsaved => r \in DOMAIN run

\* What RowAgrees says of r.
Agrees(r) ==
  r \in DOMAIN run \ unsaved =>
    /\ r \in DOMAIN row
    /\ row[r].status = run[r].status /\ row[r].results = run[r].results
    /\ \/ row[r].current = run[r].current
       \/ task[r].pc = "phase" /\ row[r].current = run[r].current - 1

\* A row that has ended is never behind, whatever saves have failed.
EndedAlike(r) ==
  r \in DOMAIN run /\ r \in DOMAIN row /\ row[r].status \in Terminal =>
    run[r].status = row[r].status

\* The errors among the results of r are allowed ones.
ErrorsAllowed(r, results) ==
  \A i \in 1..Len(results) : results[i] = "error" => Phases[r][i].continue_on_error

\* A coroutine inside the phases has an object, whose status only a cancel
\* that has reached the task too can have made terminal, and the results of
\* the phases it has left behind.
ActiveRun(r) ==
  Active(r) =>
    /\ r \in DOMAIN run
    /\ IF task[r].kill THEN run[r].status = "cancelled" ELSE run[r].status \in {"running", "paused"}
    /\ task[r].phase <= Len(Phases[r])
    /\ Len(run[r].results) = task[r].phase - 1
    /\ ErrorsAllowed(r, run[r].results)
    /\ IF task[r].pc = "phase" THEN run[r].current = task[r].phase - 1
       ELSE run[r].current \in {task[r].phase - 2, task[r].phase - 1}

\* Before the permit there is neither an object nor a row to pause or to cancel.
NoRowYet(r) ==
  task[r].pc \in {"idle", "queued"} => r \notin DOMAIN row /\ r \notin DOMAIN run

Whole(r) ==
  r \in DOMAIN row /\ row[r].status = "completed" =>
    /\ Len(row[r].results) = Len(Phases[r])
    /\ ErrorsAllowed(r, row[r].results)

Good(r) == /\ Typed(r) /\ Agrees(r) /\ EndedAlike(r)
           /\ ActiveRun(r) /\ NoRowYet(r) /\ Whole(r)

\* The semaphore queues each waiting call once.
QueueOK ==
  /\ queue \in Seq(Runs)
  /\ \A i \in 1..Len(queue) : task[queue[i]].pc = "queued"
  /\ \A i, j \in 1..Len(queue) : queue[i] = queue[j] => i = j

IInv ==
  /\ DOMAIN task = Runs /\ DOMAIN run \subseteq Runs /\ DOMAIN row \subseteq Runs
  /\ QueueOK
  /\ \A r \in Runs : Good(r)

\* Nothing about the other runs changes in a step of run r.
OthersStay(r) ==
  /\ DOMAIN task' = Runs /\ DOMAIN run' \subseteq Runs /\ DOMAIN row' \subseteq Runs
  /\ \A q \in Runs \ {r} :
       /\ task'[q] = task[q]
       /\ q \in DOMAIN run' <=> q \in DOMAIN run
       /\ q \in DOMAIN run => run'[q] = run[q]
       /\ q \in DOMAIN row' <=> q \in DOMAIN row
       /\ q \in DOMAIN row => row'[q] = row[q]
       /\ q \in unsaved' <=> q \in unsaved

\* A row that has ended keeps its status.
EndedKept(r) ==
  r \in DOMAIN row /\ row[r].status \in Terminal =>
    r \in DOMAIN row' /\ row'[r].status = row[r].status

\* What a step of run r has to show.
GoodStep(r) == OthersStay(r) /\ Good(r)' /\ EndedKept(r)

-----------------------------------------------------------------------------
(* What the steps are made of.                                             *)

\* The others keep their part of the invariant.
LEMMA OthersGood ==
  ASSUME NEW r \in Runs, OthersStay(r), NEW q \in Runs \ {r}, Good(q)
  PROVE  Good(q)' /\ EndedKept(q)
<1>1. q \in Runs /\ q # r
  OBVIOUS
<1>2. Typed(q)' /\ Agrees(q)' /\ EndedAlike(q)'
  BY <1>1 DEF OthersStay, Good, Typed, Agrees, EndedAlike
<1>3. ActiveRun(q)'
  BY <1>1 DEF OthersStay, Good, ActiveRun, Active, ErrorsAllowed
<1>4. NoRowYet(q)' /\ Whole(q)'
  BY <1>1 DEF OthersStay, Good, NoRowYet, Whole, ErrorsAllowed
<1>5. EndedKept(q)
  BY <1>1 DEF OthersStay, EndedKept
<1>6. QED
  BY <1>2, <1>3, <1>4, <1>5 DEF Good

\* What a save of the object o of r leaves on disk.
LEMMA Saved ==
  ASSUME IInv, NEW r \in Runs, NEW o, NEW before, Saves(r, o, before)
  PROVE  /\ DOMAIN row \subseteq DOMAIN row' /\ DOMAIN row' \subseteq DOMAIN row \cup {r}
         /\ \A q \in DOMAIN row \ {r} : row'[q] = row[q]
         /\ \A q \in Runs \ {r} : q \in unsaved' <=> q \in unsaved
         /\ \/ r \notin unsaved' /\ r \in DOMAIN row' /\ row'[r] = RowOf(o)
            \/ /\ r \in unsaved'
               /\ row' = row \/ \E b \in before : r \in DOMAIN row' /\ row'[r] = RowOf(b)
BY DEF Saves, With

\* A step that saves the object w of r, which becomes o, and changes at most the
\* task of r.
LEMMA SavedOthers ==
  ASSUME IInv, NEW r \in Runs, NEW o, NEW w, NEW before,
         run' = With(run, r, o), Saves(r, w, before),
         NEW t, task' = [task EXCEPT ![r] = t]
  PROVE  OthersStay(r) /\ task'[r] = t /\ r \in DOMAIN run' /\ run'[r] = o
<1>1. /\ DOMAIN run' = DOMAIN run \cup {r} /\ run'[r] = o
      /\ \A q \in DOMAIN run \ {r} : run'[q] = run[q]
  BY DEF With
<1>2. /\ DOMAIN row \subseteq DOMAIN row' /\ DOMAIN row' \subseteq DOMAIN row \cup {r}
      /\ \A q \in DOMAIN row \ {r} : row'[q] = row[q]
      /\ \A q \in Runs \ {r} : q \in unsaved' <=> q \in unsaved
  BY Saved
<1>3. QED
  BY <1>1, <1>2 DEF IInv, OthersStay

\* A row of r that a step has written is typed, agrees with the object and is
\* whole: o is saved, or one of what was saved before it in the step.
LEMMA SavedRow ==
  ASSUME IInv, NEW r \in Runs, NEW o, NEW before, Saves(r, o, before), IsRun(o),
         o.status = "completed" => Len(o.results) = Len(Phases[r]) /\ ErrorsAllowed(r, o.results),
         \A b \in before : IsRun(b) /\ b.status \in {"running", "paused"},
         r \in DOMAIN row /\ row[r].status \in Terminal => before = {} /\ o.status = row[r].status
  PROVE  /\ r \in DOMAIN row' => IsRow(row'[r])
         /\ r \in DOMAIN row' /\ row'[r].status \in Terminal => row'[r].status = o.status
         /\ r \notin unsaved' => r \in DOMAIN row' /\ row'[r] = RowOf(o)
         /\ Whole(r)' /\ EndedKept(r)
<1>1. Typed(r) /\ Whole(r)
  BY DEF IInv, Good
<1>2. ASSUME NEW b, IsRun(b)
      PROVE  /\ IsRow(RowOf(b)) /\ RowOf(b).status = b.status
             /\ RowOf(b).results = b.results
  BY <1>2 DEF IsRun, IsRow, RowOf
<1>3. CASE r \notin unsaved' /\ r \in DOMAIN row' /\ row'[r] = RowOf(o)
  BY <1>2, <1>3 DEF Whole, EndedKept, ErrorsAllowed
<1>4. CASE r \in unsaved' /\ row' = row
  BY <1>1, <1>4 DEF Typed, Whole, EndedKept, ErrorsAllowed
<1>5. CASE r \in unsaved' /\ \E b \in before : r \in DOMAIN row' /\ row'[r] = RowOf(b)
  <2>1. PICK b \in before : r \in DOMAIN row' /\ row'[r] = RowOf(b)
    BY <1>5
  <2>2. /\ IsRow(row'[r]) /\ row'[r].status \notin Terminal
        /\ ~(r \in DOMAIN row /\ row[r].status \in Terminal)
    BY <1>2, <2>1 DEF Terminal
  <2>3. QED
    BY <1>5, <2>1, <2>2 DEF Whole, EndedKept, Terminal
<1>6. QED
  BY <1>3, <1>4, <1>5, Saved

\* The queue stays as it is while the step of r changes no queued task.
LEMMA QueueStays ==
  ASSUME IInv, NEW r \in Runs, OthersStay(r), task[r].pc # "queued", UNCHANGED queue
  PROVE  QueueOK'
<1>1. \A i \in 1..Len(queue) : queue[i] \in Runs \ {r}
  BY ElementOfSeq DEF IInv, QueueOK
<1>2. QED
  BY <1>1 DEF IInv, QueueOK, OthersStay

\* A run that goes through the gate, or has its object changed, is not over.
Going(r) == r \in DOMAIN row => row[r].status \notin Terminal

\* The coroutine of r returns with the object o.
LEMMA ReturnsGood ==
  ASSUME IInv, NEW r \in Runs, NEW o, NEW before, Returns(r, o, before), IsRun(o),
         o.status = "completed" => Len(o.results) = Len(Phases[r]) /\ ErrorsAllowed(r, o.results),
         \A b \in before : IsRun(b) /\ b.status \in {"running", "paused"},
         r \in DOMAIN row /\ row[r].status \in Terminal => before = {} /\ o.status = row[r].status
  PROVE  GoodStep(r)
<1>1. /\ run' = With(run, r, o) /\ Saves(r, o, before)
      /\ task' = [task EXCEPT ![r] = [NewTask EXCEPT !.pc = "done"]]
  BY DEF Returns, Done
<1>2. /\ OthersStay(r) /\ task'[r] = [NewTask EXCEPT !.pc = "done"]
      /\ r \in DOMAIN run' /\ run'[r] = o
  BY <1>1, SavedOthers
<1>3. /\ r \in DOMAIN row' => IsRow(row'[r])
      /\ r \in DOMAIN row' /\ row'[r].status \in Terminal => row'[r].status = o.status
      /\ r \notin unsaved' => r \in DOMAIN row' /\ row'[r] = RowOf(o)
      /\ Whole(r)' /\ EndedKept(r)
  BY <1>1, SavedRow
<1>4. Typed(r)' /\ Agrees(r)' /\ EndedAlike(r)'
  BY <1>2, <1>3 DEF Typed, Agrees, EndedAlike, NewTask, RowOf
<1>5. ActiveRun(r)' /\ NoRowYet(r)'
  BY <1>2 DEF ActiveRun, Active, NoRowYet, NewTask
<1>6. QED
  BY <1>2, <1>3, <1>4, <1>5 DEF GoodStep, Good

\* The coroutine of r comes to the phase t.phase with the object o.
LEMMA NextPhaseGood ==
  ASSUME IInv, NEW r \in Runs, NEW o, NEW t, NextPhase(r, o, t), IsRun(o), Going(r),
         o.status \in {"running", "paused"},
         DOMAIN t = DOMAIN NewTask, t.phase \in Nat \ {0}, t.kill = FALSE,
         t.phase <= Len(Phases[r]) + 1, Len(o.results) = t.phase - 1,
         ErrorsAllowed(r, o.results), o.current \in {t.phase - 2, t.phase - 1}
  PROVE  GoodStep(r)
<1>1. Len(Phases[r]) \in Nat
  BY PhasesAssumption, LenProperties
<1>2. CASE t.phase > Len(Phases[r])
  <2> DEFINE c == [o EXCEPT !.status = "completed"]
  <2>1. IsRun(c) /\ c.status = "completed" /\ c.results = o.results
    BY DEF IsRun
  <2>2. Returns(r, c, {o}) /\ Len(o.results) = Len(Phases[r])
    BY <1>1, <1>2 DEF NextPhase
  <2> HIDE DEF c
  <2>3. QED
    BY <2>1, <2>2, ReturnsGood DEF Going
<1>3. CASE t.phase <= Len(Phases[r]) /\ o.flag
  <2> DEFINE c == [o EXCEPT !.status = "cancelled"]
  <2>1. IsRun(c) /\ c.status = "cancelled"
    BY DEF IsRun
  <2>2. Returns(r, c, {o})
    BY <1>1, <1>3 DEF NextPhase
  <2> HIDE DEF c
  <2>3. QED
    BY <2>1, <2>2, ReturnsGood DEF Going
<1>4. CASE t.phase <= Len(Phases[r]) /\ ~o.flag
  <2> DEFINE u == [t EXCEPT !.pc = IF o.gate THEN "phase" ELSE "blocked"]
             e == IF o.gate THEN Entering(o, t) ELSE o
  <2>1. /\ DOMAIN u = DOMAIN NewTask /\ u.phase = t.phase /\ u.kill = FALSE
        /\ u.pc = IF o.gate THEN "phase" ELSE "blocked"
    BY DEF NewTask
  <2>2. /\ IsRun(e) /\ e.status = o.status /\ e.results = o.results
        /\ e.current = IF o.gate THEN t.phase - 1 ELSE o.current
    BY DEF IsRun, Entering
  <2>3. run' = With(run, r, e) /\ Saves(r, o, {}) /\ task' = [task EXCEPT ![r] = u]
    BY <1>1, <1>4 DEF NextPhase
  <2> HIDE DEF u, e
  <2>4. OthersStay(r) /\ task'[r] = u /\ r \in DOMAIN run' /\ run'[r] = e
    BY <2>3, SavedOthers
  <2>5. /\ r \in DOMAIN row' => IsRow(row'[r])
        /\ r \in DOMAIN row' /\ row'[r].status \in Terminal => row'[r].status = o.status
        /\ r \notin unsaved' => r \in DOMAIN row' /\ row'[r] = RowOf(o)
        /\ Whole(r)' /\ EndedKept(r)
    BY <2>3, SavedRow DEF Going
  <2>6. Typed(r)' /\ EndedAlike(r)'
    <3>1. task'[r].kill = FALSE
      BY <2>1, <2>4
    <3>2. DOMAIN task'[r] = DOMAIN NewTask /\ task'[r].phase \in Nat \ {0}
      BY <2>1, <2>4
    <3>3. QED
      BY <2>2, <2>4, <2>5, <3>1, <3>2 DEF Typed, EndedAlike
  <2>7. Agrees(r)'
    BY <2>1, <2>2, <2>4, <2>5 DEF Agrees, RowOf
  <2>8. ActiveRun(r)'
    BY <1>4, <2>1, <2>2, <2>4 DEF ActiveRun, ErrorsAllowed
  <2>9. NoRowYet(r)'
    BY <2>1, <2>4 DEF NoRowYet
  <2>10. QED
    BY <2>4, <2>5, <2>6, <2>7, <2>8, <2>9 DEF GoodStep, Good
<1>5. QED
  BY <1>1, <1>2, <1>3, <1>4

\* What is known of a coroutine that takes a step inside a phase.
LEMMA InPhase ==
  ASSUME IInv, NEW r \in Runs, Active(r), task[r].kill = FALSE
  PROVE  /\ r \in DOMAIN run /\ IsRun(run[r]) /\ run[r].status \in {"running", "paused"}
         /\ Going(r)
         /\ task[r].phase \in 1..Len(Phases[r]) /\ Len(Phases[r]) \in Nat
         /\ Len(run[r].results) = task[r].phase - 1
         /\ ErrorsAllowed(r, run[r].results)
         /\ run[r].current \in {task[r].phase - 2, task[r].phase - 1}
         /\ task[r].pc = "phase" => run[r].current = task[r].phase - 1
<1>1. Len(Phases[r]) \in Nat
  BY PhasesAssumption, LenProperties
<1>2. Typed(r) /\ EndedAlike(r) /\ ActiveRun(r)
  BY DEF IInv, Good
<1>3. QED
  BY <1>1, <1>2 DEF Typed, EndedAlike, ActiveRun, Going, Terminal

\* A phase of r ends.
LEMMA PhaseEndsGood ==
  ASSUME IInv, NEW r \in Runs, Active(r), task[r].pc = "phase", task[r].kill = FALSE,
         NEW result \in Results, PhaseEnds(r, result)
  PROVE  GoodStep(r)
<1> DEFINE res == run[r].results
           o == [run[r] EXCEPT !.results = Append(@, result)]
           phase == task[r].phase
           t == [NewTask EXCEPT !.phase = phase + 1]
<1>1. /\ r \in DOMAIN run /\ IsRun(run[r]) /\ run[r].status \in {"running", "paused"}
      /\ Going(r) /\ phase \in 1..Len(Phases[r]) /\ Len(Phases[r]) \in Nat
      /\ Len(res) = phase - 1 /\ ErrorsAllowed(r, res) /\ run[r].current = phase - 1
  BY InPhase
<1>2. /\ Append(res, result) \in Seq(Results) /\ Len(Append(res, result)) = phase
      /\ \A i \in 1..Len(res) : Append(res, result)[i] = res[i]
      /\ Append(res, result)[phase] = result
  BY <1>1, AppendProperties DEF IsRun
<1>3. /\ IsRun(o) /\ o.status = run[r].status /\ o.results = Append(res, result)
      /\ o.current = run[r].current
  BY <1>1, <1>2 DEF IsRun
<1>4. CASE result = "error" /\ ~Phases[r][phase].continue_on_error
  <2> DEFINE f == [o EXCEPT !.status = "failed"]
  <2>1. Returns(r, f, {o})
    BY <1>4 DEF PhaseEnds
  <2>2. IsRun(f) /\ f.status = "failed"
    BY <1>3 DEF IsRun
  <2> HIDE DEF f, o
  <2>3. QED
    BY <1>1, <1>3, <2>1, <2>2, ReturnsGood DEF Going
<1>5. CASE ~(result = "error" /\ ~Phases[r][phase].continue_on_error)
  <2>1. NextPhase(r, o, t)
    BY <1>5 DEF PhaseEnds
  <2>2. DOMAIN t = DOMAIN NewTask /\ t.phase = phase + 1 /\ t.kill = FALSE
    BY DEF NewTask
  <2> HIDE DEF o, t
  <2>3. ErrorsAllowed(r, o.results)
    BY <1>1, <1>2, <1>3, <1>5 DEF ErrorsAllowed
  <2>4. /\ t.phase \in Nat \ {0} /\ t.phase <= Len(Phases[r]) + 1 /\ Len(o.results) = t.phase - 1
        /\ o.current \in {t.phase - 2, t.phase - 1}
    BY <1>1, <1>2, <1>3, <2>2
  <2>5. QED
    BY <1>1, <1>3, <2>1, <2>2, <2>3, <2>4, NextPhaseGood
<1>6. QED
  BY <1>4, <1>5

\* A coroutine that goes on inside a phase.
LEMMA GoesGood ==
  ASSUME IInv, NEW r \in Runs, Active(r), task[r].pc = "phase", task[r].kill = FALSE,
         NEW t, Goes(r, t),
         DOMAIN t = DOMAIN NewTask, t.phase = task[r].phase, t.kill = FALSE, t.pc = "phase"
  PROVE  GoodStep(r)
<1>1. /\ task' = [task EXCEPT ![r] = t] /\ run' = run /\ row' = row /\ unsaved' = unsaved
      /\ task'[r] = t
  BY DEF Goes, IInv
<1>2. OthersStay(r)
  BY <1>1 DEF OthersStay, IInv
<1>3. Good(r)
  BY DEF IInv
<1>4. Typed(r)' /\ Agrees(r)' /\ EndedAlike(r)'
  BY <1>1, <1>3 DEF Good, Typed, Agrees, EndedAlike, IsRun, IsRow
<1>5. ActiveRun(r)' /\ NoRowYet(r)' /\ Whole(r)'
  BY <1>1, <1>3 DEF Good, ActiveRun, Active, NoRowYet, Whole, ErrorsAllowed
<1>6. QED
  BY <1>1, <1>2, <1>4, <1>5 DEF GoodStep, Good, EndedKept

-----------------------------------------------------------------------------
(* The steps of the coroutine of a run.                                    *)

\* A step inside a phase of the pattern.
LEMMA InActive ==
  ASSUME IInv, NEW r \in Runs, NEW pattern, In(r, pattern)
  PROVE  /\ Active(r) /\ task[r].pc = "phase" /\ task[r].kill = FALSE
         /\ DOMAIN task[r] = DOMAIN NewTask
BY DEF In, Active, IInv, Good, Typed

LEMMA SequentialGood ==
  ASSUME IInv, NEW r \in Runs, NEW pattern, In(r, pattern), NEW calls, Sequential(r, calls)
  PROVE  GoodStep(r)
<1>1. Active(r) /\ task[r].pc = "phase" /\ task[r].kill = FALSE /\ DOMAIN task[r] = DOMAIN NewTask
  BY InActive
<1>2. CASE \E result \in Results : PhaseEnds(r, result)
  BY <1>1, <1>2, PhaseEndsGood
<1>3. CASE Goes(r, Counted(r))
  <2>1. /\ DOMAIN Counted(r) = DOMAIN NewTask /\ Counted(r).phase = task[r].phase
        /\ Counted(r).kill = FALSE /\ Counted(r).pc = "phase"
    BY <1>1 DEF Counted, NewTask
  <2>2. QED
    BY <1>1, <1>3, <2>1, GoesGood
<1>4. QED
  BY <1>2, <1>3 DEF Sequential, Results

LEMMA PatternsGood ==
  ASSUME IInv, NEW r \in Runs,
         \/ exec_pipeline(r) \/ exec_judge_panel(r)
         \/ exec_parallel_barrier(r) \/ exec_adversarial_verify(r)
  PROVE  GoodStep(r)
<1>1. CASE exec_pipeline(r) \/ exec_judge_panel(r)
  BY <1>1, SequentialGood DEF exec_pipeline, exec_judge_panel
<1>2. CASE exec_parallel_barrier(r) \/ exec_adversarial_verify(r)
  <2>1. PICK pattern : In(r, pattern)
    BY <1>2 DEF exec_parallel_barrier, exec_adversarial_verify
  <2>2. PICK result \in Results : PhaseEnds(r, result)
    BY <1>2 DEF exec_parallel_barrier, exec_adversarial_verify, Results
  <2>3. QED
    BY <2>1, <2>2, InActive, PhaseEndsGood
<1>3. QED
  BY <1>1, <1>2

LEMMA LoopsGood ==
  ASSUME IInv, NEW r \in Runs, exec_loop_until_dry(r) \/ exec_loop_until_budget(r)
  PROVE  GoodStep(r)
<1>1. PICK pattern : In(r, pattern)
  BY DEF exec_loop_until_dry, exec_loop_until_budget
<1>2. Active(r) /\ task[r].pc = "phase" /\ task[r].kill = FALSE /\ DOMAIN task[r] = DOMAIN NewTask
  BY <1>1, InActive
<1>3. SUFFICES ASSUME NEW t, Goes(r, t), DOMAIN t = DOMAIN task[r], t.phase = task[r].phase,
                      t.kill = task[r].kill, t.pc = task[r].pc
               PROVE  GoodStep(r)
  <2>1. CASE \E result \in Results : PhaseEnds(r, result)
    BY <1>2, <2>1, PhaseEndsGood
  <2>2. CASE exec_loop_until_dry(r) /\ ~\E result \in Results : PhaseEnds(r, result)
    <3>1. PICK new \in BOOLEAN :
            Goes(r, [Counted(r) EXCEPT !.dry = IF new THEN 0 ELSE @ + 1, !.found = @ \/ new])
      BY <2>2 DEF exec_loop_until_dry, Results
    <3> DEFINE t == [Counted(r) EXCEPT !.dry = IF new THEN 0 ELSE @ + 1, !.found = @ \/ new]
    <3>2. /\ DOMAIN t = DOMAIN task[r] /\ t.phase = task[r].phase
          /\ t.kill = task[r].kill /\ t.pc = task[r].pc
      BY <1>2 DEF Counted, NewTask
    <3> HIDE DEF t
    <3>3. QED
      BY <1>3, <3>1, <3>2 DEF t
  <2>3. CASE exec_loop_until_budget(r) /\ ~\E result \in Results : PhaseEnds(r, result)
    <3>1. PICK cost : Goes(r, [Counted(r) EXCEPT !.charged = @ + cost])
      BY <2>3 DEF exec_loop_until_budget, Results
    <3> DEFINE t == [Counted(r) EXCEPT !.charged = @ + cost]
    <3>2. /\ DOMAIN t = DOMAIN task[r] /\ t.phase = task[r].phase
          /\ t.kill = task[r].kill /\ t.pc = task[r].pc
      BY <1>2 DEF Counted, NewTask
    <3> HIDE DEF t
    <3>3. QED
      BY <1>3, <3>1, <3>2 DEF t
  <2>4. QED
    BY <2>1, <2>2, <2>3
<1>4. QED
  BY <1>2, <1>3, GoesGood

LEMMA CancelledGood ==
  ASSUME IInv, NEW r \in Runs, Cancelled(r)
  PROVE  GoodStep(r)
<1>1. /\ r \in DOMAIN run /\ IsRun(run[r]) /\ run[r].status = "cancelled"
      /\ r \in DOMAIN row /\ row[r].status \in Terminal => row[r].status = "cancelled"
  BY DEF Cancelled, IInv, Good, Typed, EndedAlike, ActiveRun
<1> DEFINE o == [run[r] EXCEPT !.status = "cancelled"]
<1>2. IsRun(o) /\ o.status = "cancelled"
  BY <1>1 DEF IsRun
<1>3. Returns(r, o, {})
  BY DEF Cancelled
<1> HIDE DEF o
<1>4. QED
  BY <1>1, <1>2, <1>3, ReturnsGood

LEMMA PassGateGood ==
  ASSUME IInv, NEW r \in Runs, PassGate(r)
  PROVE  GoodStep(r)
<1> DEFINE t == [task[r] EXCEPT !.pc = "phase"]
           o == Entering(run[r], task[r])
<1>1. /\ Active(r) /\ task[r].pc = "woken" /\ task[r].kill = FALSE /\ Good(r)
      /\ r \in DOMAIN run /\ IsRun(run[r])
      /\ run' = [run EXCEPT ![r] = o] /\ task' = [task EXCEPT ![r] = t]
      /\ row' = row /\ unsaved' = unsaved
  BY DEF PassGate, Active, IInv, Good, Typed, ActiveRun
<1>2. /\ DOMAIN t = DOMAIN NewTask /\ t.phase = task[r].phase /\ t.kill = FALSE /\ t.pc = "phase"
      /\ IsRun(o) /\ o.status = run[r].status /\ o.results = run[r].results
      /\ o.current = task[r].phase - 1
  BY <1>1 DEF NewTask, IsRun, Entering, Good, Typed
<1> HIDE DEF t, o
<1>3. DOMAIN run' = DOMAIN run /\ run'[r] = o /\ task'[r] = t
  BY <1>1 DEF IInv
<1>4. OthersStay(r)
  BY <1>1 DEF OthersStay, IInv
<1>5. Typed(r)' /\ EndedAlike(r)'
  BY <1>1, <1>2, <1>3 DEF Good, Typed, EndedAlike
<1>6. Agrees(r)'
  BY <1>1, <1>2, <1>3 DEF Good, Typed, Agrees, ActiveRun
<1>7. ActiveRun(r)' /\ NoRowYet(r)' /\ Whole(r)'
  BY <1>1, <1>2, <1>3 DEF Good, ActiveRun, Active, NoRowYet, Whole, ErrorsAllowed
<1>8. QED
  BY <1>1, <1>4, <1>5, <1>6, <1>7 DEF GoodStep, Good, EndedKept

LEMMA StartGood ==
  ASSUME IInv, NEW r \in Runs, Start(r)
  PROVE  GoodStep(r) /\ QueueOK'
<1>1. /\ queue \in Seq(Runs) /\ queue # <<>> /\ Head(queue) = r /\ queue' = Tail(queue)
  BY DEF Start, IInv, QueueOK
<1>2. /\ Len(queue) \in Nat \ {0} /\ queue[1] = r /\ queue' \in Seq(Runs)
      /\ Len(queue') = Len(queue) - 1 /\ \A i \in 1..Len(queue') : queue'[i] = queue[i + 1]
  BY <1>1, HeadTailProperties, EmptySeq
<1>3. task[r].pc = "queued" /\ r \notin DOMAIN row
  BY <1>2 DEF IInv, QueueOK, Good, NoRowYet
<1>4. /\ IsRun(NewRun) /\ NewRun.status = "running" /\ NewRun.results = <<>>
      /\ NewRun.current = 0
  BY DEF NewRun, IsRun
<1>5. DOMAIN NewTask = DOMAIN NewTask /\ NewTask.phase = 1 /\ NewTask.kill = FALSE
  BY DEF NewTask
<1>6. Len(Phases[r]) \in Nat /\ Len(<<>>) = 0 /\ ErrorsAllowed(r, <<>>)
  BY PhasesAssumption, LenProperties DEF ErrorsAllowed
<1>7. GoodStep(r)
  <2>1. NextPhase(r, NewRun, NewTask) /\ Going(r)
    BY <1>3 DEF Start, Going
  <2>2. /\ NewTask.phase \in Nat \ {0} /\ NewTask.phase <= Len(Phases[r]) + 1
        /\ Len(NewRun.results) = NewTask.phase - 1 /\ ErrorsAllowed(r, NewRun.results)
        /\ NewRun.current \in {NewTask.phase - 2, NewTask.phase - 1}
    BY <1>4, <1>5, <1>6
  <2>3. NewRun.status \in {"running", "paused"} /\ NewTask.kill = FALSE /\ IsRun(NewRun)
    BY <1>4, <1>5
  <2>4. QED
    BY <2>1, <2>2, <2>3, NextPhaseGood
<1>8. QueueOK'
  <2>1. \A i \in 1..Len(queue') : i + 1 \in 1..Len(queue) /\ queue'[i] \in Runs \ {r}
    BY <1>2, ElementOfSeq DEF IInv, QueueOK
  <2>2. \A i \in 1..Len(queue') : task'[queue'[i]].pc = "queued"
    BY <1>2, <1>7, <2>1 DEF IInv, QueueOK, GoodStep, OthersStay
  <2>3. \A i, j \in 1..Len(queue') : queue'[i] = queue'[j] => i = j
    BY <1>2, <2>1 DEF IInv, QueueOK
  <2>4. QED
    BY <1>2, <2>2, <2>3 DEF QueueOK
<1>9. QED
  BY <1>7, <1>8

-----------------------------------------------------------------------------
(* The calls of the clients, and the crash.                                *)

\* What _restore_run returns is the object, or agrees with the row.
LEMMA Restored ==
  ASSUME IInv, NEW r \in Runs, Known(r)
  PROVE  /\ IsRun(_restore_run(r))
         /\ r \in DOMAIN run => _restore_run(r) = run[r]
         /\ r \notin DOMAIN run => r \in DOMAIN row /\ RowOf(_restore_run(r)) = row[r]
         /\ _restore_run(r).status \notin Terminal => Going(r)
         /\ task[r].pc \notin {"idle", "queued"}
<1>1. /\ Typed(r) /\ EndedAlike(r) /\ NoRowYet(r)
      /\ r \in DOMAIN run \/ r \in DOMAIN row
  BY DEF IInv, Good, Known
<1>2. CASE r \in DOMAIN run
  BY <1>1, <1>2 DEF _restore_run, Typed, EndedAlike, NoRowYet, Going
<1>3. CASE r \notin DOMAIN run
  <2>1. r \in DOMAIN row /\ IsRow(row[r])
    BY <1>1, <1>3 DEF Typed
  <2>2. _restore_run(r) = [NewRun EXCEPT !.status = row[r].status, !.results = row[r].results,
                                         !.current = row[r].current]
    BY <1>3 DEF _restore_run
  <2>3. /\ _restore_run(r).status = row[r].status /\ _restore_run(r).results = row[r].results
        /\ _restore_run(r).current = row[r].current
        /\ DOMAIN _restore_run(r) = {"status", "results", "current", "flag", "gate"}
    BY <2>2 DEF NewRun
  <2>4. QED
    BY <1>1, <1>3, <2>1, <2>3 DEF IsRow, IsRun, RowOf, NoRowYet, Going
<1>4. QED
  BY <1>2, <1>3

\* A client changes the object of r, which has not ended, and tells its task.
LEMMA ClientGood ==
  ASSUME IInv, NEW r \in Runs, NEW o, Persisted(r, o), IsRun(o), Going(r),
         r \in DOMAIN run => o.results = run[r].results /\ o.current = run[r].current,
         o.status # "completed",
         OthersStay(r), NEW t, task'[r] = t,
         DOMAIN t = DOMAIN NewTask, t.phase = task[r].phase, t.kill \in BOOLEAN,
         t.pc = task[r].pc \/ (task[r].pc = "blocked" /\ t.pc = "woken"),
         task[r].pc \notin {"idle", "queued"},
         Active(r) => IF t.kill THEN o.status = "cancelled" ELSE o.status \in {"running", "paused"}
  PROVE  GoodStep(r)
<1>1. run' = With(run, r, o) /\ Saves(r, o, {})
  BY DEF Persisted
<1>2. r \in DOMAIN run' /\ run'[r] = o
  BY <1>1 DEF With
<1>3. /\ r \in DOMAIN row' => IsRow(row'[r])
      /\ r \in DOMAIN row' /\ row'[r].status \in Terminal => row'[r].status = o.status
      /\ r \notin unsaved' => r \in DOMAIN row' /\ row'[r] = RowOf(o)
      /\ Whole(r)' /\ EndedKept(r)
  BY <1>1, SavedRow DEF Going
<1>4. Good(r)
  BY DEF IInv
<1>5. Typed(r)' /\ EndedAlike(r)'
  <2>1. DOMAIN task'[r] = DOMAIN NewTask /\ task'[r].phase \in Nat \ {0}
    BY <1>2, <1>4 DEF Good, Typed
  <2>2. task'[r].kill \in BOOLEAN
    BY <1>2
  <2>3. QED
    BY <1>2, <1>3, <2>1, <2>2 DEF Typed, EndedAlike
<1>6. Agrees(r)'
  BY <1>2, <1>3 DEF Agrees, RowOf
<1>7. ActiveRun(r)'
  <2>1. SUFFICES ASSUME Active(r)' PROVE ActiveRun(r)'
    BY DEF ActiveRun
  <2>2. Active(r) /\ r \in DOMAIN run
    BY <1>2, <1>4, <2>1 DEF Active, Good, ActiveRun
  <2>3. ErrorsAllowed(r, run[r].results)' <=> ErrorsAllowed(r, run[r].results)
    BY <1>2, <2>2 DEF ErrorsAllowed
  <2>4. /\ r \in DOMAIN run'
        /\ IF task'[r].kill THEN run'[r].status = "cancelled"
           ELSE run'[r].status \in {"running", "paused"}
    BY <1>2, <2>2
  <2>5. /\ task[r].phase <= Len(Phases[r])
        /\ Len(run[r].results) = task[r].phase - 1
        /\ ErrorsAllowed(r, run[r].results)
        /\ IF task[r].pc = "phase" THEN run[r].current = task[r].phase - 1
           ELSE run[r].current \in {task[r].phase - 2, task[r].phase - 1}
    BY <1>4, <2>2 DEF Good, ActiveRun
  <2>6. task'[r].phase = task[r].phase /\ (task'[r].pc = "phase" <=> task[r].pc = "phase")
    BY <1>2
  <2>7. run'[r].results = run[r].results /\ run'[r].current = run[r].current
    BY <1>2, <2>2
  <2>8. QED
    BY <2>3, <2>4, <2>5, <2>6, <2>7 DEF ActiveRun
<1>8. NoRowYet(r)'
  BY <1>2 DEF NoRowYet
<1>9. QED
  BY <1>2, <1>3, <1>5, <1>6, <1>7, <1>8 DEF GoodStep, Good

LEMMA PauseGood ==
  ASSUME IInv, NEW r \in Runs, pause_run(r)
  PROVE  GoodStep(r)
<1> DEFINE u == _restore_run(r)
           o == [u EXCEPT !.gate = FALSE, !.status = "paused"]
           t == task[r]
<1>1. /\ IsRun(u) /\ (r \in DOMAIN run => u = run[r]) /\ (u.status \notin Terminal => Going(r))
      /\ task[r].pc \notin {"idle", "queued"}
  BY Restored DEF pause_run
<1>2. u.status = "running" /\ Persisted(r, o) /\ task' = task
  BY DEF pause_run
<1> HIDE DEF u
<1>3. /\ IsRun(o) /\ o.status = "paused" /\ Going(r)
      /\ o.results = u.results /\ o.current = u.current
  BY <1>1, <1>2 DEF IsRun, Terminal
<1> HIDE DEF o
<1>4. Typed(r) /\ ActiveRun(r)
  BY DEF IInv, Good
<1>5. /\ DOMAIN t = DOMAIN NewTask /\ t.phase = task[r].phase /\ t.kill \in BOOLEAN
      /\ t.pc = task[r].pc
  BY <1>4 DEF Typed
<1>6. Active(r) => t.kill = FALSE
  BY <1>1, <1>2, <1>4 DEF ActiveRun, Typed
<1>7. OthersStay(r) /\ task'[r] = t
  <2>1. /\ DOMAIN run' = DOMAIN run \cup {r}
        /\ \A q \in DOMAIN run \ {r} : run'[q] = run[q]
    BY <1>2 DEF Persisted, With
  <2>2. /\ DOMAIN row \subseteq DOMAIN row' /\ DOMAIN row' \subseteq DOMAIN row \cup {r}
        /\ \A q \in DOMAIN row \ {r} : row'[q] = row[q]
        /\ \A q \in Runs \ {r} : q \in unsaved' <=> q \in unsaved
    BY <1>2, Saved DEF Persisted
  <2>3. QED
    BY <1>2, <2>1, <2>2 DEF IInv, OthersStay
<1> HIDE DEF t
<1>8. QED
  BY <1>1, <1>2, <1>3, <1>5, <1>6, <1>7, ClientGood

LEMMA ResumeGood ==
  ASSUME IInv, NEW r \in Runs, resume_run(r)
  PROVE  GoodStep(r)
<1> DEFINE u == _restore_run(r)
           o == [u EXCEPT !.gate = TRUE, !.status = "running"]
           t == [task[r] EXCEPT !.pc = Opened(r)]
<1>1. /\ IsRun(u) /\ (r \in DOMAIN run => u = run[r]) /\ (u.status \notin Terminal => Going(r))
      /\ task[r].pc \notin {"idle", "queued"}
  BY Restored DEF resume_run
<1>2. u.status = "paused" /\ Persisted(r, o) /\ task' = [task EXCEPT ![r] = t]
  BY DEF resume_run
<1> HIDE DEF u
<1>3. /\ IsRun(o) /\ o.status = "running" /\ Going(r)
      /\ o.results = u.results /\ o.current = u.current
  BY <1>1, <1>2 DEF IsRun, Terminal
<1> HIDE DEF o
<1>4. Typed(r) /\ ActiveRun(r)
  BY DEF IInv, Good
<1>5. /\ DOMAIN t = DOMAIN NewTask /\ t.phase = task[r].phase /\ t.kill = task[r].kill
      /\ t.pc = Opened(r)
  BY <1>4 DEF Typed, NewTask
<1> HIDE DEF t
<1>6. t.kill \in BOOLEAN /\ (t.pc = task[r].pc \/ (task[r].pc = "blocked" /\ t.pc = "woken"))
  BY <1>4, <1>5 DEF Opened, Typed
<1>7. Active(r) => t.kill = FALSE
  BY <1>1, <1>2, <1>4, <1>5 DEF ActiveRun, Typed
<1>8. OthersStay(r) /\ task'[r] = t
  BY <1>2, SavedOthers DEF Persisted
<1>9. QED
  BY <1>1, <1>2, <1>3, <1>5, <1>6, <1>7, <1>8, ClientGood

LEMMA CancelGood ==
  ASSUME IInv, NEW r \in Runs, cancel_run(r)
  PROVE  GoodStep(r)
<1> DEFINE u == _restore_run(r)
           o == [u EXCEPT !.flag = TRUE, !.status = "cancelled",
                          !.gate = @ \/ u.status = "paused"]
           t == Killed(r)
<1>1. /\ IsRun(u) /\ (r \in DOMAIN run => u = run[r]) /\ (u.status \notin Terminal => Going(r))
      /\ task[r].pc \notin {"idle", "queued"}
  BY Restored DEF cancel_run
<1>2. u.status \in {"running", "paused"} /\ Persisted(r, o) /\ task' = [task EXCEPT ![r] = t]
  BY DEF cancel_run
<1> HIDE DEF u
<1>3. /\ IsRun(o) /\ o.status = "cancelled" /\ Going(r)
      /\ o.results = u.results /\ o.current = u.current
  BY <1>1, <1>2 DEF IsRun, Terminal
<1> HIDE DEF o
<1>4. Typed(r)
  BY DEF IInv, Good
<1>5. /\ DOMAIN t = DOMAIN NewTask /\ t.phase = task[r].phase
      /\ t.kill = Active(r) /\ t.pc = Opened(r)
  BY <1>4 DEF Typed, NewTask, Killed
<1> HIDE DEF t
<1>6. t.pc = task[r].pc \/ (task[r].pc = "blocked" /\ t.pc = "woken")
  BY <1>5 DEF Opened
<1>7. Active(r) \in BOOLEAN
  BY DEF Active
<1>8. t.kill \in BOOLEAN /\ (Active(r) => t.kill)
  BY <1>5, <1>7, Zenon
<1>9. OthersStay(r) /\ task'[r] = t
  BY <1>2, SavedOthers DEF Persisted
<1>10. QED
  BY <1>1, <1>2, <1>3, <1>5, <1>6, <1>8, <1>9, ClientGood

LEMMA StatusGood ==
  ASSUME IInv, NEW r \in Runs, get_run_status(r)
  PROVE  GoodStep(r)
<1>1. /\ r \in DOMAIN row /\ r \notin DOMAIN run /\ IsRun(_restore_run(r))
      /\ RowOf(_restore_run(r)) = row[r] /\ task[r].pc \notin {"idle", "queued"}
  BY Restored DEF get_run_status, Known
<1>2. /\ DOMAIN run' = DOMAIN run \cup {r} /\ run'[r] = _restore_run(r)
      /\ \A q \in DOMAIN run \ {r} : run'[q] = run[q]
      /\ row' = row /\ task' = task /\ unsaved' = unsaved
  BY DEF get_run_status, With
<1>3. OthersStay(r)
  BY <1>2 DEF OthersStay, IInv
<1>4. Good(r)
  BY DEF IInv
<1>5. Typed(r)' /\ Agrees(r)' /\ EndedAlike(r)'
  BY <1>1, <1>2, <1>4 DEF Good, Typed, Agrees, EndedAlike, RowOf
<1>6. ActiveRun(r)' /\ NoRowYet(r)' /\ Whole(r)'
  BY <1>1, <1>2, <1>4 DEF Good, ActiveRun, Active, NoRowYet, Whole, ErrorsAllowed
<1>7. QED
  BY <1>2, <1>3, <1>5, <1>6 DEF GoodStep, Good, EndedKept

LEMMA ExecuteGood ==
  ASSUME IInv, NEW r \in Runs, execute_workflow(r)
  PROVE  GoodStep(r) /\ QueueOK'
<1>1. Good(r) /\ task[r].pc = "idle"
  BY DEF IInv, execute_workflow
<1>2. /\ run' = run /\ row' = row /\ unsaved' = unsaved
      /\ task' = [task EXCEPT ![r] = [task[r] EXCEPT !.pc = "queued"]]
  BY DEF execute_workflow
<1>3. OthersStay(r) /\ task'[r] = [task[r] EXCEPT !.pc = "queued"]
  BY <1>2 DEF OthersStay, IInv
<1>4. /\ task'[r].pc = "queued" /\ DOMAIN task'[r] = DOMAIN NewTask
      /\ task'[r].phase = task[r].phase /\ task'[r].kill = task[r].kill
  BY <1>1, <1>3 DEF Good, Typed, NewTask
<1>5. Good(r)'
  <2>1. Typed(r)' /\ Agrees(r)' /\ EndedAlike(r)'
    BY <1>1, <1>2, <1>4 DEF Good, Typed, Agrees, EndedAlike, NoRowYet
  <2>2. ActiveRun(r)' /\ NoRowYet(r)' /\ Whole(r)'
    BY <1>1, <1>2, <1>4 DEF Good, ActiveRun, Active, NoRowYet, Whole, ErrorsAllowed
  <2>3. QED
    BY <2>1, <2>2 DEF Good
<1>6. /\ queue \in Seq(Runs) /\ queue' = Append(queue, r) /\ queue' \in Seq(Runs)
      /\ Len(queue) \in Nat /\ Len(queue') = Len(queue) + 1
      /\ \A i \in 1..Len(queue) : queue'[i] = queue[i] /\ queue[i] \in Runs
      /\ queue'[Len(queue) + 1] = r
  BY AppendProperties, LenProperties, ElementOfSeq DEF execute_workflow, IInv, QueueOK
<1>7. \A i \in 1..Len(queue) : queue[i] # r /\ task'[queue[i]].pc = "queued"
  BY <1>1, <1>3, <1>6 DEF IInv, QueueOK, OthersStay
<1>8. \A i \in 1..Len(queue') : i \in 1..Len(queue) \/ i = Len(queue) + 1
  BY <1>6
<1>9. QueueOK'
  BY <1>4, <1>6, <1>7, <1>8 DEF IInv, QueueOK
<1>10. QED
  BY <1>2, <1>3, <1>5, <1>9 DEF GoodStep, EndedKept

LEMMA CrashGood ==
  ASSUME IInv, Crash
  PROVE  IInv' /\ row' = row
<1>1. /\ DOMAIN run' = {} /\ queue' = <<>> /\ row' = row /\ DOMAIN task' = Runs
      /\ unsaved' = {}
      /\ \A r \in Runs : task'[r] = IF task[r].pc = "idle" THEN task[r]
                                    ELSE [NewTask EXCEPT !.pc = "done"]
  BY DEF Crash
<1>2. QueueOK'
  BY <1>1, EmptySeq DEF QueueOK
<1>3. ASSUME NEW r \in Runs PROVE Good(r)'
  <2>1. Good(r)
    BY DEF IInv
  <2>2. Typed(r)' /\ Agrees(r)' /\ EndedAlike(r)'
    <3>1. /\ DOMAIN task'[r] = DOMAIN NewTask /\ task'[r].phase \in Nat \ {0}
          /\ task'[r].kill \in BOOLEAN
      <4>1. CASE task[r].pc = "idle"
        BY <1>1, <2>1, <4>1 DEF Good, Typed
      <4>2. CASE task[r].pc # "idle"
        <5>1. task'[r] = [NewTask EXCEPT !.pc = "done"]
          BY <1>1, <4>2
        <5>2. DOMAIN task'[r] = DOMAIN NewTask /\ task'[r].phase = 1 /\ task'[r].kill = FALSE
          BY <5>1 DEF NewTask
        <5>3. task'[r].kill \in BOOLEAN
          BY <5>2, Zenon
        <5>4. QED
          BY <5>2, <5>3
      <4>3. QED
        BY <4>1, <4>2
    <3>2. r \notin DOMAIN run' /\ (r \in DOMAIN row' => IsRow(row'[r]))
      BY <1>1, <2>1 DEF Good, Typed
    <3>3. QED
      BY <1>1, <3>1, <3>2 DEF Typed, Agrees, EndedAlike
  <2>3. ActiveRun(r)' /\ NoRowYet(r)' /\ Whole(r)'
    BY <1>1, <2>1 DEF Good, ActiveRun, Active, NoRowYet, Whole, NewTask, ErrorsAllowed
  <2>4. QED
    BY <2>2, <2>3 DEF Good
<1>4. QED
  BY <1>1, <1>2, <1>3 DEF IInv

-----------------------------------------------------------------------------
(* The invariant.                                                          *)

LEMMA Initially == Init => IInv
<1> SUFFICES ASSUME Init PROVE IInv
  OBVIOUS
<1>1. /\ DOMAIN run = {} /\ DOMAIN row = {} /\ queue = <<>> /\ unsaved = {}
      /\ task = [r \in Runs |-> NewTask]
  BY DEF Init
<1>2. NewTask.pc = "idle" /\ NewTask.phase = 1 /\ NewTask.kill = FALSE
  BY DEF NewTask
<1>3. ASSUME NEW r \in Runs PROVE Good(r)
  <2>1. task[r] = NewTask /\ task[r].kill \in BOOLEAN
    BY <1>1, <1>2
  <2>2. QED
    BY <1>1, <1>2, <2>1 DEF Good, Typed, Agrees, EndedAlike, ActiveRun, Active, NoRowYet, Whole
<1>4. QED
  BY <1>1, <1>3, EmptySeq DEF IInv, QueueOK

\* A step of one run, and the queue.
LEMMA StepKeeps ==
  ASSUME IInv, NEW r \in Runs, GoodStep(r), QueueOK'
  PROVE  IInv' /\ \A q \in Runs : EndedKept(q)
<1>1. ASSUME NEW q \in Runs PROVE Good(q)' /\ EndedKept(q)
  <2>1. CASE q = r
    BY <2>1 DEF GoodStep
  <2>2. CASE q # r
    BY <2>2, OthersGood DEF GoodStep, IInv
  <2>3. QED
    BY <2>1, <2>2
<1>2. QED
  BY <1>1 DEF IInv, GoodStep, OthersStay

LEMMA NextKeeps ==
  ASSUME IInv, [Next]_vars
  PROVE  IInv' /\ \A q \in Runs : EndedKept(q)
<1>1. CASE Crash
  BY <1>1, CrashGood DEF EndedKept
<1>2. ASSUME NEW r \in Runs, Start(r) \/ execute_workflow(r)
      PROVE  IInv' /\ \A q \in Runs : EndedKept(q)
  BY <1>2, StartGood, ExecuteGood, StepKeeps
<1>3. ASSUME NEW r \in Runs, Step(r) /\ ~Start(r)
      PROVE  IInv' /\ \A q \in Runs : EndedKept(q)
  <2>1. GoodStep(r)
    BY <1>3, PassGateGood, CancelledGood, PatternsGood, LoopsGood DEF Step
  <2>2. queue' = queue /\ Active(r)
    BY <1>3 DEF Step, PassGate, Cancelled, exec_pipeline, exec_parallel_barrier,
                exec_loop_until_dry, exec_loop_until_budget, exec_adversarial_verify,
                exec_judge_panel, In, Active
  <2>3. QueueOK'
    BY <2>1, <2>2, QueueStays DEF GoodStep, Active
  <2>4. QED
    BY <2>1, <2>3, StepKeeps
<1>4. ASSUME NEW r \in Runs,
             pause_run(r) \/ resume_run(r) \/ cancel_run(r) \/ get_run_status(r)
      PROVE  IInv' /\ \A q \in Runs : EndedKept(q)
  <2>1. GoodStep(r)
    BY <1>4, PauseGood, ResumeGood, CancelGood, StatusGood
  <2>2. queue' = queue /\ Known(r)
    BY <1>4 DEF pause_run, resume_run, cancel_run, get_run_status, Known
  <2>3. QueueOK'
    BY <2>1, <2>2, Restored, QueueStays DEF GoodStep
  <2>4. QED
    BY <2>1, <2>3, StepKeeps
<1>5. CASE UNCHANGED vars
  BY <1>5 DEF vars, IInv, QueueOK, Good, Typed, Agrees, EndedAlike, ActiveRun, Active, NoRowYet,
              Whole, ErrorsAllowed, EndedKept
<1>6. QED
  BY <1>1, <1>2, <1>3, <1>4, <1>5 DEF Next

\* The invariant of the engine (workflow_engine.py:299,
\* _execute_workflow_inner).
THEOREM Inductive == Spec => []IInv
<1>1. IInv /\ [Next]_vars => IInv'
  BY NextKeeps
<1>2. QED
  BY <1>1, Initially, PTL DEF Spec

\* At every await the row of a run whose last save has not failed says what its
\* object says, the number of the phase lagging by one inside a phase
\* (workflow_engine.py:339, _persist_run; 385, current_phase).
THEOREM RowsAgree == Spec => []RowAgrees
<1>1. IInv => RowAgrees
  BY DEF IInv, Good, Agrees, RowAgrees
<1>2. QED
  BY <1>1, Inductive, PTL

\* A run that has completed went through all its phases, none of which failed
\* without being allowed to (workflow_engine.py:368, _execute_phases).
THEOREM CompletedRunsAreWhole == Spec => []CompletedIsWhole
<1>1. IInv => CompletedIsWhole
  <2>1. ASSUME IInv, NEW r \in DOMAIN row, row[r].status = "completed"
        PROVE  /\ Len(row[r].results) = Len(Phases[r])
               /\ \A i \in DOMAIN Phases[r] :
                    row[r].results[i] = "error" => Phases[r][i].continue_on_error
    <3>1. r \in Runs /\ Whole(r)
      BY <2>1 DEF IInv, Good
    <3>2. DOMAIN Phases[r] = 1..Len(Phases[r])
      BY <3>1, PhasesAssumption, LenProperties
    <3>3. QED
      BY <2>1, <3>1, <3>2 DEF Whole, ErrorsAllowed
  <2>2. QED
    BY <2>1 DEF CompletedIsWhole
<1>2. QED
  BY <1>1, Inductive, PTL

\* No answer of an agent, no pause, resume or cancel and no restart changes a
\* terminal status (workflow_engine.py:841, pause_run, resume_run, cancel_run).
THEOREM EndedRunsStay == Spec => EndedStaysEnded
<1> DEFINE Kept == \A r \in DOMAIN row :
                     row[r].status \in Terminal =>
                       /\ row'[r].status = row[r].status
                       /\ r \in DOMAIN run' => run'[r].status = row[r].status
<1>1. IInv /\ [Next]_vars => [Kept]_vars
  <2>1. ASSUME IInv, [Next]_vars, NEW r \in DOMAIN row, row[r].status \in Terminal
        PROVE  /\ row'[r].status = row[r].status
               /\ r \in DOMAIN run' => run'[r].status = row[r].status
    <3>1. r \in Runs /\ IInv' /\ EndedKept(r)
      BY <2>1, NextKeeps DEF IInv
    <3>2. EndedAlike(r)'
      BY <3>1 DEF IInv, Good
    <3>3. QED
      BY <2>1, <3>1, <3>2 DEF EndedKept, EndedAlike
  <2>2. QED
    BY <2>1
<1>2. QED
  BY <1>1, Inductive, PTL DEF Spec, EndedStaysEnded
=============================================================================
