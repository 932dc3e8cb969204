------------------------ MODULE MCWorkflowEngine --------------------------
(***************************************************************************)
(* Two workflows, with a phase of each pattern, for WorkflowEngine.        *)
(***************************************************************************)
EXTENDS WorkflowEngine

Of(pattern, agents, continue) ==
  [pattern |-> pattern, agents |-> agents, continue_on_error |-> continue, items |-> 1,
   max_iterations |-> 3, dry_threshold |-> 2, threshold |-> 60,
   budget |-> 2, cost_per_iteration |-> 1]

MCPhases ==
  [r \in Runs |->
     CASE r = "w1" -> <<Of("pipeline", 2, TRUE), Of("loop_until_budget", 1, FALSE), Of("judge_panel", 1, FALSE)>>
       [] r = "w2" -> <<Of("parallel_barrier", 2, FALSE), Of("loop_until_dry", 1, FALSE), Of("adversarial_verify", 2, FALSE)>>]
=============================================================================
