--------------------------- MODULE GraphRuntime ---------------------------
(***************************************************************************)
(* The runtime of agent graphs (AgentRuntime: agent_runtime/runtime.py and *)
(* the mixins _runtime_nodes.py, _runtime_safety.py, _runtime_checkpoint   *)
(* .py): executions of saved graphs, the calls of the model and of tools,  *)
(* approvals and human input on futures, sub-runtimes of sub-flows and of  *)
(* parallel branches, checkpoints, cancellation, crash and resume.         *)
(*                                                                         *)
(* A run is a sequence: <<r>> is the execution r on the daemon's runtime,  *)
(* Append(e, i) the i-th sub-runtime that the node of run e starts.        *)
(***************************************************************************)
EXTENDS AgentGraph

CONSTANTS
  Roots,          \* executions: graph.execute and graph.resume calls
  Sessions,       \* session ids
  Flows,          \* ids of the saved graphs that are executed
  GraphOf,        \* their graphs, with name, stop_on_tool_error and plan_mode
  FlowOf,         \* the graph a sub_flow or iteration node, or Sub, runs
  Rounds,         \* items of an iteration, max_iterations of a loop,
                  \* max_loop_iterations of an agent node
  Back,           \* loop_start_node of the loop nodes
  Agents,         \* llm nodes with loop_mode "agent"
  AtOnce,         \* llm nodes with parallel_tool_calls
  Retries,        \* max_retries of the llm and rag nodes with
                  \* retry_on_error, and of the error handlers
  Labelled,       \* nodes that have their id as label
  Gated,          \* planner nodes with await_approval
  Resident,       \* verify nodes that are standing reviewers
  OnError,        \* condition nodes that ask has_error
  Captured,       \* tool nodes with post_action_capture
  Asserted,       \* those with an assertion, a function for it being registered
  Replies,        \* the sequences of tools the model may call at a node
  Verdicts,       \* what the admission of a tool or model call may say
  ReadOnly,       \* tools that plan mode admits
  Sub, ExitPlan,  \* the tools __sub_graph__ and exit_plan_mode
  Screenshot,     \* the tool registered as screenshot
  AutoCheckpoint, \* auto_checkpoint of the runtime
  Budgeted,       \* a token budget is set
  TimeoutApproves,\* FUSION_SAFETY_TIMEOUT_DISPOSITION is "approve"
  MaxIter,        \* max_iterations of a run
  MaxChain,       \* _MAX_TOOL_CALL_CHAIN
  MaxDepth,       \* FUSION_SUB_GRAPH_MAX_DEPTH
  MaxCrash,       \* bound: crashes of the daemon
  Starts          \* bound: the graphs each execution may be of

VARIABLES
  run,      \* the runs that exist
  ckpt,     \* the latest checkpoint of a graph in a session
  crashes   \* crashes so far
vars == <<run, ckpt, crashes>>

ASSUME BoundsAssumption == {MaxIter, MaxChain, MaxDepth, MaxCrash} \subseteq Nat
\* A graph is saved, and executed, under its own name.
ASSUME FlowsAssumption == /\ \A f \in Flows : GraphOf[f].name = f
                          /\ \A r \in Roots : Starts[r] \subseteq Flows

\* The function f, but v at k.
With(f, k, v) == [x \in DOMAIN f \cup {k} |-> IF x = k THEN v ELSE f[x]]

NoAsk == [status |-> "none", fut |-> "none"]

\* An execution at its entry: graph g in session s, read-only when plan or
\* when the graph says so, with the variables values.
Entered(g, s, plan, values) ==
  [g |-> g, sess |-> s, pc |-> IF IsValid(g) THEN "node" ELSE "done",
   out |-> IF IsValid(g) THEN "none" ELSE "error",
   node |-> g.start, iter |-> 0, chain |-> 0, loop |-> 0, item |-> 0,
   last |-> "user", calls |-> <<>>, phase |-> "main", tries |-> 0, failed |-> FALSE,
   bare |-> FALSE, err |-> FALSE, blame |-> NoNode, home |-> NoNode, attempt |-> 0,
   plan |-> plan \/ g.plan, vals |-> values, ask |-> NoAsk, human |-> "none",
   \* history: model calls, tools run (Noted), a tool failed
   hops |-> 0, did |-> {}, bad |-> FALSE]

\* The nodes that keep a value in the variables: answers and loop counters.
Valued == {n \in UNION {NodesOf(GraphOf[f]) : f \in Flows} :
             \E f \in Flows : n \in NodesOf(GraphOf[f])
                              /\ GraphOf[f].kind[n] \in {"human_input", "loop"}}
NoValues == [n \in Valued |-> 0]

Init == /\ run = <<>> /\ ckpt = <<>>
        /\ crashes = 0

Live(e) == e \in DOMAIN run /\ run[e].pc # "done"
At(e, kinds) == Live(e) /\ run[e].pc = "node" /\ run[e].node # NoNode
                /\ run[e].iter < MaxIter /\ run[e].g.kind[run[e].node] \in kinds
Children(e) == {c \in DOMAIN run : Len(c) = Len(e) + 1 /\ IsPrefix(e, c)}
Tree(e) == {c \in DOMAIN run : IsPrefix(e, c)}

-----------------------------------------------------------------------------
\* *Mistake*: the futures of a run that ended stay pending.
Unreaped(r) == r

\* The pending future of an approval, of a tool or a plan, is cancelled when
\* its runtime reaps it.
Reaped(r) ==
  [r EXCEPT !.ask.fut = IF @ = "waiting" THEN "cancelled" ELSE @,
            !.human = IF r.pc = "plan" /\ @ = "waiting" THEN "cancelled" ELSE @]

\* The futures _reap_exec_futures cancels when e ends: the ones registered
\* under its session id on its runtime, which all executions share.
SharesFutures(e, c) ==
  c = e \/ (Len(c) = 1 /\ Len(e) = 1 /\ run[c].sess = run[e].sess)

\* Run e ends as r with the given outcome, and with it its sub-runtimes.
Ends(e, r, outcome) ==
  run' = [c \in DOMAIN run \ (Tree(e) \ {e}) |->
            IF c = e THEN Reaped([r EXCEPT !.pc = "done", !.out = outcome])
            ELSE IF SharesFutures(e, c) THEN Reaped(run[c]) ELSE run[c]]

Becomes(e, r) == run' = [run EXCEPT ![e] = r]
\* The sub-runtimes of e have ended.
Joins(e, r) == run' = [c \in DOMAIN run \ Children(e) |-> IF c = e THEN r ELSE run[c]]

\* The run goes on at node n.
Goto(r, n) == [r EXCEPT !.node = n, !.pc = "node", !.loop = 0, !.item = 0, !.calls = <<>>,
                        !.phase = "main", !.tries = 0, !.failed = FALSE, !.bare = FALSE]
Advance(r) == Goto(r, get_next_node(r.g, r.node, ""))

\* *Mistake*: the pause is not saved.
Unsaved(r) == ckpt

\* A branch graph has a name of its own, under which nothing is resumed.
Saved(r) == IF r.g.name \notin Flows THEN ckpt
            ELSE With(ckpt, <<r.g.name, r.sess>>, [iter |-> r.iter, vals |-> r.vals])
AutoSaved(r) == IF AutoCheckpoint THEN Saved(r) ELSE ckpt

-----------------------------------------------------------------------------
\* graph.execute: the graph f runs in session s.
Execute(e, f, s) ==
  /\ e \notin DOMAIN run
  /\ run' = With(run, e, Entered(GraphOf[f], s, FALSE, NoValues))
  /\ UNCHANGED <<ckpt, crashes>>

\* The run of a checkpoint c: the dispatch starts at the start node again, and
\* counts the chain of tool calls from zero, whatever was saved of it.
Restored(c, f, s, answers) ==
  [Entered(GraphOf[f], s, FALSE, [n \in Valued |-> IF n \in answers THEN 1 ELSE c.vals[n]])
     EXCEPT !.iter = c.iter]

\* resume_from_checkpoint, with decisions for some of the human_input nodes.
Resume(e, f, s, answers) ==
  /\ e \notin DOMAIN run
  /\ <<f, s>> \in DOMAIN ckpt
  /\ run' = With(run, e, Restored(ckpt[<<f, s>>], f, s, answers))
  /\ UNCHANGED <<ckpt, crashes>>

\* The loop of the dispatch is left: the cap is an error, the end of the
\* path without an end node is not.
LeaveLoop(e) ==
  /\ Live(e) /\ run[e].pc = "node"
  /\ \/ run[e].iter >= MaxIter /\ Ends(e, run[e], "error")
     \/ run[e].iter < MaxIter /\ run[e].node = NoNode /\ Ends(e, run[e], "silent")
  /\ UNCHANGED <<ckpt, crashes>>

\* *Mistake*: visits of nodes are not counted.
Uncounted(r) == r

\* Every node that is entered counts, against max_iterations.
Visit(r) == [r EXCEPT !.iter = @ + 1]

\* Nodes that only choose the next one: start, variable_aggregator, condition, loop.
Pass(e) ==
  LET r == Visit(run[e]) n == r.node IN
  /\ \/ /\ At(e, {"start", "variable_aggregator"})
        /\ Becomes(e, Advance(r))
     \/ /\ At(e, {"condition"})
        /\ \E result \in IF n \notin OnError THEN {"true", "false"}
                         ELSE IF r.err THEN {"true"} ELSE {"false"} :
             Becomes(e, Goto(r, get_next_node(r.g, n, result)))
     \/ /\ At(e, {"loop"}) /\ r.vals[n] < Rounds[n]
        /\ Becomes(e, Goto([r EXCEPT !.vals[n] = @ + 1],
                           IF Back[n] \in NodesOf(r.g) THEN Back[n]
                           ELSE get_next_node(r.g, n, "")))
     \/ /\ At(e, {"loop"}) /\ r.vals[n] >= Rounds[n]
        /\ Becomes(e, Advance(r))
  /\ UNCHANGED <<ckpt, crashes>>

EndNode(e) ==
  /\ At(e, {"end"})
  /\ Ends(e, Visit(run[e]), "end")
  /\ UNCHANGED <<ckpt, crashes>>

-----------------------------------------------------------------------------
(* Error handlers.  The node that is retried has the handler as its home.  *)

\* The node that a handler would retry: the one that left the last message of
\* a tool since the model spoke; kept where there is a handler.
Blames(r, n) ==
  [r EXCEPT !.blame =
     IF \E h \in NodesOf(r.g) : r.g.kind[h] = "error_handler" THEN n ELSE NoNode]

\* The end of an attempt.  Nothing clears the error of an earlier attempt: after
\* a failure all attempts are made, whatever their outcome.
AttemptEnds(r) ==
  IF r.err /\ r.attempt < Retries[r.home] THEN [r EXCEPT !.pc = "retry"]
  ELSE Advance([r EXCEPT !.node = r.home, !.home = NoNode, !.attempt = 0])

\* An error of a node ends the run, or the attempt of a handler.
Fails(e, r) ==
  IF r.home = NoNode THEN Ends(e, r, "error")
  ELSE Becomes(e, AttemptEnds([r EXCEPT !.err = TRUE]))

\* With no attempts the handler reads a variable that is not bound.
HandlerNode(e) ==
  LET r == [Visit(run[e]) EXCEPT !.err = FALSE] IN
  /\ At(e, {"error_handler"})
  /\ IF Retries[r.node] = 0 THEN Ends(e, r, "error")
     ELSE IF r.blame \in NodesOf(r.g) \cap Labelled
          THEN Becomes(e, [r EXCEPT !.pc = "retry", !.home = r.node, !.node = r.blame])
          ELSE Becomes(e, Advance(r))
  /\ UNCHANGED <<ckpt, crashes>>

\* A node of one of the kinds begins: it is visited, or retried.
Begins(e, kinds) ==
  At(e, kinds) \/ (Live(e) /\ run[e].pc = "retry" /\ run[e].g.kind[run[e].node] \in kinds)
Begun(r) ==
  IF r.pc = "node" THEN Visit(r)
  ELSE [r EXCEPT !.attempt = @ + 1, !.calls = <<>>, !.phase = "main", !.tries = 0,
                 !.failed = FALSE, !.bare = FALSE]

-----------------------------------------------------------------------------
(* Approvals: _await_safety_approval, approve_action, reject_action.       *)

\* The run registers a future and waits, pc saying what for: the call of
\* the model, a call of a tool by the model, or a tool node.
Asks(r, pc) ==
  [r EXCEPT !.pc = pc, !.ask = [status |-> "pending", fut |-> "waiting"]]
Asking(e) == Live(e) /\ run[e].pc \in {"ask_model", "ask_call", "ask_tool"}

\* An answer finds the entry of the gateway, which outlives the wait: it is
\* taken when nobody waits any more too, and only once.
Answer(e, status, value) ==
  /\ e \in DOMAIN run
  /\ run[e].ask.status = "pending"
  /\ Becomes(e, [run[e] EXCEPT !.ask.status = status,
                               !.ask.fut = IF @ = "waiting" THEN value ELSE @])
  /\ UNCHANGED <<ckpt, crashes>>
approve_action(e) == Answer(e, "approved", "yes")
reject_action(e) == Answer(e, "rejected", "no")

\* The wait times out; the entry of the gateway stays pending.
AskTimeout(e) ==
  /\ Asking(e) /\ run[e].ask.fut = "waiting"
  /\ Becomes(e, [run[e] EXCEPT !.ask.fut = "timeout"])
  /\ UNCHANGED <<ckpt, crashes>>

\* What lets the run go on, and what ends it in an error.
Granted(r) == r.ask.fut \in IF TimeoutApproves THEN {"yes", "timeout"} ELSE {"yes"}
Refused(r) == r.ask.fut \in IF TimeoutApproves THEN {"no"} ELSE {"no", "timeout"}

\* In a retry the other calls of the reply still get their turn.
AskRefused(e) ==
  LET r == run[e] IN
  /\ Asking(e) /\ Refused(r)
  /\ IF r.home # NoNode /\ r.pc = "ask_call" /\ r.phase = "main"
     THEN Becomes(e, [r EXCEPT !.err = TRUE, !.calls = Tail(@), !.pc = "tools"])
     ELSE Fails(e, r)
  /\ UNCHANGED <<ckpt, crashes>>

-----------------------------------------------------------------------------
(* Tools.                                                                  *)

\* A tool failed; what fails in a retry is the business of the handler.
Failing(r, err) == [r EXCEPT !.failed = @ \/ err, !.bad = @ \/ (err /\ r.home = NoNode)]

\* The history of the tools ran: whatever is not simply allowed, or runs in plan
\* mode, switches sides, so that every run of it shows.
Noted(r, ran) == SymDiff(r.did, {t \in ran : "allow" \notin Verdicts[t] \/ r.plan})

\* The outcome err of tool t is in the messages of the run.  exit_plan_mode takes
\* effect as a call of the model only, not as a tool node nor in a repair.
Executed(r, t, err) ==
  LET x == IF r.phase = "main" THEN Blames(r, r.node) ELSE r
  IN  [Failing(x, err) EXCEPT !.last = "tool", !.did = Noted(r, {t}),
         !.plan = @ /\ ~(t = ExitPlan /\ ~err /\ r.phase = "main"
                         /\ r.pc \in {"tools", "ask_call"})]

\* *Mistake*: the self-repair does not look at the plan mode.
PlanBlocksMain(r, t) == r.plan /\ r.phase = "main" /\ t \notin ReadOnly \cup {ExitPlan}

\* Plan mode admits tools that only read.
PlanBlocks(r, t) == r.plan /\ t \notin ReadOnly \cup {ExitPlan}

\* *Mistake*: only tool nodes look at stop_on_tool_error.
StopsToolNode(r, err) == err /\ r.g.stop /\ r.g.kind[r.node] = "tool"

\* A failed tool stops the cascade.
Stops(r, err) == err /\ r.g.stop

\* A tool node returns without an error.
ToolNodeEnds(e, r) ==
  IF r.home = NoNode THEN Becomes(e, Advance(r)) /\ ckpt' = AutoSaved(r)
  ELSE Becomes(e, AttemptEnds(r)) /\ UNCHANGED ckpt

\* What runs at a tool node: its tool and, with post_action_capture, the tool
\* that captures the screen, which is neither admitted nor asked for.
RanAt(n) == {n} \cup IF n \in Captured THEN {Screenshot} ELSE {}

\* A tool node whose tool runs: an error ends a run that stops on errors, before
\* the capture.  An assertion that fails on the capture ends the run; in a retry
\* it is no error.  Sub-runtimes have no function for assertions.
RunsToolNode(e, r) ==
  \E err \in BOOLEAN :
    LET x == Executed(r, r.node, err)
        y == [x EXCEPT !.did = Noted(r, RanAt(r.node))]
    IN IF Stops(x, err) THEN Fails(e, x) /\ UNCHANGED ckpt
       ELSE \/ ToolNodeEnds(e, y)
            \/ /\ r.node \in Captured \cap Asserted /\ Len(e) = 1 /\ r.home = NoNode
               /\ Ends(e, y, "error") /\ UNCHANGED ckpt

ToolNode(e) ==
  /\ Begins(e, {"tool"})
  /\ LET r == Begun(run[e]) t == r.node IN
     IF PlanBlocks(r, t) THEN Fails(e, r) /\ UNCHANGED ckpt
     ELSE \/ "deny" \in Verdicts[t] /\ Fails(e, r) /\ UNCHANGED ckpt
          \/ "ask" \in Verdicts[t] /\ Becomes(e, Asks(r, "ask_tool")) /\ UNCHANGED ckpt
          \/ "allow" \in Verdicts[t] /\ RunsToolNode(e, r)
  /\ UNCHANGED crashes

\* Approved: the tool is admitted again, and a denial still wins.  With an
\* error left by an earlier node or attempt the tool node returns in silence.
ToolNodeGranted(e) ==
  /\ Live(e) /\ run[e].pc = "ask_tool" /\ Granted(run[e])
  /\ IF run[e].err THEN ToolNodeEnds(e, run[e])
     ELSE \/ "deny" \in Verdicts[run[e].node] /\ Fails(e, run[e]) /\ UNCHANGED ckpt
          \/ RunsToolNode(e, run[e])
  /\ UNCHANGED crashes

-----------------------------------------------------------------------------
(* LLM nodes.                                                              *)

\* The call of the model is admitted, or asked for first.
CallsModel(e, r) ==
  /\ \/ "deny" \in Verdicts[r.node] /\ Fails(e, r)
     \/ "ask" \in Verdicts[r.node] /\ Becomes(e, Asks(r, "ask_model"))
     \/ "allow" \in Verdicts[r.node] /\ Becomes(e, [r EXCEPT !.pc = "reply"])
  /\ UNCHANGED <<ckpt, crashes>>

LlmNode(e) ==
  \/ Begins(e, {"llm"}) /\ CallsModel(e, Begun(run[e]))
  \/ Live(e) /\ run[e].pc = "again" /\ CallsModel(e, run[e])

\* A rag node is an LLM node: with a context found it is a plain one, which
\* repairs nothing and calls one tool at a time.
RagNode(e) ==
  /\ Begins(e, {"rag"})
  /\ \E found \in BOOLEAN : CallsModel(e, [Begun(run[e]) EXCEPT !.bare = found])

LlmGranted(e) ==
  /\ Live(e) /\ run[e].pc = "ask_model" /\ Granted(run[e])
  /\ Becomes(e, [run[e] EXCEPT !.pc = "reply"])
  /\ UNCHANGED <<ckpt, crashes>>

\* After an LLM node: it runs again when its last calls are unanswered.
Leave(r) == IF r.last = "calls" THEN Goto(r, r.node) ELSE Advance([r EXCEPT !.chain = 0])

\* *Mistake*: turns of the agent loop do not count as iterations.
AfterUncounted(r) ==
  IF r.node \in Agents /\ r.last = "tool" /\ r.loop < Rounds[r.node]
  THEN [r EXCEPT !.chain = 0, !.loop = @ + 1, !.pc = "again", !.phase = "main",
                 !.tries = 0, !.failed = FALSE, !.calls = <<>>]
  ELSE Leave(r)

\* The end of a hop of an LLM node: the agent loop feeds results back to the
\* model, every turn an iteration of the session, until the cap.
After(r) ==
  LET more == r.node \in Agents /\ r.last = "tool" /\ r.loop < Rounds[r.node]
      turn == [r EXCEPT !.iter = @ + 1]
  IN  IF ~more THEN Leave(r)
      ELSE IF turn.iter >= MaxIter THEN Leave(turn)
      ELSE [turn EXCEPT !.chain = 0, !.loop = @ + 1, !.pc = "again", !.phase = "main",
                        !.tries = 0, !.failed = FALSE, !.calls = <<>>]

\* The hop ends; the budget is looked at after the first hop of a visit only.
\* A retry and a rag node have one hop, and neither budget nor checkpoint.
EndHop(e, r) ==
  IF r.home # NoNode THEN Becomes(e, AttemptEnds(r)) /\ UNCHANGED ckpt
  ELSE IF r.g.kind[r.node] = "rag" THEN Becomes(e, Advance(r)) /\ UNCHANGED ckpt
  ELSE /\ ckpt' = AutoSaved(r)
       /\ \/ Budgeted /\ r.loop = 0 /\ Ends(e, r, "budget")
          \/ Becomes(e, After(r))

\* The model speaks: a text, or calls.
Speaks(r, what) == Blames([r EXCEPT !.last = what], NoNode)

\* The model answers: an error or a timeout, a text, or calls of tools.
LlmReply(e) ==
  LET r == [run[e] EXCEPT !.hops = @ + IF run[e].home = NoNode THEN 1 ELSE 0] IN
  /\ Live(e) /\ run[e].pc = "reply" /\ r.phase = "main"
  /\ \/ Fails(e, r) /\ UNCHANGED ckpt
     \/ EndHop(e, Speaks(r, "assistant"))
     \/ \E calls \in Replies[r.node] :
          /\ UNCHANGED ckpt
          /\ LET x == Speaks([r EXCEPT !.chain = @ + 1], "calls") IN
             IF x.chain > MaxChain THEN Fails(e, x)
             ELSE Becomes(e, [x EXCEPT !.calls = calls, !.pc = "tools"])
  /\ UNCHANGED crashes

Calling(e) == Live(e) /\ run[e].pc = "tools" /\ run[e].calls # <<>>
Answered(r) == [r EXCEPT !.last = "tool", !.calls = Tail(@), !.pc = "tools"]

\* *Mistake*: what has to be asked for runs at once.
RunsAtOnceUngated(t) == Verdicts[t] # {"deny"}

\* A call among several at once runs when it is simply allowed.
RunsAtOnce(t) == "allow" \in Verdicts[t]

\* The calls of one reply at once: what asks is an error here.
Concurrent(r) == /\ r.node \in AtOnce /\ ~r.bare /\ ~r.plan /\ r.phase = "main"
                 /\ ToSet(r.calls) \cap {Sub, ExitPlan} = {}
CallsAtOnce(e) ==
  /\ Calling(e) /\ Concurrent(run[e])
  /\ \E ran \in SUBSET {t \in ToSet(run[e].calls) : RunsAtOnce(t)} :
       \E err \in BOOLEAN :
         LET r == run[e]
             bad == err \/ ran # ToSet(r.calls)
         IN  /\ \A t \in ToSet(r.calls) \ ran : Verdicts[t] # {"allow"}
             /\ Becomes(e, [Blames(Failing(r, bad), r.node) EXCEPT
                               !.last = "tool", !.calls = <<>>, !.did = Noted(r, ran)])
  /\ UNCHANGED <<ckpt, crashes>>

\* The next call, one after the other: blocked, denied, asked for or run.  A
\* denial is an answer, and an error only for the self-repair.
CallTool(e) ==
  LET r == run[e] t == Head(r.calls)
      repair == r.phase = "repair"
      Denied == Becomes(e, Failing(Answered(r), repair))
  IN
  /\ Calling(e) /\ ~Concurrent(r) /\ (t = Sub => repair \/ PlanBlocks(r, t))
  /\ IF PlanBlocks(r, t) THEN Denied
     ELSE \/ "deny" \in Verdicts[t] /\ Denied
          \/ "ask" \in Verdicts[t] /\ Becomes(e, Asks(r, "ask_call"))
          \/ "allow" \in Verdicts[t]
             /\ \E err \in BOOLEAN : /\ t = Sub => err
                                     /\ Becomes(e, Answered(Executed(r, t, err)))
  /\ UNCHANGED <<ckpt, crashes>>

\* Approved: the call is admitted again, but not in the self-repair.  With an
\* error left by an earlier node or attempt it is passed over in silence.
CallGranted(e) ==
  LET r == run[e] t == Head(r.calls) main == r.phase = "main" IN
  /\ Live(e) /\ r.pc = "ask_call" /\ Granted(r)
  /\ IF main /\ r.err THEN Becomes(e, [r EXCEPT !.calls = Tail(@), !.pc = "tools"])
     ELSE \/ main /\ "deny" \in Verdicts[t] /\ Becomes(e, Answered(r))
          \/ \E err \in BOOLEAN : Becomes(e, Answered(Executed(r, t, err)))
  /\ UNCHANGED <<ckpt, crashes>>

\* All calls of a reply are answered: stop, repair, or end the hop.
CallsDone(e) ==
  LET r == run[e]
      attempts == IF r.node \in DOMAIN Retries /\ ~r.bare THEN Retries[r.node] ELSE 0
  IN
  /\ Live(e) /\ r.pc = "tools" /\ r.calls = <<>>
  /\ IF Stops(r, r.failed) THEN Fails(e, r) /\ UNCHANGED ckpt
     ELSE IF r.failed /\ r.tries < attempts
          THEN Becomes(e, [r EXCEPT !.pc = "again", !.phase = "repair", !.tries = @ + 1])
               /\ UNCHANGED ckpt
          ELSE EndHop(e, r)
  /\ UNCHANGED crashes

\* One attempt of the self-repair: failed (the prompt is then the
\* last message and the next attempt follows), a text, or calls again.
RepairReply(e) ==
  LET r == run[e] IN
  /\ Live(e) /\ r.pc = "reply" /\ r.phase = "repair"
  /\ \/ Becomes(e, [r EXCEPT !.last = "system", !.pc = "tools"]) /\ UNCHANGED ckpt
     \/ EndHop(e, Speaks(r, "assistant"))
     \/ \E calls \in Replies[r.node] :
          Becomes(e, [Speaks(r, "calls") EXCEPT !.calls = calls, !.failed = FALSE,
                                                !.pc = "tools"]) /\ UNCHANGED ckpt
  /\ UNCHANGED crashes

-----------------------------------------------------------------------------
(* Human input: a future of the runtime of the run.                        *)

\* An answer in the variables is taken; else the checkpoint is saved first.
HumanNode(e) ==
  LET r == Visit(run[e]) IN
  /\ At(e, {"human_input"})
  /\ IF r.vals[r.node] > 0
     THEN Becomes(e, Advance(r)) /\ UNCHANGED ckpt
     ELSE Becomes(e, [r EXCEPT !.pc = "human", !.human = "waiting"]) /\ ckpt' = Saved(r)
  /\ UNCHANGED crashes

Waiting(e, pc) == Live(e) /\ run[e].pc = pc

\* Answers reach the futures of the daemon's runtime only.
Resolve(e, pc, value) ==
  /\ Waiting(e, pc) /\ run[e].human = "waiting" /\ Len(e) = 1
  /\ Becomes(e, [run[e] EXCEPT !.human = value])
  /\ UNCHANGED <<ckpt, crashes>>
resolve_human_input(e, value) == Resolve(e, "human", value)

HumanAnswered(e) ==
  LET r == run[e] IN
  /\ Waiting(e, "human")
  /\ \/ r.human = "no" /\ Ends(e, r, "error")
     \/ r.human = "yes" /\ Becomes(e, Advance([r EXCEPT !.vals[r.node] = 1, !.human = "none"]))
  /\ UNCHANGED <<ckpt, crashes>>

HumanTimeout(e) ==
  /\ Waiting(e, "human") /\ run[e].human = "waiting"
  /\ Ends(e, [run[e] EXCEPT !.human = "none"], "paused")
  /\ UNCHANGED <<ckpt, crashes>>

-----------------------------------------------------------------------------
(* Nodes that wait for a plan, a verdict or an external agent.             *)

CallOut(e) ==
  LET r == Visit(run[e]) IN
  /\ At(e, {"planner", "verify", "acp"})
  /\ Becomes(e, IF r.node \in Resident THEN Advance(r) ELSE [r EXCEPT !.pc = "out"])
  /\ UNCHANGED <<ckpt, crashes>>

Out(e, kind) == Waiting(e, "out") /\ run[e].g.kind[run[e].node] = kind

\* The plan is made, and may need an approval.
PlanReturns(e) ==
  LET r == run[e] IN
  /\ Out(e, "planner")
  /\ Becomes(e, IF r.node \in Gated THEN [r EXCEPT !.pc = "plan", !.human = "waiting"]
                ELSE Advance(r))
  /\ UNCHANGED <<ckpt, crashes>>

approve_plan_in_graph(e) == Resolve(e, "plan", "yes")
reject_plan_in_graph(e) == Resolve(e, "plan", "no")

PlanDecided(e) ==
  LET r == [run[e] EXCEPT !.human = "none"] IN
  /\ Waiting(e, "plan")
  /\ \/ run[e].human = "no" /\ Ends(e, r, "error")
     \/ run[e].human = "yes" /\ Becomes(e, Advance(r))
  /\ UNCHANGED <<ckpt, crashes>>

PlanTimeout(e) ==
  /\ Waiting(e, "plan") /\ run[e].human = "waiting"
  /\ Ends(e, [run[e] EXCEPT !.human = "none"], "error")
  /\ UNCHANGED <<ckpt, crashes>>

\* A bad verdict is an error the run goes on with.
VerifyReturns(e) ==
  /\ Out(e, "verify")
  /\ \E bad \in BOOLEAN : Becomes(e, Advance([run[e] EXCEPT !.err = @ \/ bad]))
  /\ UNCHANGED <<ckpt, crashes>>

AcpReturns(e) ==
  /\ Out(e, "acp")
  /\ \/ Ends(e, run[e], "error")
     \/ Becomes(e, Advance(Speaks(run[e], "assistant")))
  /\ UNCHANGED <<ckpt, crashes>>

-----------------------------------------------------------------------------
(* Sub-runtimes: same session, plan mode inherited, one level deeper.      *)

\* Run e goes on as r and waits for one more; the ones before it have ended.
Sprout(e, r, child) ==
  LET new == Append(e, r.item + 1) IN
  run' = [c \in (DOMAIN run \ Children(e)) \cup {new} |->
            IF c = new THEN child ELSE IF c = e THEN [r EXCEPT !.pc = "wait"] ELSE run[c]]

\* _execute_sub_graph runs flow f with a copy of the variables.
SubGraphRun(e, r, f) ==
  IF Len(e) > MaxDepth
  THEN IF r.home = NoNode THEN Ends(e, r, "error") ELSE Becomes(e, r)
  ELSE Sprout(e, r, Entered(GraphOf[f], r.sess, r.plan, r.vals))

SubFlowNode(e) ==
  LET r == Visit(run[e]) IN
  /\ \/ At(e, {"sub_flow"}) /\ SubGraphRun(e, r, FlowOf[r.node])
     \/ /\ At(e, {"iteration"})
        /\ IF Rounds[r.node] = 0 THEN Becomes(e, Advance(r))
           ELSE SubGraphRun(e, r, FlowOf[r.node])
  /\ UNCHANGED <<ckpt, crashes>>

\* The model calls __sub_graph__: no answer is added to the messages.
SubCall(e) ==
  LET r == run[e] IN
  /\ Calling(e) /\ Head(r.calls) = Sub /\ r.phase = "main" /\ ~PlanBlocks(r, Sub)
  /\ SubGraphRun(e, [r EXCEPT !.calls = Tail(@)], FlowOf[Sub])
  /\ UNCHANGED <<ckpt, crashes>>

\* What the branches of a parallel node run, and where they meet; the graph
\* of a branch keeps neither the flags nor the name.
ForkAt(g, par) ==
  LET t == Targets(g, par) merge == find_merge_node(g, par) IN
  [merge  |-> merge,
   branch |-> [i \in DOMAIN t |->
                 build_branch_subgraph(g, t[i], merge, par)
                   @@ [name |-> NoNode, stop |-> FALSE, plan |-> FALSE]]]
Forks == [f \in Flows |-> [n \in {m \in NodesOf(GraphOf[f]) : GraphOf[f].kind[m] = "parallel"} |->
                            ForkAt(GraphOf[f], n)]]
Fork(g, par) == IF g.name \in Flows THEN Forks[g.name][par] ELSE ForkAt(g, par)

ParallelNode(e) ==
  LET r == Visit(run[e])
      t == Targets(r.g, r.node)
      new == {Append(e, i) : i \in {j \in 1..Len(t) : t[j] # r.node}}
  IN
  /\ At(e, {"parallel"})
  /\ IF r.plan \/ Len(t) < 2
     THEN Becomes(e, Goto(r, IF t = <<>> THEN NoNode ELSE t[1]))
     ELSE run' = [c \in DOMAIN run \cup new |->
                    IF c \in new THEN Entered(Fork(r.g, r.node).branch[Last(c)],
                                              r.sess, r.plan, NoValues)
                    ELSE IF c = e THEN [r EXCEPT !.pc = "wait"] ELSE run[c]]
  /\ UNCHANGED <<ckpt, crashes>>

\* All sub-runtimes of e have ended.  An error among their events ends the
\* run, but no retry; every other event is passed on, a pause too.
SubRunsDone(e) ==
  LET r == run[e]
      kind == r.g.kind[r.node]
      item == r.item + 1
  IN
  /\ Live(e) /\ r.pc = "wait"
  /\ \A c \in Children(e) : ~Live(c)
  /\ IF r.home = NoNode /\ \E c \in Children(e) : run[c].out = "error"
     THEN Ends(e, r, "error")
     ELSE CASE kind \in {"llm", "rag"} -> Joins(e, [r EXCEPT !.pc = "tools"])
            [] kind = "sub_flow" -> Joins(e, Advance(r))
            [] kind = "parallel" ->
                 Joins(e, Goto(Speaks(r, "assistant"), Fork(r.g, r.node).merge))
            [] kind = "iteration" ->
                 IF item = Rounds[r.node] THEN Joins(e, Advance(r))
                 ELSE Sprout(e, [r EXCEPT !.item = item],
                             Entered(GraphOf[FlowOf[r.node]], r.sess, r.plan, r.vals))
  /\ UNCHANGED <<ckpt, crashes>>

-----------------------------------------------------------------------------
\* graph.cancel or the stop of the daemon cancels the task of an execution.
Cancel(e) ==
  /\ Live(e) /\ Len(e) = 1
  /\ Ends(e, run[e], "cancelled")
  /\ UNCHANGED <<ckpt, crashes>>

\* A run whose pending approval was cancelled by a reap.
AskCancelled(e) ==
  /\ \/ Asking(e) /\ run[e].ask.fut = "cancelled"
     \/ Waiting(e, "plan") /\ run[e].human = "cancelled"
  /\ Ends(e, run[e], "cancelled")
  /\ UNCHANGED <<ckpt, crashes>>

\* The daemon dies: only the checkpoints are left.
Crash ==
  /\ crashes < MaxCrash
  /\ crashes' = crashes + 1
  /\ run' = <<>>
  /\ UNCHANGED ckpt

\* The steps of a run and the timers of what it waits for.
Step(e) ==
  \/ LeaveLoop(e) \/ Pass(e) \/ EndNode(e)
  \/ AskTimeout(e) \/ AskRefused(e) \/ AskCancelled(e)
  \/ HandlerNode(e) \/ ToolNode(e) \/ ToolNodeGranted(e)
  \/ CallOut(e) \/ PlanReturns(e) \/ PlanDecided(e) \/ PlanTimeout(e)
  \/ VerifyReturns(e) \/ AcpReturns(e) \/ RagNode(e)
  \/ LlmNode(e) \/ LlmGranted(e) \/ LlmReply(e) \/ RepairReply(e)
  \/ CallsAtOnce(e) \/ CallTool(e) \/ CallGranted(e) \/ CallsDone(e)
  \/ HumanNode(e) \/ HumanAnswered(e) \/ HumanTimeout(e)
  \/ SubFlowNode(e) \/ SubCall(e) \/ ParallelNode(e) \/ SubRunsDone(e)

\* What clients do.
Requests ==
  \/ \E r \in Roots, s \in Sessions : \E f \in Starts[r] :
       \/ Execute(<<r>>, f, s)
       \/ \E answers \in SUBSET {n \in Valued \cap NodesOf(GraphOf[f]) :
                                  GraphOf[f].kind[n] = "human_input"} :
            Resume(<<r>>, f, s, answers)
  \/ \E e \in DOMAIN run :
       \/ approve_action(e) \/ reject_action(e) \/ Cancel(e)
       \/ approve_plan_in_graph(e) \/ reject_plan_in_graph(e)
       \/ \E value \in {"yes", "no"} : resolve_human_input(e, value)

Next == Requests \/ Crash \/ \E e \in DOMAIN run : Step(e)

Spec == Init /\ [][Next]_vars
\* Every wait of a run ends: model calls and approvals have timeouts, tools
\* return, and a runnable task is scheduled.
FairSpec == Spec /\ \A r \in Roots :
                      WF_vars(\E e \in DOMAIN run : Head(e) = r /\ Step(e))

-----------------------------------------------------------------------------
(* Properties.                                                             *)

\* A run calls the model at most MaxIter times outside self-repairs and retries,
\* whether node by node or in the agent loop (ctx.iteration_count).
HopsBounded == \A e \in DOMAIN run : run[e].hops <= MaxIter

\* A pending future has a run that waits for it, a run that waits has a
\* future, and what it hears is what the gateway recorded.
FuturesHaveWaiters ==
  \A e \in DOMAIN run :
    LET a == run[e].ask IN
    /\ a.fut = "waiting" => Asking(e) /\ a.status = "pending"
    /\ Asking(e) => a.fut # "none"
    /\ a.fut = "yes" => a.status = "approved"
    /\ a.fut = "no" => a.status = "rejected"

\* An execution that paused for a human can be resumed: the session has a
\* checkpoint of its graph.
PauseIsSaved ==
  \A e \in DOMAIN run :
    Len(e) = 1 /\ run[e].out = "paused" => <<run[e].g.name, run[e].sess>> \in DOMAIN ckpt

\* The runs of one behaviour step: in both states.
Stay == DOMAIN run \cap DOMAIN run'

\* The tools that ran in a step of run e.
RanIn(e) == SymDiff(run'[e].did, run[e].did)

\* The tool, or the node of the model, that run r waits to be allowed.
AskedTool(r) == IF r.pc = "ask_call" THEN Head(r.calls) ELSE r.node

\* The capture after a tool node, which no admission sees.
CaptureAfter(r, t) == t = Screenshot /\ r.node \in Captured \ {Screenshot}

\* A tool or call that is never simply allowed runs only on an approval of that
\* run for that tool, on every path that executes tools but for the capture
\* after a tool node (_post_action_assert), a side door around the admission.
OnlyGrantedToolsRun ==
  [][\A e \in Stay : \A t \in RanIn(e) :
       "allow" \notin Verdicts[t] =>
         \/ Asking(e) /\ Granted(run[e]) /\ t = AskedTool(run[e])
         \/ CaptureAfter(run[e], t)]_vars

\* A run in plan mode executes no tool that writes, in the self-repair either,
\* but for the capture after a tool node, which looks at no mode.
PlanModeHolds ==
  [][\A e \in Stay : \A t \in RanIn(e) :
       run[e].plan => t \in ReadOnly \cup {ExitPlan} \/ CaptureAfter(run[e], t)]_vars

\* With stop_on_tool_error a run goes to no other node after a failed tool.
StopsCascade ==
  [][\A e \in Stay : run[e].bad /\ run[e].g.stop => run'[e].node = run[e].node]_vars

\* Every execution ends.
RunsEnd == \A r \in Roots : Live(<<r>>) ~> ~Live(<<r>>)
=============================================================================
