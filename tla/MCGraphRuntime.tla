-------------------------- MODULE MCGraphRuntime --------------------------
(***************************************************************************)
(* Small graphs for GraphRuntime: an agent with tools, a pipeline with a   *)
(* human decision, a fan-out, sub-flows of them, and flows with handlers.  *)
(***************************************************************************)
EXTENDS GraphRuntime

Edge(a, b) == [src |-> a, dst |-> b, label |-> ""]
If(a, b, l) == [src |-> a, dst |-> b, label |-> l]
Flow(name, kind, edges, start, stop, plan) ==
  [name |-> name, kind |-> kind, edges |-> edges, start |-> start, stop |-> stop, plan |-> plan]

\* A model that works in plan mode until it leaves it, and a sub-flow.
AgentFlow ==
  Flow("agent", [think |-> "llm", report |-> "sub_flow"], <<Edge("think", "report")>>,
       "think", TRUE, TRUE)

\* A model that calls its tools at once and repairs their failures.
BatchFlow ==
  Flow("batch", [batch |-> "llm", file |-> "tool", stop |-> "end"],
       <<Edge("batch", "file"), Edge("file", "stop")>>, "batch", FALSE, FALSE)

\* A decision of a human, a tool, and the tool once more.
HumanFlow ==
  Flow("human", [decide |-> "human_input", apply |-> "tool", enough |-> "loop", stop |-> "end"],
       <<Edge("decide", "apply"), Edge("apply", "enough"), Edge("enough", "stop")>>,
       "decide", FALSE, FALSE)

\* A fan-out to a sub-flow and to two tools, repeated on a condition.
ForkFlow ==
  Flow("fork", [split |-> "parallel", left |-> "sub_flow",
                right |-> "tool", more |-> "tool", check |-> "condition", stop |-> "end"],
       <<Edge("split", "left"), Edge("split", "right"),
         Edge("right", "more"), Edge("left", "check"), Edge("more", "check"),
         If("check", "stop", "true"), If("check", "split", "false")>>, "split", TRUE, FALSE)

\* One pass of a sub-flow per item.
EachFlow ==
  Flow("each", [begin |-> "start", each |-> "iteration"], <<Edge("begin", "each")>>,
       "begin", FALSE, FALSE)

\* One tool that a human has to approve.
ToolFlow == Flow("tool", [apply |-> "tool"], <<>>, "apply", TRUE, FALSE)

\* A verdict, a tool to approve, and a handler that may run it again.
ReviewFlow ==
  Flow("review", [judge |-> "verify", send |-> "tool", mend |-> "error_handler",
                  wrong |-> "condition", stop |-> "end"],
       <<Edge("judge", "send"), Edge("send", "mend"), Edge("mend", "wrong"),
         If("wrong", "mend", "true"), If("wrong", "stop", "false")>>, "judge", FALSE, FALSE)

\* An approved plan, a retrieval with tools in plan mode, and an external agent.
PlanFlow ==
  Flow("plan", [plan |-> "planner", look |-> "rag", fix |-> "error_handler",
                agent |-> "acp", watch |-> "verify"],
       <<Edge("plan", "look"), Edge("look", "fix"), Edge("fix", "agent"),
         Edge("agent", "watch")>>, "plan", FALSE, TRUE)

\* A read-only tool in plan mode, with a capture and an assertion after it.
SurveyFlow ==
  Flow("survey", [peek |-> "tool", stop |-> "end"], <<Edge("peek", "stop")>>, "peek", FALSE, TRUE)

MCGraphOf ==
  [f \in Flows |-> CASE f = "agent" -> AgentFlow [] f = "batch" -> BatchFlow
                     [] f = "human" -> HumanFlow [] f = "fork" -> ForkFlow
                     [] f = "each"  -> EachFlow [] f = "tool" -> ToolFlow
                     [] f = "review" -> ReviewFlow [] f = "plan" -> PlanFlow
                     [] f = "survey" -> SurveyFlow]
MCStarts  == ("r1" :> {"agent", "batch", "human", "fork", "each", "review", "plan", "survey"}) @@ ("r2" :> {"tool"})
MCFlowOf  == [left |-> "human", report |-> "tool", each |-> "human", sub_graph |-> "tool"]
MCRounds  == [each |-> 2, enough |-> 1, think |-> 6]
MCBack    == [enough |-> "apply"]
MCRetries == [batch |-> 1, look |-> 1, mend |-> 2, fix |-> 2]
MCReplies == [think |-> {<<"write">>, <<"exit">>, <<"sub_graph">>},
              batch |-> {<<"read", "write">>, <<"sub_graph">>},
              look |-> {<<"read">>, <<"sub_graph">>}]
MCVerdicts == [think |-> {"allow"}, batch |-> {"allow", "ask", "deny"}, read |-> {"allow"},
               write |-> {"ask", "deny"}, exit |-> {"allow"}, sub_graph |-> {"allow"},
               file |-> {"allow"}, apply |-> {"ask"}, peek |-> {"allow"}, screenshot |-> {"ask"},
               send |-> {"ask", "deny"}, look |-> {"allow"}, right |-> {"allow"}, more |-> {"allow", "deny"}]
=============================================================================
