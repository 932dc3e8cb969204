---------------------------- MODULE AgentGraph ----------------------------
(***************************************************************************)
(* The graphs of agents: AgentGraph of agent_runtime/graph.py, and the     *)
(* split of a fan-out in agent_runtime/_runtime_nodes.py.  A graph is      *)
(* [kind, edges, start]: the type of each of its nodes, the sequence of    *)
(* its edges [src, dst, label] (their order decides), and its start node.  *)
(***************************************************************************)
EXTENDS Naturals, FiniteSets, SequencesExt

CONSTANT NoNode  \* the empty node id

\* The types that validate() accepts.
NodeTypes == {"start", "llm", "tool", "condition", "loop", "error_handler", "rag",
              "planner", "verify", "parallel", "acp", "end", "iteration",
              "variable_aggregator", "human_input", "sub_flow"}

NodesOf(g) == DOMAIN g.kind

\* The edges out of n: their indices, whose order is that of the edges.
get_outgoing_edges(g, n) == {i \in DOMAIN g.edges : g.edges[i].src = n}

\* The members of s at the indices I, in their order.
InOrder(s, I) ==
  [k \in 1..Cardinality(I) |-> s[CHOOSE i \in I : Cardinality({j \in I : j <= i}) = k]]

Truthy == {"true", "yes", "1"}
Falsy  == {"false", "no", "0"}

\* The labels that match a result after the exact one: its own class.
SameClass(result) ==
  IF result \in Truthy THEN Truthy ELSE IF result \in Falsy THEN Falsy ELSE {}

\* Those of the edges whose label is in labels.
WithLabel(g, out, labels) == {i \in out : g.edges[i].label \in labels}

\* The first of the edges in the first of these sets that is not empty.
FirstOf(sets) == Min(sets[SelectInSeq(sets, LAMBDA I : I # {})])

\* *Mistake*: no normalisation of truthy and falsy labels.
ExactEdge(g, out, result) ==
  FirstOf(<<WithLabel(g, out, {result}), WithLabel(g, out, {""}), out>>)

\* The edge taken among several: exact label, same class, no label, first.
ChosenEdge(g, out, result) ==
  FirstOf(<<WithLabel(g, out, {result}), WithLabel(g, out, SameClass(result)),
            WithLabel(g, out, {""}), out>>)

get_next_node(g, n, result) ==
  LET out == get_outgoing_edges(g, n)
  IN  CASE out = {}  -> NoNode
        [] Cardinality(out) = 1 -> g.edges[CHOOSE i \in out : TRUE].dst
        [] OTHER     -> g.edges[ChosenEdge(g, out, result)].dst

-----------------------------------------------------------------------------
\* A breadth-first search: one entry of the queue per step, skipped when
\* visited; an edge is followed when its target may be entered.
BfsStep(g, s, excluded) ==
  IF s.queue = <<>> THEN s
  ELSE LET n == Head(s.queue)
           next == InOrder(g.edges, {i \in get_outgoing_edges(g, n) : g.edges[i].dst \notin excluded})
       IN  IF n \in ToSet(s.order) \cup excluded
           THEN [s EXCEPT !.queue = Tail(@)]
           ELSE [order |-> Append(s.order, n),
                 queue |-> Tail(s.queue) \o [i \in DOMAIN next |-> next[i].dst]]

\* The nodes in the order of their discovery from root: every edge is
\* enqueued at most once, so the search takes at most Len(edges) + 1 steps.
BfsOrder(g, root, excluded) ==
  LET names == {root} \cup {g.edges[i].dst : i \in DOMAIN g.edges}
      search[k \in 0..(Len(g.edges) + 1)] ==
        [s \in [order : Seq(names), queue : Seq(names)] |->
           IF k = 0 THEN s ELSE search[k - 1][BfsStep(g, s, excluded)]]
  IN  search[Len(g.edges) + 1][[order |-> <<>>, queue |-> <<root>>]].order

Reachable(g, root) == ToSet(BfsOrder(g, root, {}))

\* The structural part of validate(): no error.
IsValid(g) ==
  /\ g.start \in NodesOf(g)
  /\ \A i \in DOMAIN g.edges : {g.edges[i].src, g.edges[i].dst} \subseteq NodesOf(g)
  /\ NodesOf(g) \subseteq Reachable(g, g.start)
  /\ \A n \in NodesOf(g) : g.kind[n] \in NodeTypes

\* The part of g on the nodes keep, entered at root.
SubGraph(g, keep, root) ==
  [kind  |-> [n \in keep |-> g.kind[n]],
   edges |-> InOrder(g.edges, {i \in DOMAIN g.edges :
                                 {g.edges[i].src, g.edges[i].dst} \subseteq keep}),
   start |-> root]

\* Rerun of a node and everything after it.
downstream_subgraph(g, n) == SubGraph(g, Reachable(g, n), n)

-----------------------------------------------------------------------------
\* The branches of a parallel node, in the order of its edges.
Targets(g, par) ==
  LET out == InOrder(g.edges, get_outgoing_edges(g, par))
  IN  [i \in DOMAIN out |-> out[i].dst]

\* *Mistake*: the entry of a branch may be the merge node.
CommonWithTargets(g, par) ==
  LET t == Targets(g, par)
  IN  {n \in NodesOf(g) : \A i \in DOMAIN t : n \in Reachable(g, t[i])}

\* Nodes every branch can reach, the entries of the branches left out.
CommonNodes(g, par) ==
  LET t == Targets(g, par)
  IN  {n \in NodesOf(g) : \A i \in DOMAIN t : n \in Reachable(g, t[i])} \ ToSet(t)

\* The first common node in the order of the search from the first branch.
find_merge_node(g, par) ==
  LET order == BfsOrder(g, Targets(g, par)[1], {})
      i == SelectInSeq(order, LAMBDA n : n \in CommonNodes(g, par))
  IN  IF Len(Targets(g, par)) < 2 \/ i = 0 THEN NoNode ELSE order[i]

\* *Mistake*: the search of a branch goes past the merge node.
BranchPastMerge(g, target, merge, par) ==
  SubGraph(g, ToSet(BfsOrder(g, target, {par})), target)

\* *Mistake*: the edges out of the entry are not followed.
EntryOnly(g, target, merge, par) == SubGraph(g, {target}, target)

\* What one branch runs; nothing when its entry is the parallel node itself.
build_branch_subgraph(g, target, merge, par) ==
  SubGraph(g, ToSet(BfsOrder(g, target, {par, merge} \ {NoNode})), target)
=============================================================================
