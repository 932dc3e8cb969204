--------------------------- MODULE MCAgentGraph ---------------------------
(***************************************************************************)
(* The operators of AgentGraph over every graph with the nodes of Names    *)
(* and at most MaxEdges edges without labels, and over every labelling of  *)
(* the edges of one node: a graph is chosen, then one of its nodes fans    *)
(* out, or takes the edge that the result of a condition selects.          *)
(***************************************************************************)
EXTENDS AgentGraph, TLC

CONSTANTS
  Names,      \* node ids
  First,      \* the start node
  Labels,     \* labels on edges, "" for none
  Results,    \* results of conditions
  MaxEdges    \* bound: edges of a graph without labels

\* Node ids are not empty, nor are the results of conditions that are looked at.
ASSUME NamesAssumption == IsFiniteSet(Names) /\ NoNode \notin Names
ASSUME ResultsAssumption == "" \notin Results
ASSUME BoundAssumption == MaxEdges \in Nat

VARIABLES
  graph,      \* the graph
  par,        \* the node that fans out or decides, or NoNode before
  merge,      \* the merge node of the fan-out
  branches,   \* the graphs its branches run
  result,     \* the result of a condition, or ""
  next        \* the node taken with that result
vars == <<graph, par, merge, branches, result, next>>

Graph(edges) == [kind |-> [m \in Names |-> "tool"], edges |-> edges, start |-> First]

\* Bound: no edge from a node to itself, none into the start node.
Usable == {e \in [src : Names, dst : Names, label : {""}] :
             e.src # e.dst /\ e.dst # First}

\* The edges of a fork: from First to every other node, labelled.
Fork == LET others == SetToSeq(Names \ {First})
        IN  {[i \in DOMAIN others |-> [src |-> First, dst |-> others[i], label |-> l[i]]] :
               l \in [DOMAIN others -> Labels]}

Init ==
  /\ \/ \E n \in 0..MaxEdges : \E edges \in [1..n -> Usable] :
          /\ \A i, j \in 1..n : i # j => edges[i] # edges[j]
          /\ graph = Graph(edges)
     \/ \E edges \in Fork : graph = Graph(edges)
  /\ IsValid(graph)
  /\ par = NoNode /\ merge = NoNode /\ branches = <<>> /\ result = "" /\ next = NoNode

FanOut(n) ==
  /\ par = NoNode
  /\ Cardinality(get_outgoing_edges(graph, n)) > 1
  /\ par' = n
  /\ merge' = find_merge_node(graph, n)
  /\ branches' = [i \in DOMAIN Targets(graph, n) |->
                    build_branch_subgraph(graph, Targets(graph, n)[i], merge', n)]
  /\ UNCHANGED <<graph, result, next>>

Decide(n, r) ==
  /\ par = NoNode
  /\ Cardinality(get_outgoing_edges(graph, n)) > 1
  /\ par' = n
  /\ result' = r
  /\ next' = get_next_node(graph, n, r)
  /\ UNCHANGED <<graph, merge, branches>>

Next == \/ \E n \in Names : FanOut(n)
        \/ \E r \in Results : Decide(First, r)
Spec == Init /\ [][Next]_vars

-----------------------------------------------------------------------------
\* Distances by the relation alone: the nodes within k edges of a.
Within(a) ==
  LET w[k \in 0..Cardinality(Names)] ==
        IF k = 0 THEN {a}
        ELSE w[k - 1] \cup {graph.edges[i].dst :
                              i \in {j \in DOMAIN graph.edges : graph.edges[j].src \in w[k - 1]}}
  IN  w
CanReach(a, b) == b \in Within(a)[Cardinality(Names)]
Closer(a, b, c) == \E k \in DOMAIN Within(a) : b \in Within(a)[k] /\ c \notin Within(a)[k]

\* The merge node _find_merge_node returns can be reached from every branch
\* and no such node is nearer to the first branch; there is none only when
\* no node beyond the entries is reached by all.
MergeIsNearest ==
  par # NoNode /\ result = "" =>
    LET t == Targets(graph, par)
        common == {n \in Names \ ToSet(t) : \A i \in DOMAIN t : CanReach(t[i], n)}
    IN  IF common = {} THEN merge = NoNode
        ELSE merge \in common /\ \A n \in common : ~Closer(t[1], n, merge)

\* Every graph _build_branch_subgraph returns passes validate(), which its
\* run starts with, and leads neither to the merge nor to the parallel node.
BranchesAreValid ==
  \A i \in DOMAIN branches :
    Targets(graph, par)[i] # par =>
      IsValid(branches[i]) /\ {par, merge} \cap NodesOf(branches[i]) = {}

\* A fan-out loses no node: what the graph reaches from the parallel node is
\* that node, in a branch, or reached again from the merge node.
NoNodeLost ==
  par # NoNode /\ result = "" =>
    \A n \in Names : CanReach(par, n) =>
      \/ n = par
      \/ \E i \in DOMAIN branches : n \in NodesOf(branches[i])
      \/ merge # NoNode /\ CanReach(merge, n)

\* The labels of the edges from par to n.
LabelsTo(n) == {graph.edges[i].label : i \in {j \in DOMAIN graph.edges :
                  graph.edges[j].src = par /\ graph.edges[j].dst = n}}

\* A truthy result never follows an edge labelled falsy while another edge
\* is labelled truthy or has no label, and conversely (get_next_node).
ResultNeverFlips ==
  result # "" /\ LabelsTo(next) \cap ((Truthy \cup Falsy) \ SameClass(result)) # {} =>
    \/ SameClass(result) = {}
    \/ \A n \in Names : LabelsTo(n) \cap (SameClass(result) \cup {""}) = {}
=============================================================================
