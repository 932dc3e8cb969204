------------------------- MODULE AgentGraphProofs -------------------------
(***************************************************************************)
(* Theorems about AgentGraph for every finite graph: what the search of    *)
(* graph.py finds, and in which order; and from it the four properties of  *)
(* MCAgentGraph, for every set of node ids, labels and results and every   *)
(* number of edges.                                                        *)
(***************************************************************************)
EXTENDS MCAgentGraph, FiniteSetTheorems, SequenceTheorems, WellFoundedInduction, TLAPS

(***************************************************************************)
(* Numbers.                                                                *)
(***************************************************************************)

\* A set of numbers that is not empty has a smallest member.
LEMMA SmallestMember ==
  ASSUME NEW T \in SUBSET Nat, T # {}
  PROVE \E m \in T : \A n \in T : m <= n
<1>1. \A n, m \in Nat : <<m, n>> \in OpToRel(<, Nat) <=> m < n
  BY SMT DEF OpToRel
<1>2. \E x \in T : \A y \in T : ~ (<<y, x>> \in OpToRel(<,Nat))
  BY NatLessThanWellFounded, WFMin, Zenon
<1>3. PICK x \in T : \A y \in T : ~ (<<y, x>> \in OpToRel(<,Nat))
  BY <1>2, Zenon
<1>4. x \in Nat
  OBVIOUS
<1>5. ASSUME NEW y \in T PROVE ~(y < x)
  <2>1. y \in Nat
    OBVIOUS
  <2>2. QED
    BY <1>1, <1>3, <1>4, <2>1, Zenon
<1>6. QED
  BY <1>4, <1>5

\* What holds of 0 and passes on to the step number holds of all: induction, over
\* a set of numbers.
LEMMA NatInd ==
  ASSUME NEW S \in SUBSET Nat, 0 \in S, \A n \in S : n + 1 \in S
  PROVE  S = Nat
<1>1. SUFFICES ASSUME Nat \ S # {} PROVE FALSE 
  OBVIOUS
<1>2. PICK m \in Nat \ S : \A n \in Nat \ S : m <= n
  BY <1>1, SmallestMember
<1>3. m # 0 /\ m - 1 \in Nat
  OBVIOUS
<1>4. m - 1 \in S 
  BY <1>2, <1>3
<1>5. QED
  BY <1>2, <1>4

\* A recursive function unfolded: its first n values.
Unfolds(f, n, S, b, step) ==
  f \in [0..n -> S] /\ f[0] = b /\ \A k \in 1..n : f[k] = step[k][f[k - 1]]

\* A recursive definition over 0..n defines a function.
LEMMA Recursion ==
  ASSUME NEW n \in Nat, NEW S, NEW b \in S, NEW step \in [1..n -> [S -> S]]
  PROVE  \E f : Unfolds(f, n, S, b, step)
<1> DEFINE T == {m \in Nat : m <= n => \E f : Unfolds(f, m, S, b, step)}
<1>1. 0 \in T
  <2> DEFINE g == [k \in 0..0 |-> b]
  <2>1. Unfolds(g, 0, S, b, step)
    BY DEF Unfolds
  <2> HIDE DEF g
  <2>2. QED
    BY <2>1
<1>2. ASSUME NEW m \in T PROVE m + 1 \in T
  <2>1. m \in Nat
    OBVIOUS
  <2>2. ASSUME m + 1 <= n
        PROVE  \E f : Unfolds(f, m + 1, S, b, step)
    <3>1. PICK f : Unfolds(f, m, S, b, step)
      BY <2>1, <2>2
    <3>2. f \in [0..m -> S] /\ f[0] = b /\ \A k \in 1..m : f[k] = step[k][f[k - 1]]
      BY <3>1 DEF Unfolds
    <3> DEFINE v == step[m + 1][f[m]]
               g == [k \in 0..(m + 1) |-> IF k = m + 1 THEN v ELSE f[k]]
    <3>3. v \in S
      BY <2>1, <2>2, <3>2
    <3>4. g \in [0..(m + 1) -> S]
      <4> HIDE DEF v
      <4>1. QED
        BY <2>1, <3>2, <3>3
    <3>5. g[0] = b
      BY <2>1, <3>2
    <3>6. ASSUME NEW k \in 1..(m + 1) PROVE g[k] = step[k][g[k - 1]]
      <4>1. CASE k = m + 1
        <5>1. g[m] = f[m] /\ g[m + 1] = v /\ (m + 1) - 1 = m
          BY <2>1
        <5>2. QED
          BY <4>1, <5>1
      <4>2. CASE k # m + 1
        <5>1. k \in 1..m /\ g[k] = f[k] /\ g[k - 1] = f[k - 1]
          BY <2>1, <4>2
        <5>2. QED
          BY <3>2, <5>1
      <4>3. QED
        BY <4>1, <4>2
    <3> HIDE DEF g
    <3>7. QED
      BY <3>4, <3>5, <3>6 DEF Unfolds
  <2>3. QED
    BY <2>1, <2>2
<1>3. T = Nat
  <2>1. T \in SUBSET Nat
    OBVIOUS
  <2> HIDE DEF T
  <2>2. QED
    BY <1>1, <1>2, <2>1, NatInd
<1>4. n \in T
  BY <1>3
<1>5. QED
  BY <1>4

\* Min is the smallest member.
LEMMA MinFacts ==
  ASSUME NEW S \in SUBSET Nat, S # {}
  PROVE  Min(S) \in S /\ \A i \in S : Min(S) <= i
BY SmallestMember DEF Min

(***************************************************************************)
(* The members of a sequence at some indices.                              *)
(***************************************************************************)

UpTo(I, i) == {j \in I : j <= i}

\* Each index has a place of its own among the indices.
LEMMA Places ==
  ASSUME NEW n \in Nat, NEW I \in SUBSET (1..n)
  PROVE  /\ IsFiniteSet(I) /\ Cardinality(I) \in Nat
         /\ \A i \in I : Cardinality(UpTo(I, i)) \in 1..Cardinality(I)
         /\ \A i, j \in I : Cardinality(UpTo(I, i)) = Cardinality(UpTo(I, j)) => i = j
         /\ \A k \in 1..Cardinality(I) : \E i \in I : Cardinality(UpTo(I, i)) = k
<1>1. IsFiniteSet(I) /\ Cardinality(I) \in Nat
  <2>1. IsFiniteSet(1..n)
    BY FS_Interval
  <2>2. QED
    BY <2>1, FS_Subset, FS_CardinalityType
<1>2. \A i \in Nat : /\ UpTo(I, i) \in SUBSET I /\ IsFiniteSet(UpTo(I, i))
                     /\ Cardinality(UpTo(I, i)) \in Nat /\ Cardinality(UpTo(I, i)) <= Cardinality(I)
  <2>1. \A i \in Nat : UpTo(I, i) \in SUBSET I
    BY DEF UpTo
  <2>2. QED
    BY <1>1, <2>1, FS_Subset, FS_CardinalityType
<1>3. \A i \in I : i \in Nat /\ i <= n /\ i # 0
  OBVIOUS
<1>4. ASSUME NEW i \in I PROVE Cardinality(UpTo(I, i)) \in 1..Cardinality(I)
  <2>1. i \in UpTo(I, i)
    BY <1>3 DEF UpTo
  <2>2. Cardinality(UpTo(I, i)) # 0
    BY <1>2, <1>3, <2>1, FS_EmptySet
  <2>3. QED
    BY <1>1, <1>2, <1>3, <2>2
<1>5. ASSUME NEW i \in I, NEW j \in I, i < j PROVE Cardinality(UpTo(I, i)) < Cardinality(UpTo(I, j))
  <2>1. j \notin UpTo(I, i) /\ j \in UpTo(I, j)
    BY <1>3, <1>5 DEF UpTo
  <2>2. UpTo(I, i) \subseteq UpTo(I, j)
    <3>1. i \in Nat /\ j \in Nat /\ \A x \in I : x \in Nat
      BY <1>3, <1>5
    <3>2. \A x \in I : x <= i => x <= j
      BY <1>5, <3>1
    <3>3. QED
      BY <3>2 DEF UpTo
  <2>3. Cardinality(UpTo(I, i) \cup {j}) = Cardinality(UpTo(I, i)) + 1
    BY <1>2, <1>3, <2>1, FS_AddElement
  <2>4. UpTo(I, i) \cup {j} \in SUBSET UpTo(I, j)
    BY <2>1, <2>2
  <2>5. Cardinality(UpTo(I, i) \cup {j}) <= Cardinality(UpTo(I, j))
    BY <1>2, <1>3, <2>4, FS_Subset
  <2>6. QED
    BY <1>2, <1>3, <2>3, <2>5
<1>6. ASSUME NEW i \in I, NEW j \in I, Cardinality(UpTo(I, i)) = Cardinality(UpTo(I, j)) PROVE i = j
  BY <1>2, <1>3, <1>5, <1>6
<1>7. ASSUME NEW k \in 1..Cardinality(I) PROVE \E i \in I : Cardinality(UpTo(I, i)) = k
  <2> DEFINE T == {m \in Nat : k <= Cardinality(UpTo(I, m)) => \E i \in I : Cardinality(UpTo(I, i)) = k}
  <2>1. 0 \in T
    <3>1. UpTo(I, 0) = {}
      <4>1. \A i \in I : ~(i <= 0)
        BY <1>3
      <4>2. QED
        BY <4>1 DEF UpTo
    <3>2. QED
      BY <3>1, FS_EmptySet
  <2>2. ASSUME NEW m \in T PROVE m + 1 \in T
    <3>0. m \in Nat
      OBVIOUS
    <3>1. CASE m + 1 \in I
      <4>0. /\ \A i \in I : i <= m + 1 <=> (i <= m \/ i = m + 1)
            /\ ~(m + 1 <= m)
        BY <1>3, <3>0
      <4>1. UpTo(I, m + 1) = UpTo(I, m) \cup {m + 1} /\ m + 1 \notin UpTo(I, m)
        BY <3>1, <4>0 DEF UpTo
      <4>2. Cardinality(UpTo(I, m + 1)) = Cardinality(UpTo(I, m)) + 1
        BY <1>2, <3>0, <4>1, FS_AddElement
      <4>3. k <= Cardinality(UpTo(I, m + 1)) =>
              k <= Cardinality(UpTo(I, m)) \/ Cardinality(UpTo(I, m + 1)) = k
        BY <1>2, <3>0, <4>2
      <4>4. QED
        BY <3>0, <3>1, <4>3
    <3>2. CASE m + 1 \notin I
      <4>0. \A i \in I : i <= m + 1 <=> i <= m
        BY <1>3, <3>0, <3>2
      <4>1. UpTo(I, m + 1) = UpTo(I, m)
        BY <4>0 DEF UpTo
      <4>2. QED
        BY <3>0, <4>1
    <3>3. QED
      BY <3>1, <3>2
  <2>3. T = Nat
    <3>1. T \in SUBSET Nat
      OBVIOUS
    <3> HIDE DEF T
    <3>2. QED
      BY <2>1, <2>2, <3>1, NatInd
  <2>4. UpTo(I, n) = I
    BY <1>3 DEF UpTo
  <2>5. n \in T
    BY <2>3
  <2>6. QED
    BY <1>1, <2>4, <2>5
<1>8. QED
  BY <1>1, <1>4, <1>6, <1>7

\* InOrder is a sequence of just those members.
LEMMA InOrderFacts ==
  ASSUME NEW s, NEW n \in Nat, NEW I \in SUBSET (1..n)
  PROVE  /\ IsFiniteSet(I) /\ Cardinality(I) \in Nat
         /\ DOMAIN InOrder(s, I) = 1..Cardinality(I)
         /\ Len(InOrder(s, I)) = Cardinality(I)
         /\ \A k \in 1..Cardinality(I) : \E i \in I : InOrder(s, I)[k] = s[i]
         /\ \A i \in I : \E k \in 1..Cardinality(I) : InOrder(s, I)[k] = s[i]
<1> DEFINE at(k) == CHOOSE i \in I : Cardinality(UpTo(I, i)) = k
           c == Cardinality(I)
           S == {s[i] : i \in I}
<1>1. c \in Nat /\ IsFiniteSet(I)
  BY Places
<1>2. InOrder(s, I) = [k \in 1..c |-> s[at(k)]]
  BY DEF InOrder, UpTo
<1>3. \A k \in 1..c : at(k) \in I /\ Cardinality(UpTo(I, at(k))) = k
  BY Places
<1>4. \A i \in I : Cardinality(UpTo(I, i)) \in 1..c /\ at(Cardinality(UpTo(I, i))) = i
  BY Places
<1> HIDE DEF at, c
<1>5. InOrder(s, I) \in [1..c -> S] /\ DOMAIN InOrder(s, I) = 1..c
  BY <1>2, <1>3
<1>6. Len(InOrder(s, I)) = c
  <2>1. InOrder(s, I) \in Seq(S)
    BY <1>1, <1>5
  <2>2. QED
    BY <1>1, <1>5, <2>1, LenProperties
<1>7. QED
  BY <1>1, <1>2, <1>3, <1>4, <1>5, <1>6 DEF c

(***************************************************************************)
(* One step of the search.                                                 *)
(***************************************************************************)

\* The edges are a sequence.
HasEdges(g) == Len(g.edges) \in Nat /\ DOMAIN g.edges = 1..Len(g.edges)

\* The states of a search from root.
NamesFrom(g, root) == {root} \cup {g.edges[i].dst : i \in DOMAIN g.edges}
Searches(g, root) == [order : Seq(NamesFrom(g, root)), queue : Seq(NamesFrom(g, root))]

Ends(g, n, X) == {i \in get_outgoing_edges(g, n) : g.edges[i].dst \notin X}
Behind(g, n, X) == {g.edges[i].dst : i \in Ends(g, n, X)}

\* A search ends with its queue.
LEMMA StepEnds ==
  ASSUME NEW g, NEW X, NEW s, s.queue = <<>>
  PROVE  BfsStep(g, s, X) = s
BY DEF BfsStep

\* An entry that was visited, or is excluded, is dropped.
LEMMA StepSkips ==
  ASSUME NEW g, NEW root, NEW X, NEW s \in Searches(g, root), s.queue # <<>>,
         Head(s.queue) \in ToSet(s.order) \cup X
  PROVE  LET t == BfsStep(g, s, X) IN
         /\ t \in Searches(g, root)
         /\ t.order = s.order /\ Len(t.queue) = Len(s.queue) - 1
         /\ \A i \in 1..Len(t.queue) : t.queue[i] = s.queue[i + 1]
<1> DEFINE N == NamesFrom(g, root)
<1>1. BfsStep(g, s, X) = [s EXCEPT !.queue = Tail(@)]
  BY DEF BfsStep
<1>2. s.queue \in Seq(N) /\ s.order \in Seq(N) /\ s = [order |-> s.order, queue |-> s.queue]
  BY DEF Searches
<1>3. BfsStep(g, s, X) = [order |-> s.order, queue |-> Tail(s.queue)]
  BY <1>1, <1>2
<1>4. /\ Tail(s.queue) \in Seq(N) /\ Len(Tail(s.queue)) = Len(s.queue) - 1
      /\ \A i \in 1..Len(Tail(s.queue)) : Tail(s.queue)[i] = s.queue[i + 1]
  <2> HIDE DEF N
  <2>1. QED
    BY <1>2, HeadTailProperties
<1>5. QED
  BY <1>2, <1>3, <1>4 DEF Searches

\* A node is visited once, and what its edges lead to is enqueued.
Visits(g, root, X, s, t) ==
  LET n == Head(s.queue)
      I == Ends(g, n, X)
      c == Cardinality(I)
      l == Len(s.queue) - 1
  IN  /\ t \in Searches(g, root)
      /\ Len(t.order) = Len(s.order) + 1 /\ t.order[Len(t.order)] = n
      /\ \A i \in 1..Len(s.order) : t.order[i] = s.order[i]
      /\ c \in Nat /\ Len(t.queue) = l + c
      /\ \A i \in 1..l : t.queue[i] = s.queue[i + 1]
      /\ \A i \in l + 1 .. l + c : \E e \in I : t.queue[i] = g.edges[e].dst
      /\ \A e \in I : \E i \in l + 1 .. l + c : t.queue[i] = g.edges[e].dst

\* A step that visits a node, index by index.
LEMMA StepVisits ==
  ASSUME NEW g, HasEdges(g), NEW root, NEW X, NEW s \in Searches(g, root), s.queue # <<>>,
         Head(s.queue) \notin ToSet(s.order) \cup X
  PROVE  Visits(g, root, X, s, BfsStep(g, s, X))
<1> DEFINE N == NamesFrom(g, root)
           n == Head(s.queue)
           I == Ends(g, n, X)
           c == Cardinality(I)
           l == Len(s.queue) - 1
           out == InOrder(g.edges, I)
           more == [i \in 1..c |-> out[i].dst]
           rest == Tail(s.queue)
<1>1. I \in SUBSET (1..Len(g.edges)) /\ Len(g.edges) \in Nat
  BY DEF HasEdges, Ends, get_outgoing_edges
<1>2. /\ c \in Nat /\ DOMAIN out = 1..c
      /\ \A k \in 1..c : \E i \in I : out[k] = g.edges[i]
      /\ \A i \in I : \E k \in 1..c : out[k] = g.edges[i]
  <2> HIDE DEF I
  <2>1. QED
    BY <1>1, InOrderFacts
<1>3. \A i \in I : g.edges[i].dst \in N
  BY DEF NamesFrom, Ends, get_outgoing_edges
<1>4. s.queue \in Seq(N) /\ s.order \in Seq(N)
  BY DEF Searches
<1>5. BfsStep(g, s, X) = [order |-> Append(s.order, n), queue |-> rest \o more]
  BY <1>2 DEF BfsStep, Ends
<1> HIDE DEF N, I, c, out
<1>6. more \in Seq(N) /\ Len(more) = c
  <2>1. more \in [1..c -> N]
    BY <1>2, <1>3
  <2>2. more \in Seq(N)
    BY <1>2, <2>1
  <2>3. QED
    BY <1>2, <2>1, <2>2, LenProperties
<1>7. /\ n \in N /\ rest \in Seq(N) /\ Len(rest) = l /\ l \in Nat
      /\ \A i \in 1..l : rest[i] = s.queue[i + 1]
  <2>1. /\ n \in N /\ rest \in Seq(N) /\ Len(rest) = l
        /\ \A i \in 1..Len(rest) : rest[i] = s.queue[i + 1]
    BY <1>4, HeadTailProperties
  <2> HIDE DEF rest, l, n
  <2>2. QED
    BY <2>1, LenProperties
<1>8. /\ Append(s.order, n) \in Seq(N) /\ Len(Append(s.order, n)) = Len(s.order) + 1
      /\ Append(s.order, n)[Len(s.order) + 1] = n
      /\ \A i \in 1..Len(s.order) : Append(s.order, n)[i] = s.order[i]
  <2> HIDE DEF n
  <2>1. QED
    BY <1>4, <1>7, AppendProperties
<1> HIDE DEF rest, l, n
<1>9. /\ rest \o more \in Seq(N) /\ Len(rest \o more) = l + c
      /\ \A i \in 1..(l + c) : (rest \o more)[i] = IF i <= l THEN rest[i] ELSE more[i - l]
  <2> HIDE DEF more
  <2>1. QED
    BY <1>6, <1>7, ConcatProperties
<1>10. \A i \in 1..l : (rest \o more)[i] = s.queue[i + 1]
  BY <1>2, <1>7, <1>9
<1>11. ASSUME NEW i \in l + 1 .. l + c PROVE \E e \in I : (rest \o more)[i] = g.edges[e].dst
  <2>1. i \in 1..(l + c) /\ ~(i <= l) /\ i - l \in 1..c
    BY <1>2, <1>7
  <2>2. (rest \o more)[i] = out[i - l].dst
    BY <1>9, <2>1
  <2>3. QED
    BY <1>2, <2>1, <2>2
<1>12. ASSUME NEW e \in I PROVE \E i \in l + 1 .. l + c : (rest \o more)[i] = g.edges[e].dst
  <2>1. PICK k \in 1..c : out[k] = g.edges[e]
    BY <1>2
  <2>2. l + k \in l + 1 .. l + c /\ l + k \in 1..(l + c) /\ ~(l + k <= l) /\ (l + k) - l = k
    BY <1>2, <1>7
  <2>3. (rest \o more)[l + k] = out[k].dst
    BY <1>9, <2>2
  <2>4. QED
    BY <2>1, <2>2, <2>3
<1> HIDE DEF more
<1> DEFINE t == BfsStep(g, s, X)
<1>13. /\ t \in Searches(g, root)
       /\ t.order = Append(s.order, n) /\ t.queue = rest \o more
  BY <1>5, <1>8, <1>9 DEF Searches, N
<1> HIDE DEF t
<1>14. /\ Len(t.order) = Len(s.order) + 1 /\ t.order[Len(t.order)] = n
       /\ \A i \in 1..Len(s.order) : t.order[i] = s.order[i]
  BY <1>8, <1>13
<1>15. c \in Nat /\ Len(t.queue) = l + c
  BY <1>2, <1>9, <1>13
<1>16. \A i \in 1..l : t.queue[i] = s.queue[i + 1]
  BY <1>10, <1>13
<1>17. /\ \A i \in l + 1 .. l + c : \E e \in I : t.queue[i] = g.edges[e].dst
       /\ \A e \in I : \E i \in l + 1 .. l + c : t.queue[i] = g.edges[e].dst
  BY <1>11, <1>12, <1>13
<1>18. t \in Searches(g, root)
  BY <1>13
<1>19. QED
  BY <1>14, <1>15, <1>16, <1>17, <1>18, Zenon DEF Visits, t, n, l, c, I

\* A step leads to a state of the search.
LEMMA StepStays ==
  ASSUME NEW g, HasEdges(g), NEW root, NEW X, NEW s \in Searches(g, root)
  PROVE  BfsStep(g, s, X) \in Searches(g, root)
<1>1. CASE s.queue = <<>>
  BY <1>1, StepEnds
<1>2. CASE s.queue # <<>> /\ Head(s.queue) \in ToSet(s.order) \cup X
  BY <1>2, StepSkips
<1>3. CASE s.queue # <<>> /\ Head(s.queue) \notin ToSet(s.order) \cup X
  BY <1>3, StepVisits DEF Visits
<1>4. QED
  BY <1>1, <1>2, <1>3

(***************************************************************************)
(* The whole search.                                                       *)
(***************************************************************************)

Start(root) == [order |-> <<>>, queue |-> <<root>>]

\* f holds the states of the search from root, one for each step.
IsSearch(f, g, root, X) ==
  /\ f \in [0..Len(g.edges) + 1 -> Searches(g, root)]
  /\ f[0] = Start(root)
  /\ \A k \in 1..Len(g.edges) + 1 : f[k] = BfsStep(g, f[k - 1], X)

\* BfsOrder is the order of the last of them.
LEMMA SearchIs ==
  ASSUME NEW g, HasEdges(g), NEW root, NEW X
  PROVE  \E f : IsSearch(f, g, root, X) /\ BfsOrder(g, root, X) = f[Len(g.edges) + 1].order
<1> DEFINE N == Len(g.edges) + 1
           St == Searches(g, root)
           one == [s \in St |-> BfsStep(g, s, X)]
           on == [k \in 1..N |-> one]
           then == [k \in 1..N |-> [F \in [St -> St] |-> [s \in St |-> F[one[s]]]]]
           id == [s \in St |-> s]
           search[k \in 0..N] ==
             [s \in [order : Seq({root} \cup {g.edges[i].dst : i \in DOMAIN g.edges}),
                     queue : Seq({root} \cup {g.edges[i].dst : i \in DOMAIN g.edges})] |->
                IF k = 0 THEN s ELSE search[k - 1][BfsStep(g, s, X)]]
<1>1. N \in Nat
  BY DEF HasEdges
<1>2. /\ one \in [St -> St]
      /\ \A s \in St : one[s] = BfsStep(g, s, X)
  BY StepStays
<1>3. Start(root) \in St
  <2> DEFINE M == NamesFrom(g, root)
  <2>1. root \in M
    BY DEF NamesFrom
  <2> HIDE DEF M
  <2>2. <<root>> \in Seq(M) /\ <<>> \in Seq(M)
    BY <2>1
  <2>3. QED
    BY <2>2 DEF Searches, Start, M
<1>4. search = [k \in 0..N |-> [s \in St |-> IF k = 0 THEN s ELSE search[k - 1][BfsStep(g, s, X)]]]
  <2>0. search =
          CHOOSE h : h = [k \in 0..N |-> [s \in St |-> IF k = 0 THEN s ELSE h[k - 1][BfsStep(g, s, X)]]]
    BY DEF search, Searches, NamesFrom
  <2> HIDE DEF one, search
  <2>1. PICK h : Unfolds(h, N, [St -> St], id, then)
    <3>1. id \in [St -> St]
      OBVIOUS
    <3>2. then \in [1..N -> [[St -> St] -> [St -> St]]]
      BY <1>2
    <3> HIDE DEF id, then, N, St
    <3>3. QED
      BY <1>1, <3>1, <3>2, Recursion
  <2>2. /\ h \in [0..N -> [St -> St]] /\ h[0] = id
        /\ \A k \in 1..N : h[k] = then[k][h[k - 1]]
    BY <2>1 DEF Unfolds
  <2> HIDE DEF St
  <2>3. ASSUME NEW k \in 1..N PROVE h[k] = [s \in St |-> h[k - 1][BfsStep(g, s, X)]]
    <3>1. k - 1 \in 0..N
      BY <1>1
    <3>2. h[k - 1] \in [St -> St]
      <4> HIDE DEF N
      <4>1. QED
        BY <2>2, <3>1
    <3>3. h[k] = [s \in St |-> h[k - 1][one[s]]]
      <4> HIDE DEF N
      <4>1. QED
        BY <2>2, <3>2
    <3>4. QED
      BY <1>2, <3>3
  <2>4. h = [k \in 0..N |-> [s \in St |-> IF k = 0 THEN s ELSE h[k - 1][BfsStep(g, s, X)]]]
    <3>1. \A k \in 0..N : k = 0 \/ k \in 1..N
      BY <1>1
    <3>2. 0 \in 0..N /\ ~(0 \in 1..N)
      BY <1>1
    <3> HIDE DEF N
    <3>3. ASSUME NEW k \in 0..N
          PROVE  h[k] = [s \in St |-> IF k = 0 THEN s ELSE h[k - 1][BfsStep(g, s, X)]]
      <4>1. CASE k = 0
        BY <2>2, <4>1
      <4>2. CASE k # 0
        BY <2>3, <3>1, <4>2
      <4>3. QED
        BY <4>1, <4>2
    <3>4. QED
      BY <2>2, <3>3
  <2>5. QED
    BY <2>0, <2>4, Zenon
<1>5. PICK f : Unfolds(f, N, St, Start(root), on)
  <2>1. on \in [1..N -> [St -> St]]
    BY <1>2
  <2> HIDE DEF on, N, St
  <2>2. QED
    BY <1>1, <1>3, <2>1, Recursion
<1>6. /\ f \in [0..N -> St] /\ f[0] = Start(root)
      /\ \A k \in 1..N : f[k] = on[k][f[k - 1]]
  BY <1>5 DEF Unfolds
<1> HIDE DEF search, St
<1>7. ASSUME NEW k \in 1..N PROVE f[k] = BfsStep(g, f[k - 1], X)
  <2>1. k - 1 \in 0..N
    BY <1>1
  <2> HIDE DEF N
  <2>2. f[k - 1] \in St
    BY <1>6, <2>1
  <2>3. QED
    BY <1>2, <1>6, <2>2
<1>8. IsSearch(f, g, root, X)
  BY <1>6, <1>7 DEF IsSearch, St
<1> DEFINE T == {k \in Nat : k <= N => \A j \in 0..N : j + k <= N => search[k][f[j]] = f[j + k]}
<1>9. 0 \in T
  <2>1. 0 \in 0..N
    BY <1>1
  <2>2. \A j \in 0..N : j + 0 = j
    BY <1>1
  <2> HIDE DEF N
  <2>3. \A j \in 0..N : search[0][f[j]] = f[j]
    BY <1>4, <1>6, <2>1
  <2>4. QED
    BY <2>2, <2>3
<1>10. ASSUME NEW k \in T PROVE k + 1 \in T
  <2>1. k \in Nat
    OBVIOUS
  <2>2. SUFFICES ASSUME k + 1 <= N, NEW j \in 0..N, j + (k + 1) <= N
                 PROVE  search[k + 1][f[j]] = f[j + (k + 1)]
    BY <2>1
  <2>3. /\ k + 1 \in 0..N /\ k + 1 # 0 /\ (k + 1) - 1 = k /\ k <= N
        /\ j + 1 \in 0..N /\ j + 1 \in 1..N /\ (j + 1) - 1 = j
        /\ (j + 1) + k = j + (k + 1)
    BY <1>1, <2>1, <2>2
  <2>4. f[j] \in St
    BY <1>6
  <2>5. search[k + 1][f[j]] = search[k][BfsStep(g, f[j], X)]
    <3> HIDE DEF N
    <3>1. QED
      BY <1>4, <2>3, <2>4
  <2>6. BfsStep(g, f[j], X) = f[j + 1]
    BY <1>7, <2>3
  <2>7. search[k][f[j + 1]] = f[(j + 1) + k]
    BY <2>2, <2>3
  <2>8. QED
    BY <2>3, <2>5, <2>6, <2>7
<1>11. T = Nat
  <2>1. T \in SUBSET Nat
    OBVIOUS
  <2> HIDE DEF T
  <2>2. QED
    BY <1>9, <1>10, <2>1, NatInd
<1>12. search[N][f[0]] = f[N]
  <2>1. N \in T /\ 0 \in 0..N /\ 0 + N = N /\ N <= N
    BY <1>1, <1>11
  <2>2. QED
    BY <2>1
<1>13. BfsOrder(g, root, X) = search[N][Start(root)].order
  BY DEF BfsOrder, search, Start
<1>14. QED
  BY <1>6, <1>8, <1>12, <1>13


\* The same for the sets of what was visited and of what is to be visited.
LEMMA SkipSets ==
  ASSUME NEW g, NEW root, NEW X, NEW s \in Searches(g, root), s.queue # <<>>,
         Head(s.queue) \in ToSet(s.order) \cup X
  PROVE  LET t == BfsStep(g, s, X) IN
         /\ ToSet(t.order) = ToSet(s.order) /\ ToSet(t.queue) \subseteq ToSet(s.queue)
         /\ ToSet(s.queue) \subseteq ToSet(t.queue) \cup {Head(s.queue)}
<1> DEFINE t == BfsStep(g, s, X)
           h == Head(s.queue)
<1>1. /\ t \in Searches(g, root)
      /\ t.order = s.order /\ Len(t.queue) = Len(s.queue) - 1
      /\ \A i \in 1..Len(t.queue) : t.queue[i] = s.queue[i + 1]
  BY StepSkips
<1>2. /\ DOMAIN s.queue = 1..Len(s.queue) /\ DOMAIN t.queue = 1..Len(t.queue)
      /\ Len(s.queue) \in Nat /\ Len(t.queue) \in Nat /\ h = s.queue[1]
  <2>1. s.queue \in Seq(NamesFrom(g, root)) /\ t.queue \in Seq(NamesFrom(g, root))
    BY <1>1 DEF Searches
  <2> HIDE DEF t
  <2>2. QED
    BY <2>1, LenProperties
<1> HIDE DEF t, h
<1>3. \A i \in DOMAIN t.queue : i + 1 \in DOMAIN s.queue
  BY <1>1, <1>2
<1>4. \A i \in DOMAIN s.queue : s.queue[i] = h \/ (i - 1 \in DOMAIN t.queue /\ (i - 1) + 1 = i)
  BY <1>1, <1>2
<1>5. ToSet(t.queue) \subseteq ToSet(s.queue)
  BY <1>1, <1>2, <1>3 DEF ToSet
<1>6. ToSet(s.queue) \subseteq ToSet(t.queue) \cup {h}
  <2>1. ASSUME NEW x \in ToSet(s.queue) PROVE x \in ToSet(t.queue) \cup {h}
    <3>1. PICK i \in DOMAIN s.queue : x = s.queue[i]
      BY DEF ToSet
    <3>2. CASE x # h
      <4>1. i - 1 \in DOMAIN t.queue /\ t.queue[i - 1] = x
        BY <1>1, <1>2, <1>4, <3>1, <3>2
      <4>2. QED
        BY <4>1 DEF ToSet
    <3>3. QED
      BY <3>2
  <2>2. QED
    BY <2>1
<1>7. QED
  BY <1>1, <1>5, <1>6 DEF t, h

\* What a visit does to the nodes visited and to those to be visited.
LEMMA VisitSets ==
  ASSUME NEW g, HasEdges(g), NEW root, NEW X, NEW s \in Searches(g, root), s.queue # <<>>,
         Head(s.queue) \notin ToSet(s.order) \cup X
  PROVE  LET t == BfsStep(g, s, X)
             n == Head(s.queue)
             new == Behind(g, n, X) IN
         /\ ToSet(t.order) = ToSet(s.order) \cup {n}
         /\ ToSet(t.queue) \subseteq ToSet(s.queue) \cup new
         /\ ToSet(s.queue) \subseteq ToSet(t.queue) \cup {n}
         /\ new \subseteq ToSet(t.queue)
<1> DEFINE t == BfsStep(g, s, X)
           n == Head(s.queue)
           I == Ends(g, n, X)
           l == Len(s.queue) - 1
           c == Cardinality(I)
           new == {g.edges[e].dst : e \in I}
<1>1. /\ t \in Searches(g, root)
      /\ Len(t.order) = Len(s.order) + 1 /\ t.order[Len(t.order)] = n
      /\ \A i \in 1..Len(s.order) : t.order[i] = s.order[i]
      /\ c \in Nat /\ Len(t.queue) = l + c
      /\ \A i \in 1..l : t.queue[i] = s.queue[i + 1]
      /\ \A i \in l + 1 .. l + c : \E e \in I : t.queue[i] = g.edges[e].dst
      /\ \A e \in I : \E i \in l + 1 .. l + c : t.queue[i] = g.edges[e].dst
  <2>1. Visits(g, root, X, s, t)
    BY StepVisits
  <2>2. QED
    BY <2>1, Zenon DEF Visits
<1>2. /\ DOMAIN s.queue = 1..Len(s.queue) /\ DOMAIN t.queue = 1..Len(t.queue)
      /\ DOMAIN s.order = 1..Len(s.order) /\ DOMAIN t.order = 1..Len(t.order)
      /\ Len(s.queue) \in Nat \ {0} /\ Len(t.queue) \in Nat /\ n = s.queue[1]
      /\ Len(s.order) \in Nat
  <2>1. /\ s.queue \in Seq(NamesFrom(g, root)) /\ t.queue \in Seq(NamesFrom(g, root))
        /\ s.order \in Seq(NamesFrom(g, root)) /\ t.order \in Seq(NamesFrom(g, root))
    BY <1>1 DEF Searches
  <2> HIDE DEF t
  <2>2. Len(s.queue) # 0
    BY <2>1, EmptySeq
  <2>3. QED
    BY <2>1, <2>2, LenProperties
<1> HIDE DEF t, n, I, c
<1>3. l \in Nat /\ Len(s.queue) = l + 1
  BY <1>2
<1> HIDE DEF l
<1>4. ToSet(t.order) = ToSet(s.order) \cup {n}
  <2>1. \A i \in DOMAIN t.order : i \in DOMAIN s.order \/ i = Len(t.order)
    BY <1>1, <1>2
  <2>2. Len(t.order) \in DOMAIN t.order /\ \A i \in DOMAIN s.order : i \in DOMAIN t.order
    BY <1>1, <1>2
  <2>3. ASSUME NEW x \in ToSet(t.order) PROVE x \in ToSet(s.order) \cup {n}
    <3>1. PICK i \in DOMAIN t.order : x = t.order[i]
      BY DEF ToSet
    <3>2. x = n \/ (i \in DOMAIN s.order /\ x = s.order[i])
      BY <1>1, <1>2, <2>1, <3>1
    <3>3. QED
      BY <3>2 DEF ToSet
  <2>4. ASSUME NEW x \in ToSet(s.order) PROVE x \in ToSet(t.order)
    <3>1. PICK i \in DOMAIN s.order : x = s.order[i]
      BY DEF ToSet
    <3>2. i \in DOMAIN t.order /\ x = t.order[i]
      BY <1>1, <1>2, <2>2, <3>1
    <3>3. QED
      BY <3>2 DEF ToSet
  <2>5. n \in ToSet(t.order)
    BY <1>1, <2>2 DEF ToSet
  <2>6. QED
    BY <2>3, <2>4, <2>5
<1>5. ToSet(t.queue) \subseteq ToSet(s.queue) \cup new
  <2>1. \A i \in DOMAIN t.queue : (i \in 1..l /\ i + 1 \in DOMAIN s.queue) \/ i \in l + 1 .. l + c
    <3>1. c \in Nat /\ Len(t.queue) = l + c
      BY <1>1
    <3>2. QED
      BY <1>2, <1>3, <3>1
  <2>2. ASSUME NEW x \in ToSet(t.queue) PROVE x \in ToSet(s.queue) \cup new
    <3>1. PICK i \in DOMAIN t.queue : x = t.queue[i]
      BY DEF ToSet
    <3>2. CASE i \in 1..l /\ i + 1 \in DOMAIN s.queue
      <4>1. x = s.queue[i + 1]
        BY <1>1, <3>1, <3>2
      <4>2. QED
        BY <3>2, <4>1 DEF ToSet
    <3>3. CASE i \in l + 1 .. l + c
      BY <1>1, <3>1, <3>3
    <3>4. QED
      BY <2>1, <3>2, <3>3
  <2>3. QED
    BY <2>2
<1>6. ToSet(s.queue) \subseteq ToSet(t.queue) \cup {n}
  <2>1. \A i \in DOMAIN s.queue : i = 1 \/ (i - 1 \in 1..l /\ (i - 1) + 1 = i /\ i - 1 \in DOMAIN t.queue)
    <3>1. c \in Nat /\ Len(t.queue) = l + c
      BY <1>1
    <3>2. QED
      BY <1>2, <1>3, <3>1
  <2>2. ASSUME NEW x \in ToSet(s.queue) PROVE x \in ToSet(t.queue) \cup {n}
    <3>1. PICK i \in DOMAIN s.queue : x = s.queue[i]
      BY DEF ToSet
    <3>2. CASE i = 1
      BY <1>2, <3>1, <3>2
    <3>3. CASE i # 1
      <4>1. i - 1 \in DOMAIN t.queue /\ x = t.queue[i - 1]
        BY <1>1, <2>1, <3>1, <3>3
      <4>2. QED
        BY <4>1 DEF ToSet
    <3>4. QED
      BY <3>2, <3>3
  <2>3. QED
    BY <2>2
<1>7. new \subseteq ToSet(t.queue)
  <2>1. \A i \in l + 1 .. l + c : i \in DOMAIN t.queue
    BY <1>1, <1>2, <1>3
  <2>2. QED
    BY <1>1, <2>1 DEF ToSet
<1>8. QED
  BY <1>4, <1>5, <1>6, <1>7, Zenon DEF t, n, I, Behind

\* Nothing outside X is one edge away from T.
ClosedUnder(g, T, X) ==
  \A i \in DOMAIN g.edges : g.edges[i].src \in T /\ g.edges[i].dst \notin X => g.edges[i].dst \in T

\* The nodes S can be reached from root: no closed set with root lacks one.
Forced(g, root, X, S) == \A T : ClosedUnder(g, T, X) /\ root \in T => S \subseteq T

\* The edges out of the nodes visited.
Used(g, s) == {i \in DOMAIN g.edges : g.edges[i].src \in ToSet(s.order)}

\* After k steps: nothing excluded was visited; what is enqueued is paid for
\* by an edge; the nodes visited lead to nodes visited or enqueued; all of
\* these are in every closed set that has the root; the root is among them.
SearchOK(s, k, g, root, X) ==
  /\ ToSet(s.order) \cap X = {}
  /\ s.queue # <<>> => k + Len(s.queue) <= 1 + Cardinality(Used(g, s))
  /\ ClosedUnder(g, ToSet(s.order), X \cup ToSet(s.queue))
  /\ Forced(g, root, X, ToSet(s.order) \cup ToSet(s.queue))
  /\ root \in ToSet(s.order) \cup ToSet(s.queue) \cup X

\* No more edges are used than there are.
LEMMA UsedFacts ==
  ASSUME NEW g, HasEdges(g), NEW s
  PROVE  /\ IsFiniteSet(Used(g, s)) /\ Cardinality(Used(g, s)) \in Nat
         /\ Cardinality(Used(g, s)) <= Len(g.edges)
<1>1. Used(g, s) \in SUBSET (1..Len(g.edges)) /\ Len(g.edges) \in Nat
  BY DEF HasEdges, Used
<1>2. IsFiniteSet(1..Len(g.edges)) /\ Cardinality(1..Len(g.edges)) = Len(g.edges)
  BY <1>1, FS_Interval
<1>3. QED
  BY <1>1, <1>2, FS_Subset, FS_CardinalityType


\* A search begins well.
LEMMA SearchBegins ==
  ASSUME NEW g, HasEdges(g), NEW root, NEW X
  PROVE  SearchOK(Start(root), 0, g, root, X)
<1> DEFINE s == Start(root)
<1>1. s.order = <<>> /\ s.queue = <<root>> /\ Len(s.queue) = 1 /\ ToSet(s.order) = {} /\ ToSet(s.queue) = {root}
  BY DEF Start, ToSet
<1>2. Used(g, s) = {}
  BY <1>1 DEF Used
<1> HIDE DEF s
<1>3. Cardinality(Used(g, s)) = 0
  BY <1>2, FS_EmptySet
<1>4. SearchOK(s, 0, g, root, X)
  BY <1>1, <1>3 DEF SearchOK, ClosedUnder, Forced
<1>5. QED
  BY <1>4 DEF s

\* What is known of the sets of a search, O visited and Q to be visited.
Known(g, root, X, O, Q) ==
  /\ ClosedUnder(g, O, X \cup Q)
  /\ Forced(g, root, X, O \cup Q)
  /\ root \in O \cup Q \cup X

\* A step visits n and enqueues those of the nodes behind it that may be entered.
Advances(g, X, n, O, Q, O2, Q2) ==
  /\ n \in Q /\ n \notin X
  /\ O2 = O \cup {n}
  /\ Q2 \subseteq Q \cup Behind(g, n, X)
  /\ Q \subseteq Q2 \cup {n}
  /\ Behind(g, n, X) \subseteq Q2

\* A visit keeps what is known of both sets.
LEMMA SetsKept ==
  ASSUME NEW g, NEW root, NEW X, NEW O, NEW Q, NEW O2, NEW Q2, NEW n,
         Known(g, root, X, O, Q), Advances(g, X, n, O, Q, O2, Q2)
  PROVE  Known(g, root, X, O2, Q2)
<1> USE DEF Known, Advances
<1>1. ASSUME NEW i \in DOMAIN g.edges, g.edges[i].src \in O2, g.edges[i].dst \notin X \cup Q2
      PROVE  g.edges[i].dst \in O2
  <2>1. CASE g.edges[i].src = n
    <3>1. i \in Ends(g, n, X)
      BY <1>1, <2>1 DEF Ends, get_outgoing_edges
    <3>2. QED
      BY <1>1, <3>1 DEF Behind
  <2>2. CASE g.edges[i].src # n
    BY <1>1, <2>2 DEF ClosedUnder
  <2>3. QED
    BY <2>1, <2>2
<1>2. ASSUME NEW T, ClosedUnder(g, T, X), root \in T PROVE O2 \cup Q2 \subseteq T
  <2>1. O \cup Q \subseteq T
    BY <1>2 DEF Forced
  <2>2. \A e \in Ends(g, n, X) : g.edges[e].dst \in T
    BY <1>2, <2>1 DEF Behind, Ends, get_outgoing_edges, ClosedUnder
  <2>3. Behind(g, n, X) \subseteq T
    BY <2>2 DEF Behind
  <2>4. QED
    BY <2>1, <2>3
<1>3. QED
  BY <1>1, <1>2 DEF ClosedUnder, Forced

\* The edges of a node visited are paid for by it.
LEMMA UsedGrows ==
  ASSUME NEW g, HasEdges(g), NEW X, NEW s, NEW t, NEW n, n \notin ToSet(s.order),
         ToSet(t.order) = ToSet(s.order) \cup {n}
  PROVE  /\ Cardinality(Ends(g, n, X)) \in Nat
         /\ Cardinality(Used(g, s)) + Cardinality(Ends(g, n, X)) <= Cardinality(Used(g, t))
<1> DEFINE I == Ends(g, n, X)
           U == Used(g, s)
           V == Used(g, t)
<1>1. U \cap I = {} /\ U \cup I \in SUBSET V /\ I \in SUBSET (1..Len(g.edges))
  BY DEF Used, Ends, get_outgoing_edges, HasEdges
<1>2. IsFiniteSet(I)
  <2>1. IsFiniteSet(1..Len(g.edges))
    BY FS_Interval DEF HasEdges
  <2>2. QED
    BY <1>1, <2>1, FS_Subset
<1>3. IsFiniteSet(U) /\ IsFiniteSet(V)
  BY UsedFacts
<1> HIDE DEF I, U, V
<1>4. Cardinality(U \cup I) = Cardinality(U) + Cardinality(I) - Cardinality(U \cap I)
  BY <1>2, <1>3, FS_Union
<1>5. Cardinality(U \cap I) = 0
  BY <1>1, FS_EmptySet
<1>6. Cardinality(U \cup I) <= Cardinality(V)
  BY <1>1, <1>3, FS_Subset
<1>7. Cardinality(U) \in Nat /\ Cardinality(I) \in Nat /\ Cardinality(V) \in Nat
  BY <1>2, <1>3, FS_CardinalityType
<1>8. QED
  BY <1>4, <1>5, <1>6, <1>7 DEF I, U, V

\* Every step keeps what is known of a search.
LEMMA SearchGoesOn ==
  ASSUME NEW g, HasEdges(g), NEW root, NEW X, NEW k \in Nat, NEW s \in Searches(g, root),
         SearchOK(s, k, g, root, X)
  PROVE  SearchOK(BfsStep(g, s, X), k + 1, g, root, X)
<1> DEFINE t == BfsStep(g, s, X)
           n == Head(s.queue)
           O == ToSet(s.order)
           Q == ToSet(s.queue)
           O2 == ToSet(t.order)
           Q2 == ToSet(t.queue)
<1>1. CASE s.queue = <<>>
  <2>1. BfsStep(g, s, X) = s
    BY <1>1, StepEnds
  <2>2. SearchOK(s, k + 1, g, root, X)
    BY <1>1 DEF SearchOK
  <2>3. QED
    BY <2>1, <2>2
<1>2. CASE s.queue # <<>>
  <2>1. n \in Q /\ Len(s.queue) \in Nat \ {0}
    <3>1. s.queue \in Seq(NamesFrom(g, root))
      BY DEF Searches
    <3>2. n = s.queue[1] /\ Len(s.queue) \in Nat \ {0} /\ DOMAIN s.queue = 1..Len(s.queue)
      BY <1>2, <3>1, EmptySeq, LenProperties
    <3>3. 1 \in DOMAIN s.queue
      BY <3>2
    <3>4. QED
      BY <3>2, <3>3 DEF ToSet
  <2>2. Cardinality(Used(g, s)) \in Nat /\ Cardinality(Used(g, t)) \in Nat
    BY UsedFacts
  <2>3. /\ O \cap X = {}
        /\ k + Len(s.queue) <= 1 + Cardinality(Used(g, s))
        /\ ClosedUnder(g, O, X \cup Q)
        /\ Forced(g, root, X, O \cup Q)
        /\ root \in O \cup Q \cup X
    BY <1>2 DEF SearchOK
  <2>4. CASE n \in O \cup X
    <3>1. /\ O2 = O /\ Q2 \subseteq Q
          /\ Q \subseteq Q2 \cup {n}
      BY <1>2, <2>4, SkipSets
    <3>2. Len(t.queue) = Len(s.queue) - 1 /\ t.order = s.order
      BY <1>2, <2>4, StepSkips
    <3>3. Used(g, t) = Used(g, s)
      BY <3>1 DEF Used
    <3> HIDE DEF t, n, O, Q, O2, Q2
    <3>4. (k + 1) + Len(t.queue) <= 1 + Cardinality(Used(g, t))
      <4>1. k + Len(s.queue) <= 1 + Cardinality(Used(g, s))
        BY <2>3
      <4> DEFINE a == Len(s.queue)
                 b == Len(t.queue)
                 u == Cardinality(Used(g, s))
                 v == Cardinality(Used(g, t))
      <4>2. a \in Nat /\ u \in Nat /\ v \in Nat /\ k + a <= 1 + u
        BY <2>1, <2>2, <4>1
      <4>3. b = a - 1 /\ u = v
        BY <3>2, <3>3
      <4> HIDE DEF a, b, u, v
      <4>4. (k + 1) + b <= 1 + v
        BY <4>2, <4>3
      <4>5. QED
        BY <4>4 DEF b, v
    <3>5. ClosedUnder(g, O2, X \cup Q2)
      BY <2>3, <2>4, <3>1 DEF ClosedUnder
    <3>6. /\ Forced(g, root, X, O2 \cup Q2)
          /\ root \in O2 \cup Q2 \cup X
      BY <2>3, <2>4, <3>1 DEF Forced
    <3>7. SearchOK(t, k + 1, g, root, X)
      BY <2>3, <3>1, <3>4, <3>5, <3>6 DEF SearchOK, O, Q, O2, Q2
    <3>8. QED
      BY <3>7 DEF t
  <2>5. CASE n \notin O \cup X
    <3> DEFINE c == Cardinality(Ends(g, n, X))
    <3>1. /\ O2 = O \cup {n}
          /\ Q2 \subseteq Q \cup Behind(g, n, X)
          /\ Q \subseteq Q2 \cup {n}
          /\ Behind(g, n, X) \subseteq Q2
      BY <1>2, <2>5, VisitSets
    <3>2. Len(t.queue) = Len(s.queue) - 1 + c
      <4>1. Visits(g, root, X, s, t)
        BY <1>2, <2>5, StepVisits
      <4>2. QED
        BY <4>1, Zenon DEF Visits
    <3>3. c \in Nat /\ Cardinality(Used(g, s)) + c <= Cardinality(Used(g, t))
      <4>1. n \notin ToSet(s.order) /\ ToSet(t.order) = ToSet(s.order) \cup {n}
        BY <2>5, <3>1
      <4> HIDE DEF n, t
      <4>2. QED
        BY <4>1, UsedGrows
    <3> HIDE DEF t, n, c
    <3>4. (k + 1) + Len(t.queue) <= 1 + Cardinality(Used(g, t))
      <4>1. k + Len(s.queue) <= 1 + Cardinality(Used(g, s))
        BY <2>3
      <4> DEFINE a == Len(s.queue)
                 b == Len(t.queue)
                 u == Cardinality(Used(g, s))
                 v == Cardinality(Used(g, t))
      <4>2. a \in Nat /\ u \in Nat /\ v \in Nat /\ k + a <= 1 + u
        BY <2>1, <2>2, <4>1
      <4>3. b = a - 1 + c /\ c \in Nat /\ u + c <= v
        BY <3>2, <3>3
      <4> HIDE DEF a, b, u, v
      <4>4. (k + 1) + b <= 1 + v
        BY <4>2, <4>3
      <4>5. QED
        BY <4>4 DEF b, v
    <3> HIDE DEF O, Q, O2, Q2
    <3>5. /\ ClosedUnder(g, O2, X \cup Q2)
          /\ Forced(g, root, X, O2 \cup Q2)
          /\ root \in O2 \cup Q2 \cup X
      <4>1. n \notin X /\ n \in Q
        BY <2>1, <2>5
      <4>2. /\ ClosedUnder(g, O, X \cup Q)
            /\ Forced(g, root, X, O \cup Q)
            /\ root \in O \cup Q \cup X
        BY <2>3
      <4>3. QED
        <5>1. Known(g, root, X, O, Q)
          BY <4>2 DEF Known
        <5>2. Advances(g, X, n, O, Q, O2, Q2)
          BY <3>1, <4>1 DEF Advances
        <5>3. Known(g, root, X, O2, Q2)
          BY <5>1, <5>2, SetsKept, Zenon
        <5>4. QED
          BY <5>3 DEF Known
    <3>6. O2 \cap X = {}
      BY <2>3, <2>5, <3>1
    <3>7. SearchOK(t, k + 1, g, root, X)
      BY <3>4, <3>5, <3>6 DEF SearchOK, O2, Q2
    <3>8. QED
      BY <3>7 DEF t
  <2>6. QED
    BY <2>4, <2>5
<1>3. QED
  BY <1>1, <1>2

\* After its last step the queue of a search is empty.
LEMMA SearchFinds ==
  ASSUME NEW g, HasEdges(g), NEW root, NEW X, NEW f, IsSearch(f, g, root, X)
  PROVE  /\ \A k \in 0..Len(g.edges) + 1 : SearchOK(f[k], k, g, root, X)
         /\ f[Len(g.edges) + 1].queue = <<>>
<1> DEFINE N == Len(g.edges) + 1
           T == {k \in Nat : k <= N => SearchOK(f[k], k, g, root, X)}
<1>1. Len(g.edges) \in Nat /\ N \in Nat
  BY DEF HasEdges
<1>2. /\ f \in [0..N -> Searches(g, root)] /\ f[0] = Start(root)
      /\ \A k \in 1..N : f[k] = BfsStep(g, f[k - 1], X)
  BY DEF IsSearch
<1>3. 0 \in T
  BY <1>2, SearchBegins
<1>4. ASSUME NEW k \in T PROVE k + 1 \in T
  <2>1. SUFFICES ASSUME k + 1 <= N PROVE SearchOK(f[k + 1], k + 1, g, root, X)
    OBVIOUS
  <2>2. k \in Nat /\ k <= N /\ k \in 0..N /\ k + 1 \in 1..N /\ (k + 1) - 1 = k
    BY <1>1, <2>1
  <2>3. SearchOK(f[k], k, g, root, X)
    BY <2>2
  <2> HIDE DEF N, T
  <2>4. f[k] \in Searches(g, root) /\ f[k + 1] = BfsStep(g, f[k], X)
    BY <1>2, <2>2
  <2>5. QED
    BY <2>2, <2>3, <2>4, SearchGoesOn
<1>5. T = Nat
  <2>1. T \in SUBSET Nat
    OBVIOUS
  <2> HIDE DEF T
  <2>2. QED
    BY <1>3, <1>4, <2>1, NatInd
<1>6. ASSUME NEW k \in 0..N PROVE SearchOK(f[k], k, g, root, X)
  <2>1. k \in T /\ k <= N
    BY <1>1, <1>5
  <2>2. QED
    BY <2>1
<1>7. f[N].queue = <<>>
  <2>1. N \in 0..N
    BY <1>1
  <2>2. SearchOK(f[N], N, g, root, X)
    BY <1>6, <2>1
  <2>3. f[N] \in Searches(g, root)
    <3> HIDE DEF N
    <3>1. QED
      BY <1>2, <2>1
  <2>4. Len(f[N].queue) \in Nat /\ (f[N].queue # <<>> => Len(f[N].queue) # 0)
    <3>1. f[N].queue \in Seq(NamesFrom(g, root))
      BY <2>3 DEF Searches
    <3>2. QED
      BY <3>1, EmptySeq, LenProperties
  <2>5. Cardinality(Used(g, f[N])) \in Nat /\ Cardinality(Used(g, f[N])) <= Len(g.edges)
    BY UsedFacts
  <2>6. f[N].queue # <<>> => N + Len(f[N].queue) <= 1 + Cardinality(Used(g, f[N]))
    BY <2>2 DEF SearchOK
  <2>7. QED
    <3> DEFINE q == Len(f[N].queue)
               u == Cardinality(Used(g, f[N]))
               e == Len(g.edges)
    <3>1. q \in Nat /\ u \in Nat /\ e \in Nat /\ u <= e /\ (f[N].queue # <<>> => e + 1 + q <= 1 + u)
      BY <1>1, <2>4, <2>5, <2>6
    <3>2. f[N].queue # <<>> => q # 0
      BY <2>4
    <3> HIDE DEF q, u, e
    <3>3. QED
      BY <3>1, <3>2
<1>8. QED
  BY <1>6, <1>7

\* A search (reachable_from, _reachable_nodes, the one of a branch) visits just
\* what can be reached from its root without entering an excluded node: the
\* least closed set that has the root.
THEOREM BfsFinds ==
  ASSUME NEW g, HasEdges(g), NEW root, NEW X, root \notin X
  PROVE  LET R == ToSet(BfsOrder(g, root, X)) IN
         /\ root \in R /\ R \cap X = {} /\ ClosedUnder(g, R, X)
         /\ Forced(g, root, X, R)
<1>1. PICK f : IsSearch(f, g, root, X) /\ BfsOrder(g, root, X) = f[Len(g.edges) + 1].order
  BY SearchIs
<1> DEFINE s == f[Len(g.edges) + 1]
<1>2. SearchOK(s, Len(g.edges) + 1, g, root, X) /\ s.queue = <<>>
  <2>1. Len(g.edges) + 1 \in 0..Len(g.edges) + 1
    BY DEF HasEdges
  <2>2. QED
    BY <1>1, <2>1, SearchFinds
<1>3. ToSet(s.queue) = {}
  BY <1>2 DEF ToSet
<1>4. QED
  BY <1>1, <1>2, <1>3 DEF SearchOK, ClosedUnder, Forced


\* A search from an excluded node finds nothing: its first step drops the root.
LEMMA NothingFound ==
  ASSUME NEW g, HasEdges(g), NEW X, NEW root \in X
  PROVE  ToSet(BfsOrder(g, root, X)) = {}
<1>1. PICK f : IsSearch(f, g, root, X) /\ BfsOrder(g, root, X) = f[Len(g.edges) + 1].order
  BY SearchIs
<1> DEFINE N == Len(g.edges) + 1
           Idle(s) == s.order = <<>> /\ (s.queue = <<>> \/ s.queue = <<root>>)
           T == {k \in Nat : k <= N => Idle(f[k])}
<1>2. N \in Nat
  BY DEF HasEdges
<1>3. /\ f \in [0..N -> Searches(g, root)] /\ f[0] = Start(root)
      /\ \A k \in 1..N : f[k] = BfsStep(g, f[k - 1], X)
  BY <1>1 DEF IsSearch
<1> HIDE DEF N
<1>4. 0 \in T
  BY <1>3 DEF Start
<1>5. ASSUME NEW k \in T PROVE k + 1 \in T
  <2>1. SUFFICES ASSUME k + 1 <= N PROVE Idle(f[k + 1])
    OBVIOUS
  <2>2. k \in Nat /\ k <= N /\ k \in 0..N /\ k + 1 \in 1..N /\ (k + 1) - 1 = k
    BY <1>2, <2>1
  <2>3. Idle(f[k]) /\ f[k + 1] = BfsStep(g, f[k], X) /\ f[k] \in Searches(g, root)
    BY <1>3, <2>2
  <2> DEFINE s == f[k]
             u == BfsStep(g, s, X)
  <2>4. CASE s.queue = <<>>
    BY <2>3, <2>4, StepEnds
  <2>5. CASE s.queue # <<>>
    <3>1. s.queue = <<root>> /\ Head(s.queue) = root /\ Len(s.queue) = 1
      <4>1. s.queue = <<root>>
        BY <2>3, <2>5
      <4>2. Head(<<root>>) = root /\ Len(<<root>>) = 1
        OBVIOUS
      <4> HIDE DEF s
      <4>3. QED
        BY <4>1, <4>2
    <3>2. u \in Searches(g, root) /\ u.order = s.order /\ Len(u.queue) = Len(s.queue) - 1
      BY <2>3, <2>5, <3>1, StepSkips
    <3>3. u.queue = <<>>
      <4>1. u.queue \in Seq(NamesFrom(g, root))
        BY <3>2 DEF Searches
      <4> HIDE DEF u
      <4>2. Len(u.queue) = 0
        BY <3>1, <3>2
      <4>3. QED
        BY <4>1, <4>2, EmptySeq
    <3>4. QED
      BY <2>3, <3>2, <3>3
  <2>6. QED
    BY <2>4, <2>5
<1>6. T = Nat
  <2>1. T \in SUBSET Nat
    OBVIOUS
  <2> HIDE DEF T
  <2>2. QED
    BY <1>4, <1>5, <2>1, NatInd
<1>7. Idle(f[N])
  <2>1. N \in T /\ N <= N
    BY <1>2, <1>6
  <2>2. QED
    BY <2>1
<1>8. QED
  BY <1>1, <1>7 DEF ToSet, N

(***************************************************************************)
(* The order of a search: nearer nodes first.                              *)
(***************************************************************************)

Before(q, i) == {q[j] : j \in 1..(i - 1)}

\* The nodes W of one level: what comes after a node that is not in W, in the
\* order or in the queue, is not in W either, as all of W came before.
OrderNear(s, W) == \A i \in 1..Len(s.order) : s.order[i] \in W \/ W \subseteq Before(s.order, i)
QueueNear(s, W) == \A i \in 1..Len(s.queue) :
                     s.queue[i] \in W \/ W \subseteq ToSet(s.order) \cup Before(s.queue, i)
Near(s, W) == OrderNear(s, W) /\ QueueNear(s, W)

\* The next level.
Beyond(g, W) == W \cup {g.edges[i].dst : i \in {j \in DOMAIN g.edges : g.edges[j].src \in W}}

\* The root is visited first.
Begun(s, root) == s = Start(root) \/ root \in ToSet(s.order)

\* A sequence and the set of its members.
LEMMA SeqSet ==
  ASSUME NEW N, NEW q \in Seq(N)
  PROVE  /\ Len(q) \in Nat /\ DOMAIN q = 1..Len(q)
         /\ ToSet(q) = {q[i] : i \in 1..Len(q)}
         /\ q # <<>> => Len(q) # 0 /\ Head(q) = q[1]
BY LenProperties, EmptySeq, HeadTailProperties DEF ToSet

\* A search begins in order.
LEMMA NearBegins ==
  ASSUME NEW root, NEW W, root \in W
  PROVE  Near(Start(root), W)
<1>1. Start(root).order = <<>> /\ Start(root).queue = <<root>> /\ Len(<<>>) = 0 /\ Len(<<root>>) = 1
  BY DEF Start
<1>2. \A i \in 1..1 : <<root>>[i] \in W
  OBVIOUS
<1>3. OrderNear(Start(root), W)
  BY <1>1 DEF OrderNear
<1>4. QueueNear(Start(root), W)
  BY <1>1, <1>2 DEF QueueNear
<1>5. QED
  BY <1>3, <1>4 DEF Near

\* An entry that is dropped was visited, so the order is kept.
LEMMA NearSkips ==
  ASSUME NEW g, NEW root, NEW X, NEW s \in Searches(g, root), s.queue # <<>>,
         Head(s.queue) \in ToSet(s.order) \cup X, X = {}, NEW W, Near(s, W)
  PROVE  Near(BfsStep(g, s, X), W)
<1> DEFINE t == BfsStep(g, s, X)
<1>1. /\ t.order = s.order /\ Len(t.queue) = Len(s.queue) - 1
      /\ \A i \in 1..Len(t.queue) : t.queue[i] = s.queue[i + 1]
  BY StepSkips
<1>2. /\ Len(s.queue) \in Nat \ {0} /\ s.queue[1] \in ToSet(s.order)
  <2>1. s.queue \in Seq(NamesFrom(g, root))
    BY DEF Searches
  <2>2. QED
    BY <2>1, SeqSet
<1> HIDE DEF t
<1>3. OrderNear(t, W)
  BY <1>1 DEF Near, OrderNear
<1>4. ASSUME NEW i \in 1..Len(t.queue), t.queue[i] \notin W, NEW x \in W, x \notin ToSet(t.order)
      PROVE  x \in Before(t.queue, i)
  <2>1. i + 1 \in 1..Len(s.queue) /\ s.queue[i + 1] \notin W
    BY <1>1, <1>2, <1>4
  <2>2. x \in Before(s.queue, i + 1)
    <3>1. W \subseteq ToSet(s.order) \cup Before(s.queue, i + 1)
      BY <2>1 DEF Near, QueueNear
    <3>2. QED
      BY <1>1, <1>4, <3>1
  <2>3. PICK j \in 1..((i + 1) - 1) : x = s.queue[j]
    BY <2>2 DEF Before
  <2>4. j # 1
    BY <1>1, <1>2, <1>4, <2>3
  <2>5. j - 1 \in 1..(i - 1) /\ j - 1 \in 1..Len(t.queue) /\ (j - 1) + 1 = j
    BY <1>1, <1>2, <2>3, <2>4
  <2>6. t.queue[j - 1] = x
    BY <1>1, <2>3, <2>5
  <2>7. QED
    BY <2>5, <2>6 DEF Before
<1>5. QueueNear(t, W)
  BY <1>4 DEF QueueNear
<1>6. QED
  BY <1>3, <1>5 DEF Near, t

\* What is behind a node that is not in a level comes when all of the next
\* level was visited or enqueued.
LEMMA NearVisits ==
  ASSUME NEW g, HasEdges(g), NEW root, NEW s \in Searches(g, root), s.queue # <<>>,
         Head(s.queue) \notin ToSet(s.order), NEW W, Near(s, W),
         ClosedUnder(g, ToSet(s.order), ToSet(s.queue)), Begun(s, root),
         W = {root} \/ \E V : Near(s, V) /\ W = Beyond(g, V)
  PROVE  Near(BfsStep(g, s, {}), W)
<1> DEFINE t == BfsStep(g, s, {})
           n == Head(s.queue)
           I == Ends(g, n, {})
           l == Len(s.queue) - 1
           c == Cardinality(I)
<1>1. /\ t \in Searches(g, root)
      /\ Len(t.order) = Len(s.order) + 1 /\ t.order[Len(t.order)] = n
      /\ \A i \in 1..Len(s.order) : t.order[i] = s.order[i]
      /\ c \in Nat /\ Len(t.queue) = l + c
      /\ \A i \in 1..l : t.queue[i] = s.queue[i + 1]
      /\ \A i \in l + 1 .. l + c : \E e \in I : t.queue[i] = g.edges[e].dst
  <2>1. Visits(g, root, {}, s, t)
    BY StepVisits
  <2>2. QED
    BY <2>1, Zenon DEF Visits
<1>2. /\ Len(s.order) \in Nat /\ Len(s.queue) \in Nat \ {0} /\ n = s.queue[1]
      /\ ToSet(s.order) = {s.order[i] : i \in 1..Len(s.order)}
      /\ ToSet(s.queue) = {s.queue[i] : i \in 1..Len(s.queue)}
  <2>1. s.order \in Seq(NamesFrom(g, root)) /\ s.queue \in Seq(NamesFrom(g, root))
    BY DEF Searches
  <2>2. QED
    BY <2>1, SeqSet
<1>3. ToSet(t.order) = ToSet(s.order) \cup {n}
  BY VisitSets
<1>4. root \in ToSet(t.order)
  <2>1. s = Start(root) => n = root
    BY DEF Start
  <2>2. QED
    BY <1>3, <2>1 DEF Begun
<1>5. \A e \in I : e \in DOMAIN g.edges /\ g.edges[e].src = n
  BY DEF Ends, get_outgoing_edges
<1> HIDE DEF t, n, I, c
<1>6. l \in Nat /\ Len(s.queue) = l + 1
  BY <1>2
<1> HIDE DEF l
\* No node of a level is before the head of the queue but those visited.
<1>7. ASSUME NEW V, Near(s, V), n \notin V PROVE V \subseteq ToSet(s.order)
  <2>1. 1 \in 1..Len(s.queue) /\ Before(s.queue, 1) = {}
    BY <1>2 DEF Before
  <2>2. QED
    BY <1>2, <1>7, <2>1 DEF Near, QueueNear
<1>8. OrderNear(t, W)
  <2>1. ASSUME NEW i \in 1..Len(t.order), t.order[i] \notin W, NEW x \in W PROVE x \in Before(t.order, i)
    <3>1. CASE i = Len(t.order)
      <4>1. x \in ToSet(s.order)
        BY <1>1, <1>7, <2>1, <3>1
      <4>2. PICK j \in 1..Len(s.order) : x = s.order[j]
        BY <1>2, <4>1
      <4>3. j \in 1..(i - 1) /\ t.order[j] = x
        BY <1>1, <1>2, <3>1, <4>2
      <4>4. QED
        BY <4>3 DEF Before
    <3>2. CASE i # Len(t.order)
      <4>1. i \in 1..Len(s.order) /\ s.order[i] = t.order[i]
        BY <1>1, <1>2, <3>2
      <4>2. x \in Before(s.order, i)
        BY <2>1, <4>1 DEF Near, OrderNear
      <4>3. PICK j \in 1..(i - 1) : x = s.order[j]
        BY <4>2 DEF Before
      <4>4. t.order[j] = x
        BY <1>1, <1>2, <4>1, <4>3
      <4>5. QED
        BY <4>3, <4>4 DEF Before
    <3>3. QED
      BY <3>1, <3>2
  <2>2. QED
    BY <2>1 DEF OrderNear
\* A node of the old queue behind its head was moved up by one.
<1>9. ASSUME NEW i \in 1..Len(t.queue), NEW j \in 1..Len(s.queue), j <= i \/ i > l, s.queue[j] # n
      PROVE  s.queue[j] \in Before(t.queue, i)
  <2>1. j # 1
    BY <1>2, <1>9
  <2>2. j - 1 \in 1..(i - 1) /\ j - 1 \in 1..l /\ (j - 1) + 1 = j
    BY <1>2, <1>6, <1>9, <2>1
  <2>3. t.queue[j - 1] = s.queue[j]
    BY <1>1, <2>2
  <2>4. QED
    BY <2>2, <2>3 DEF Before
<1>10. QueueNear(t, W)
  <2>1. ASSUME NEW i \in 1..Len(t.queue), t.queue[i] \notin W, NEW x \in W, x \notin ToSet(t.order)
        PROVE  x \in Before(t.queue, i)
    <3>1. CASE i \in 1..l
      <4>1. i + 1 \in 1..Len(s.queue) /\ s.queue[i + 1] \notin W
        BY <1>1, <1>6, <2>1, <3>1
      <4>2. x \in Before(s.queue, i + 1)
        BY <1>3, <2>1, <4>1 DEF Near, QueueNear
      <4>3. PICK j \in 1..((i + 1) - 1) : x = s.queue[j]
        BY <4>2 DEF Before
      <4>4. j \in 1..Len(s.queue) /\ j <= i /\ s.queue[j] # n
        BY <1>3, <1>6, <2>1, <3>1, <4>3
      <4>5. QED
        BY <1>9, <4>3, <4>4
    <3>2. CASE i \in l + 1 .. l + c
      <4>1. PICK e \in I : t.queue[i] = g.edges[e].dst
        BY <1>1, <3>2
      <4>2. x # root
        BY <1>4, <2>1
      <4>3. PICK V : Near(s, V) /\ W = Beyond(g, V)
        BY <2>1, <4>2
      <4>4. n \notin V
        BY <1>5, <2>1, <4>1, <4>3 DEF Beyond
      <4>5. V \subseteq ToSet(s.order)
        BY <1>7, <4>3, <4>4
      <4>6. x \in ToSet(s.queue)
        <5>1. CASE x \in V
          BY <1>3, <2>1, <4>5, <5>1
        <5>2. CASE x \notin V
          <6>1. PICK d \in DOMAIN g.edges : g.edges[d].src \in V /\ x = g.edges[d].dst
            BY <2>1, <4>3, <5>2 DEF Beyond
          <6>2. QED
            BY <1>3, <2>1, <4>5, <6>1 DEF ClosedUnder
        <5>3. QED
          BY <5>1, <5>2
      <4>7. PICK j \in 1..Len(s.queue) : x = s.queue[j]
        BY <1>2, <4>6
      <4>8. i > l /\ x # n
        BY <1>3, <1>6, <2>1, <3>2
      <4>9. QED
        BY <1>9, <4>7, <4>8
    <3>3. i \in 1..l \/ i \in l + 1 .. l + c
      <4>1. Len(t.queue) = l + c /\ c \in Nat
        BY <1>1
      <4>2. QED
        BY <1>6, <4>1
    <3>4. QED
      BY <3>1, <3>2, <3>3
  <2>2. QED
    BY <2>1 DEF QueueNear
<1>11. QED
  BY <1>8, <1>10 DEF Near, t


\* w holds the nodes within 0 to m edges of the root.
IsLevels(w, g, root, m) ==
  /\ DOMAIN w = 0..m /\ w[0] = {root}
  /\ \A k \in 1..m : w[k] = Beyond(g, w[k - 1])

\* The root is in every level.
LEMMA LevelsGrow ==
  ASSUME NEW g, NEW root, NEW m \in Nat, NEW w, IsLevels(w, g, root, m)
  PROVE  \A k \in 0..m : root \in w[k]
<1> DEFINE T == {k \in Nat : k <= m => root \in w[k]}
<1>1. 0 \in T
  BY DEF IsLevels
<1>2. ASSUME NEW k \in T PROVE k + 1 \in T
  <2>1. k + 1 <= m => k + 1 \in 1..m /\ (k + 1) - 1 = k /\ k <= m
    OBVIOUS
  <2>2. k + 1 <= m => w[k + 1] = Beyond(g, w[k])
    BY <2>1 DEF IsLevels
  <2>3. QED
    BY <2>1, <2>2 DEF Beyond
<1>3. T = Nat
  <2>1. T \in SUBSET Nat
    OBVIOUS
  <2> HIDE DEF T
  <2>2. QED
    BY <1>1, <1>2, <2>1, NatInd
<1>4. ASSUME NEW k \in 0..m PROVE root \in w[k]
  <2>1. k \in T /\ k <= m
    BY <1>3
  <2>2. QED
    BY <2>1
<1>5. QED
  BY <1>4

AllNear(s, w, root, m) == Begun(s, root) /\ \A j \in 0..m : Near(s, w[j])

\* Every step keeps the order of all levels.
LEMMA StepNear ==
  ASSUME NEW g, HasEdges(g), NEW root, NEW s \in Searches(g, root), NEW k, SearchOK(s, k, g, root, {}),
         NEW m \in Nat, NEW w, IsLevels(w, g, root, m), AllNear(s, w, root, m)
  PROVE  AllNear(BfsStep(g, s, {}), w, root, m)
<1> DEFINE t == BfsStep(g, s, {})
<1>1. CASE s.queue = <<>>
  <2>1. BfsStep(g, s, {}) = s
    BY <1>1, StepEnds
  <2>2. QED
    BY <2>1
<1>2. CASE s.queue # <<>> /\ Head(s.queue) \in ToSet(s.order)
  <2>1. ASSUME NEW j \in 0..m PROVE Near(t, w[j])
    <3>1. Near(s, w[j])
      BY DEF AllNear
    <3>2. QED
      BY <1>2, <3>1, NearSkips
  <2>2. Begun(t, root)
    <3>1. root \in ToSet(s.order)
      BY <1>2 DEF AllNear, Begun, Start, ToSet
    <3>2. ToSet(t.order) = ToSet(s.order)
      BY <1>2, SkipSets
    <3>3. QED
      BY <3>1, <3>2 DEF Begun
  <2>3. QED
    BY <2>1, <2>2 DEF AllNear
<1>3. CASE s.queue # <<>> /\ Head(s.queue) \notin ToSet(s.order)
  <2>1. ClosedUnder(g, ToSet(s.order), ToSet(s.queue)) /\ Begun(s, root)
    BY DEF SearchOK, ClosedUnder, AllNear
  <2>2. ASSUME NEW j \in 0..m PROVE Near(t, w[j])
    <3>1. w[j] = {root} \/ \E V : Near(s, V) /\ w[j] = Beyond(g, V)
      <4>1. CASE j = 0
        BY <4>1 DEF IsLevels
      <4>2. CASE j # 0
        <5>1. j \in 1..m /\ j - 1 \in 0..m
          BY <4>2
        <5>2. w[j] = Beyond(g, w[j - 1]) /\ Near(s, w[j - 1])
          BY <5>1 DEF IsLevels, AllNear
        <5>3. QED
          BY <5>2
      <4>3. QED
        BY <4>1, <4>2
    <3>2. Near(s, w[j])
      BY DEF AllNear
    <3>3. QED
      BY <1>3, <2>1, <3>1, <3>2, NearVisits
  <2>3. Begun(t, root)
    <3>1. ToSet(t.order) = ToSet(s.order) \cup {Head(s.queue)}
      BY <1>3, VisitSets
    <3>2. s = Start(root) => Head(s.queue) = root
      BY DEF Start
    <3>3. QED
      BY <2>1, <3>1, <3>2 DEF Begun
  <2>4. QED
    BY <2>2, <2>3 DEF AllNear
<1>4. QED
  BY <1>1, <1>2, <1>3

\* A search that excludes nothing finds nearer nodes first, which is why
\* _find_merge_node may take the first common node in its order.
THEOREM BfsIsNear ==
  ASSUME NEW g, HasEdges(g), NEW root, NEW m \in Nat, NEW w, IsLevels(w, g, root, m)
  PROVE  LET order == BfsOrder(g, root, {}) IN
         /\ Len(order) \in Nat /\ DOMAIN order = 1..Len(order)
         /\ \A j \in 0..m, i \in 1..Len(order) : order[i] \in w[j] \/ w[j] \subseteq Before(order, i)
<1>1. PICK f : IsSearch(f, g, root, {}) /\ BfsOrder(g, root, {}) = f[Len(g.edges) + 1].order
  BY SearchIs
<1> DEFINE N == Len(g.edges) + 1
           T == {k \in Nat : k <= N => AllNear(f[k], w, root, m)}
<1>2. N \in Nat
  BY DEF HasEdges
<1>3. /\ f \in [0..N -> Searches(g, root)] /\ f[0] = Start(root)
      /\ \A k \in 1..N : f[k] = BfsStep(g, f[k - 1], {})
      /\ \A k \in 0..N : SearchOK(f[k], k, g, root, {})
  BY <1>1, SearchFinds DEF IsSearch
<1> HIDE DEF N
<1>4. AllNear(f[0], w, root, m)
  <2>1. \A j \in 0..m : Near(Start(root), w[j])
    BY LevelsGrow, NearBegins
  <2>2. QED
    BY <1>3, <2>1 DEF AllNear, Begun
<1>5. ASSUME NEW k \in T PROVE k + 1 \in T
  <2>1. SUFFICES ASSUME k + 1 <= N PROVE AllNear(f[k + 1], w, root, m)
    OBVIOUS
  <2>2. k \in Nat /\ k <= N /\ k \in 0..N /\ k + 1 \in 1..N /\ (k + 1) - 1 = k
    BY <1>2, <2>1
  <2>3. AllNear(f[k], w, root, m)
    BY <2>2
  <2>4. f[k] \in Searches(g, root) /\ f[k + 1] = BfsStep(g, f[k], {}) /\ SearchOK(f[k], k, g, root, {})
    BY <1>3, <2>2
  <2>5. QED
    BY <2>3, <2>4, StepNear
<1>6. T = Nat
  <2>1. T \in SUBSET Nat /\ 0 \in T
    BY <1>4
  <2> HIDE DEF T
  <2>2. QED
    BY <1>5, <2>1, NatInd
<1>7. AllNear(f[N], w, root, m)
  <2>1. N \in T /\ N <= N
    BY <1>2, <1>6
  <2>2. QED
    BY <2>1
<1>8. f[N].order \in Seq(NamesFrom(g, root))
  <2>1. f[N] \in Searches(g, root)
    BY <1>2, <1>3
  <2>2. QED
    BY <2>1 DEF Searches
<1> DEFINE order == f[N].order
<1>9. Len(order) \in Nat /\ DOMAIN order = 1..Len(order)
  BY <1>8, SeqSet
<1>10. \A j \in 0..m, i \in 1..Len(order) : order[i] \in w[j] \/ w[j] \subseteq Before(order, i)
  BY <1>7 DEF AllNear, Near, OrderNear
<1>11. QED
  BY <1>1, <1>9, <1>10 DEF N

(***************************************************************************)
(* The reference definition: distances.                                    *)
(***************************************************************************)

\* Within(a) holds the nodes within 0, 1, ... edges of a.
LEMMA WithinIs ==
  ASSUME IsFiniteSet(Names), NEW a
  PROVE  /\ Cardinality(Names) \in Nat
         /\ IsLevels(Within(a), graph, a, Cardinality(Names))
<1> DEFINE m == Cardinality(Names)
           S == SUBSET NamesFrom(graph, a)
           w[k \in 0..m] ==
             IF k = 0 THEN {a}
             ELSE w[k - 1] \cup {graph.edges[i].dst :
                                   i \in {j \in DOMAIN graph.edges : graph.edges[j].src \in w[k - 1]}}
           on == [k \in 1..m |-> [W \in S |-> Beyond(graph, W)]]
<1>1. m \in Nat
  BY FS_CardinalityType
<1>2. {a} \in S /\ \A W \in S : Beyond(graph, W) \in S
  BY DEF NamesFrom, Beyond
<1>3. on \in [1..m -> [S -> S]]
  BY <1>2
<1>4. PICK f : Unfolds(f, m, S, {a}, on)
  <2> HIDE DEF m, S, on
  <2>1. QED
    BY <1>1, <1>2, <1>3, Recursion
<1>5. f \in [0..m -> S] /\ f[0] = {a}
  BY <1>4 DEF Unfolds
<1>6. ASSUME NEW k \in 1..m PROVE f[k] = Beyond(graph, f[k - 1])
  <2>1. f[k] = on[k][f[k - 1]]
    BY <1>4 DEF Unfolds
  <2>2. f[k - 1] \in S
    <3>1. k - 1 \in 0..m
      BY <1>1
    <3> HIDE DEF m, S
    <3>2. QED
      BY <1>5, <3>1
  <2>3. QED
    BY <2>1, <2>2
<1> HIDE DEF S, on
<1>7. f = [k \in 0..m |-> IF k = 0 THEN {a} ELSE Beyond(graph, f[k - 1])]
  <2>1. \A k \in 0..m : k = 0 \/ k \in 1..m
    BY <1>1
  <2>2. QED
    BY <1>5, <1>6, <2>1
<1>8. w = [k \in 0..m |-> IF k = 0 THEN {a} ELSE Beyond(graph, w[k - 1])]
  <2>1. w = CHOOSE h : h = [k \in 0..m |-> IF k = 0 THEN {a} ELSE Beyond(graph, h[k - 1])]
    BY DEF w, Beyond
  <2> HIDE DEF w
  <2>2. QED
    BY <1>7, <2>1, Zenon
<1> HIDE DEF w
<1>9. IsLevels(w, graph, a, m)
  <2>1. \A k \in 1..m : k \in 0..m /\ k # 0
    BY <1>1
  <2>2. 0 \in 0..m
    BY <1>1
  <2> HIDE DEF m
  <2>3. DOMAIN w = 0..m /\ w[0] = {a}
    BY <1>8, <2>2
  <2>4. ASSUME NEW k \in 1..m PROVE w[k] = Beyond(graph, w[k - 1])
    BY <1>8, <2>1
  <2>5. QED
    BY <2>3, <2>4 DEF IsLevels
<1>10. Within(a) = w
  BY DEF Within, w
<1>11. QED
  BY <1>1, <1>9, <1>10


(***************************************************************************)
(* The graphs of MCAgentGraph.                                             *)
(***************************************************************************)

\* A graph on Names whose edges are between them.
GraphOn(g) ==
  /\ HasEdges(g) /\ NodesOf(g) = Names
  /\ \A i \in DOMAIN g.edges : g.edges[i].src \in Names /\ g.edges[i].dst \in Names
  /\ \A n \in Names : g.kind[n] \in NodeTypes

\* What can be reached from a: the least closed set that has a.
IsReach(g, a, R) ==
  /\ a \in R /\ ClosedUnder(g, R, {})
  /\ Forced(g, a, {}, R)

\* There is one such set.
LEMMA ReachIsOne ==
  ASSUME NEW g, NEW a, NEW R, NEW Q, IsReach(g, a, R), IsReach(g, a, Q)
  PROVE  R = Q
<1>1. R \subseteq Q /\ Q \subseteq R
  BY DEF IsReach, Forced
<1>2. QED
  BY <1>1

\* Reachable finds it.
LEMMA ReachableIs ==
  ASSUME NEW g, HasEdges(g), NEW a
  PROVE  IsReach(g, a, Reachable(g, a))
<1>1. /\ a \in ToSet(BfsOrder(g, a, {})) /\ ClosedUnder(g, ToSet(BfsOrder(g, a, {})), {})
      /\ Forced(g, a, {}, ToSet(BfsOrder(g, a, {})))
  BY BfsFinds
<1>2. QED
  BY <1>1 DEF IsReach, Reachable

\* A level that is not closed is smaller than the next one.
LEMMA LevelStep ==
  ASSUME NEW g, GraphOn(g), IsFiniteSet(Names), NEW W \in SUBSET Names
  PROVE  /\ Beyond(g, W) \in SUBSET Names
         /\ ClosedUnder(g, W, {}) => Beyond(g, W) = W
         /\ ~ClosedUnder(g, W, {}) => Cardinality(Beyond(g, W)) >= Cardinality(W) + 1
         /\ Cardinality(W) \in Nat /\ Cardinality(Beyond(g, W)) \in Nat
         /\ Cardinality(W) <= Cardinality(Names) /\ Cardinality(Names) \in Nat
<1> DEFINE B == Beyond(g, W)
<1>1. B \in SUBSET Names /\ W \subseteq B
  BY DEF Beyond, GraphOn
<1>2. ClosedUnder(g, W, {}) => B = W
  BY DEF Beyond, ClosedUnder
<1>3. ~ClosedUnder(g, W, {}) => \E x \in B : x \notin W
  BY DEF Beyond, ClosedUnder
<1> HIDE DEF B
<1>4. /\ IsFiniteSet(W) /\ IsFiniteSet(B)
      /\ Cardinality(W) \in Nat /\ Cardinality(B) \in Nat /\ Cardinality(Names) \in Nat
      /\ Cardinality(W) <= Cardinality(Names)
  BY <1>1, FS_Subset, FS_CardinalityType
<1>5. ASSUME NEW x \in B, x \notin W PROVE Cardinality(B) >= Cardinality(W) + 1
  <2>1. Cardinality(W \cup {x}) = Cardinality(W) + 1
    BY <1>4, <1>5, FS_AddElement
  <2>2. W \cup {x} \in SUBSET B
    BY <1>1, <1>5
  <2>3. Cardinality(W \cup {x}) <= Cardinality(B)
    BY <1>4, <2>2, FS_Subset
  <2>4. QED
    BY <2>1, <2>3
<1>6. QED
  BY <1>1, <1>2, <1>3, <1>4, <1>5 DEF B

\* So the last level, one for each name, holds all that can be reached.
LEMMA LastLevel ==
  ASSUME GraphOn(graph), IsFiniteSet(Names), NEW a \in Names
  PROVE  LET W == Within(a)[Cardinality(Names)] IN
         IsReach(graph, a, W) /\ W \subseteq Names
<1> DEFINE m == Cardinality(Names)
           w == Within(a)
           Ok(k, W) == /\ W \in SUBSET Names /\ Forced(graph, a, {}, W)
                       /\ ClosedUnder(graph, W, {}) \/ Cardinality(W) >= k + 1
           T == {k \in Nat : k <= m => Ok(k, w[k])}
<1>1. m \in Nat /\ IsLevels(w, graph, a, m)
  BY WithinIs
<1> HIDE DEF m, w
<1>2. 0 \in T
  <2>1. w[0] = {a}
    BY <1>1 DEF IsLevels
  <2>2. Cardinality({a}) = 1
    BY FS_Singleton
  <2>3. Ok(0, {a})
    BY <2>2 DEF Forced
  <2>4. QED
    BY <2>1, <2>3
<1>3. ASSUME NEW k \in T PROVE k + 1 \in T
  <2>1. SUFFICES ASSUME k + 1 <= m PROVE Ok(k + 1, w[k + 1])
    OBVIOUS
  <2>2. k \in Nat /\ k <= m /\ k + 1 \in 1..m /\ (k + 1) - 1 = k
    BY <1>1, <2>1
  <2> DEFINE W == w[k]
             B == Beyond(graph, W)
  <2>3. Ok(k, W)
    BY <2>2
  <2>4. w[k + 1] = B
    BY <1>1, <2>2 DEF IsLevels
  <2> HIDE DEF W
  <2>5. /\ B \in SUBSET Names
        /\ ClosedUnder(graph, W, {}) => B = W
        /\ ~ClosedUnder(graph, W, {}) => Cardinality(B) >= Cardinality(W) + 1
        /\ Cardinality(W) \in Nat /\ Cardinality(B) \in Nat
    BY <2>3, LevelStep
  <2>6. Forced(graph, a, {}, B)
    BY <2>3 DEF Forced, Beyond, ClosedUnder
  <2> HIDE DEF B
  <2>7. ClosedUnder(graph, B, {}) \/ Cardinality(B) >= (k + 1) + 1
    BY <2>2, <2>3, <2>5
  <2>8. Ok(k + 1, B)
    BY <2>5, <2>6, <2>7
  <2>9. QED
    BY <2>4, <2>8
<1>4. T = Nat
  <2>1. T \in SUBSET Nat
    OBVIOUS
  <2> HIDE DEF T
  <2>2. QED
    BY <1>2, <1>3, <2>1, NatInd
<1>5. Ok(m, w[m])
  <2>1. m \in T /\ m <= m
    BY <1>1, <1>4
  <2>2. QED
    BY <2>1
<1>6. Cardinality(w[m]) \in Nat /\ Cardinality(w[m]) <= m
  BY <1>5, LevelStep DEF m
<1>7. ClosedUnder(graph, w[m], {})
  BY <1>1, <1>5, <1>6
<1>8. a \in w[m]
  <2>1. m \in 0..m
    BY <1>1
  <2>2. QED
    BY <1>1, <2>1, LevelsGrow
<1>9. QED
  BY <1>5, <1>7, <1>8 DEF IsReach, m, w

\* The search of the code finds what the reference definition says.
THEOREM ReachableIsCanReach ==
  ASSUME GraphOn(graph), IsFiniteSet(Names), NEW a \in Names
  PROVE  /\ \A b : CanReach(a, b) <=> b \in Reachable(graph, a)
         /\ Reachable(graph, a) \subseteq Names
<1>1. Within(a)[Cardinality(Names)] = Reachable(graph, a)
  BY LastLevel, ReachableIs, ReachIsOne DEF GraphOn
<1>2. QED
  BY <1>1, LastLevel DEF CanReach

\* The targets of a fan-out are those of the edges out of its node.
LEMMA TargetsAre ==
  ASSUME NEW g, HasEdges(g), NEW n
  PROVE  LET t == Targets(g, n)
             out == get_outgoing_edges(g, n) IN
         /\ IsFiniteSet(out) /\ Cardinality(out) \in Nat
         /\ DOMAIN t = 1..Cardinality(out) /\ Len(t) = Cardinality(out)
         /\ \A i \in DOMAIN t : \E e \in out : t[i] = g.edges[e].dst
         /\ \A e \in out : \E i \in DOMAIN t : t[i] = g.edges[e].dst
<1> DEFINE out == get_outgoing_edges(g, n)
           c == Cardinality(out)
           o == InOrder(g.edges, out)
           t == Targets(g, n)
<1>1. out \in SUBSET (1..Len(g.edges)) /\ Len(g.edges) \in Nat
  BY DEF HasEdges, get_outgoing_edges
<1>2. t = [i \in DOMAIN o |-> o[i].dst]
  BY DEF Targets
<1> HIDE DEF out, t
<1>3. /\ IsFiniteSet(out) /\ c \in Nat /\ DOMAIN o = 1..c
      /\ \A k \in 1..c : \E i \in out : o[k] = g.edges[i]
      /\ \A i \in out : \E k \in 1..c : o[k] = g.edges[i]
  BY <1>1, InOrderFacts
<1> HIDE DEF o
<1>4. /\ DOMAIN t = 1..c
      /\ \A i \in DOMAIN t : \E e \in out : t[i] = g.edges[e].dst
      /\ \A e \in out : \E i \in DOMAIN t : t[i] = g.edges[e].dst
  BY <1>2, <1>3
<1>5. Len(t) = c
  <2>1. t \in Seq({t[i] : i \in 1..c})
    BY <1>2, <1>3
  <2>2. QED
    BY <1>3, <1>4, <2>1, LenProperties
<1>6. QED
  BY <1>3, <1>4, <1>5 DEF out, t


\* The merge node is a node that all branches reach, and none of these is
\* nearer to the first branch.
THEOREM MergeIs ==
  ASSUME GraphOn(graph), IsFiniteSet(Names), NoNode \notin Names, NEW n \in Names,
         Cardinality(get_outgoing_edges(graph, n)) > 1
  PROVE  LET C == CommonNodes(graph, n)
             f == find_merge_node(graph, n)
             a == Targets(graph, n)[1] IN
         /\ C \subseteq Names
         /\ C = {} => f = NoNode
         /\ C # {} => f \in C /\ \A b \in C : ~Closer(a, b, f)
<1> DEFINE t == Targets(graph, n)
           a == t[1]
           C == CommonNodes(graph, n)
           order == BfsOrder(graph, a, {})
           I == {i \in 1..Len(order) : order[i] \in C}
           m == Cardinality(Names)
<1>1. HasEdges(graph) /\ NodesOf(graph) = Names
  BY DEF GraphOn
<1>2. /\ DOMAIN t = 1..Len(t) /\ Len(t) \in Nat /\ ~(Len(t) < 2)
      /\ \A i \in DOMAIN t : t[i] \in Names
  <2> DEFINE out == get_outgoing_edges(graph, n)
  <2>1. /\ Cardinality(out) \in Nat
        /\ DOMAIN t = 1..Cardinality(out) /\ Len(t) = Cardinality(out)
        /\ \A i \in DOMAIN t : \E e \in out : t[i] = graph.edges[e].dst
    BY <1>1, TargetsAre
  <2>2. \A e \in out : graph.edges[e].dst \in Names
    BY DEF GraphOn, get_outgoing_edges
  <2> HIDE DEF out, t
  <2>3. Cardinality(out) > 1
    BY DEF out
  <2>4. QED
    BY <2>1, <2>2, <2>3
<1>3. 1 \in DOMAIN t /\ a \in Names
  BY <1>2
<1>4. C \subseteq Names /\ C \subseteq ToSet(order)
  <2>1. C = {x \in Names : \A i \in DOMAIN t : x \in Reachable(graph, t[i])} \ ToSet(t)
    BY <1>1 DEF CommonNodes
  <2>2. \A x \in C : x \in Reachable(graph, a)
    BY <1>3, <2>1
  <2>3. QED
    BY <2>1, <2>2 DEF Reachable
<1>5. m \in Nat /\ IsLevels(Within(a), graph, a, m)
  BY WithinIs
<1>6. /\ Len(order) \in Nat /\ DOMAIN order = 1..Len(order)
      /\ \A j \in 0..m, i \in 1..Len(order) : order[i] \in Within(a)[j] \/ Within(a)[j] \subseteq Before(order, i)
  BY <1>1, <1>5, BfsIsNear
<1>7. find_merge_node(graph, n) = IF I = {} THEN NoNode ELSE order[Min(I)]
  <2>1. SelectInSeq(order, LAMBDA x : x \in C) = IF I # {} THEN Min(I) ELSE 0
    BY DEF SelectInSeq
  <2>2. I # {} => Min(I) # 0
    <3>1. I \in SUBSET Nat /\ 0 \notin I
      BY <1>6
    <3> HIDE DEF I
    <3>2. QED
      BY <3>1, MinFacts
  <2>3. find_merge_node(graph, n) =
          IF Len(t) < 2 \/ SelectInSeq(order, LAMBDA x : x \in C) = 0 THEN NoNode
          ELSE order[SelectInSeq(order, LAMBDA x : x \in C)]
    BY DEF find_merge_node
  <2> HIDE DEF I, t, order, C
  <2>4. QED
    BY <1>2, <2>1, <2>2, <2>3
<1> HIDE DEF C
<1>8. C = {} <=> I = {}
  BY <1>4, <1>6 DEF ToSet
<1>9. ASSUME I # {} PROVE order[Min(I)] \in C /\ \A b \in C : ~Closer(a, b, order[Min(I)])
  <2>1. I \in SUBSET Nat /\ Min(I) \in I /\ \A i \in I : Min(I) <= i
    <3>1. I \in SUBSET Nat
      BY <1>6
    <3> HIDE DEF I
    <3>2. QED
      BY <1>9, <3>1, MinFacts
  <2>2. Min(I) \in 1..Len(order) /\ order[Min(I)] \in C
    BY <2>1
  <2>3. ASSUME NEW b \in C, NEW k \in 0..m, b \in Within(a)[k], order[Min(I)] \notin Within(a)[k]
        PROVE  FALSE
    <3>1. b \in Before(order, Min(I))
      BY <1>6, <2>2, <2>3
    <3>2. PICK j \in 1..(Min(I) - 1) : b = order[j]
      BY <3>1 DEF Before
    <3>3. j \in Nat /\ j < Min(I) /\ j \in 1..Len(order)
      BY <1>6, <2>1, <2>2, <3>2
    <3>4. j \in I
      BY <2>3, <3>2, <3>3
    <3>5. QED
      BY <2>1, <3>3, <3>4
  <2>4. DOMAIN Within(a) = 0..m
    BY <1>5 DEF IsLevels
  <2>5. QED
    BY <2>2, <2>3, <2>4 DEF Closer
<1>10. QED
  BY <1>4, <1>7, <1>8, <1>9 DEF C

\* A branch runs what its search found: a valid graph without what that excluded.
THEOREM BranchIs ==
  ASSUME NEW g, GraphOn(g), NEW a \in Names, NEW X, a \notin X
  PROVE  LET R == ToSet(BfsOrder(g, a, X))
             b == SubGraph(g, R, a) IN
         /\ NodesOf(b) = R /\ R \cap X = {} /\ R \subseteq Names
         /\ a \in R /\ ClosedUnder(g, R, X)
         /\ IsValid(b)
<1> DEFINE R == ToSet(BfsOrder(g, a, X))
           b == SubGraph(g, R, a)
           J == {i \in DOMAIN g.edges : {g.edges[i].src, g.edges[i].dst} \subseteq R}
           c == Cardinality(J)
<1>1. HasEdges(g) /\ Len(g.edges) \in Nat /\ DOMAIN g.edges = 1..Len(g.edges)
  BY DEF GraphOn, HasEdges
<1>2. a \in R /\ R \cap X = {} /\ ClosedUnder(g, R, X) /\ Forced(g, a, X, R)
  BY <1>1, BfsFinds
<1> HIDE DEF R
<1>3. R \subseteq Names
  <2>1. ClosedUnder(g, Names, X)
    BY DEF ClosedUnder, GraphOn
  <2>2. QED
    BY <1>2, <2>1 DEF Forced
<1>4. /\ b.kind = [n \in R |-> g.kind[n]] /\ b.edges = InOrder(g.edges, J) /\ b.start = a
      /\ NodesOf(b) = R
  BY DEF SubGraph, NodesOf
<1>5. J \in SUBSET (1..Len(g.edges))
  BY <1>1
<1>6. /\ c \in Nat /\ DOMAIN b.edges = 1..c /\ Len(b.edges) = c
      /\ \A k \in 1..c : \E i \in J : b.edges[k] = g.edges[i]
      /\ \A i \in J : \E k \in 1..c : b.edges[k] = g.edges[i]
  <2> DEFINE o == InOrder(g.edges, J)
  <2>1. o = b.edges
    BY <1>4
  <2> HIDE DEF J, b
  <2>2. /\ c \in Nat /\ DOMAIN o = 1..c /\ Len(o) = c
        /\ \A k \in 1..c : \E i \in J : o[k] = g.edges[i]
        /\ \A i \in J : \E k \in 1..c : o[k] = g.edges[i]
    BY <1>1, <1>5, InOrderFacts
  <2> HIDE DEF o
  <2>3. QED
    BY <2>1, <2>2
<1> HIDE DEF b, c
<1>7. HasEdges(b)
  BY <1>6 DEF HasEdges
<1>8. \A i \in DOMAIN b.edges : {b.edges[i].src, b.edges[i].dst} \subseteq R
  BY <1>6
<1>9. R \subseteq Reachable(b, a)
  <2> DEFINE Q == Reachable(b, a)
  <2>1. IsReach(b, a, Q)
    BY <1>7, ReachableIs
  <2> HIDE DEF Q
  <2>2. Q \subseteq R
    <3>1. ClosedUnder(b, R, {})
      BY <1>8 DEF ClosedUnder
    <3>2. QED
      BY <1>2, <2>1, <3>1 DEF IsReach, Forced
  <2>3. ASSUME NEW i \in DOMAIN g.edges, g.edges[i].src \in Q, g.edges[i].dst \notin X
        PROVE  g.edges[i].dst \in Q
    <3>1. i \in J
      BY <1>2, <2>2, <2>3 DEF ClosedUnder
    <3>2. PICK k \in 1..c : b.edges[k] = g.edges[i]
      BY <1>6, <3>1
    <3>3. QED
      BY <1>6, <2>1, <2>3, <3>2 DEF IsReach, ClosedUnder
  <2>4. ClosedUnder(g, Q, X)
    BY <2>3 DEF ClosedUnder
  <2>5. QED
    BY <1>2, <2>1, <2>4 DEF IsReach, Forced, Q
<1>10. \A n \in R : b.kind[n] \in NodeTypes
  BY <1>3, <1>4 DEF GraphOn
<1>11. IsValid(b)
  BY <1>2, <1>4, <1>8, <1>9, <1>10 DEF IsValid
<1>12. QED
  BY <1>2, <1>3, <1>4, <1>11 DEF R, b


(***************************************************************************)
(* The edge a result selects.                                              *)
(***************************************************************************)

\* The smallest index in the first set that has one.
LEMMA FirstOfIs ==
  ASSUME NEW A \in SUBSET Nat, NEW B \in SUBSET Nat, NEW C \in SUBSET Nat, NEW D \in SUBSET Nat, D # {}
  PROVE  LET e == FirstOf(<<A, B, C, D>>) IN
         /\ A # {} => e \in A
         /\ A = {} /\ B # {} => e \in B
         /\ A = {} /\ B = {} /\ C # {} => e \in C
         /\ A = {} /\ B = {} /\ C = {} => e \in D
<1> DEFINE q == <<A, B, C, D>>
           T == {i \in 1..Len(q) : q[i] # {}}
<1>1. Len(q) = 4 /\ q[1] = A /\ q[2] = B /\ q[3] = C /\ q[4] = D
  OBVIOUS
<1>2. 4 \in T /\ T \in SUBSET Nat /\ T \subseteq {1, 2, 3, 4}
  BY <1>1
<1>3. FirstOf(q) = Min(q[Min(T)])
  <2>1. SelectInSeq(q, LAMBDA I : I # {}) = IF T # {} THEN Min(T) ELSE 0
    BY DEF SelectInSeq
  <2> HIDE DEF T, q
  <2>2. QED
    BY <1>2, <2>1 DEF FirstOf
<1>4. Min(T) \in T /\ \A i \in T : Min(T) <= i
  <2> HIDE DEF T
  <2>1. QED
    BY <1>2, MinFacts
<1>5. /\ 1 \in T <=> A # {}
      /\ 2 \in T <=> B # {}
      /\ 3 \in T <=> C # {}
  BY <1>1
<1> DEFINE k == Min(T)
<1> HIDE DEF T, q, k
<1>6. k \in {1, 2, 3, 4} /\ k \in T /\ \A i \in T : k <= i
  BY <1>2, <1>4 DEF k
<1>7. \A S \in SUBSET Nat : S # {} => Min(S) \in S
  BY MinFacts
<1>8. /\ k = 1 => A # {} /\ FirstOf(q) \in A
      /\ k = 2 => B # {} /\ FirstOf(q) \in B
      /\ k = 3 => C # {} /\ FirstOf(q) \in C
      /\ k = 4 => FirstOf(q) \in D
  BY <1>1, <1>3, <1>5, <1>6, <1>7 DEF k
<1>9. /\ A # {} => k = 1
      /\ A = {} /\ B # {} => k = 2
      /\ A = {} /\ B = {} /\ C # {} => k = 3
      /\ A = {} /\ B = {} /\ C = {} => k = 4
  <2>1. /\ 1 \in T => k <= 1
        /\ 2 \in T => k <= 2
        /\ 3 \in T => k <= 3
    BY <1>6
  <2>2. /\ k = 1 => 1 \in T
        /\ k = 2 => 2 \in T
        /\ k = 3 => 3 \in T
    BY <1>6
  <2>3. /\ 1 \in T => k = 1
        /\ 2 \in T => k = 1 \/ k = 2
        /\ 3 \in T => k = 1 \/ k = 2 \/ k = 3
    BY <1>6, <2>1
  <2>4. k = 1 \/ k = 2 \/ k = 3 \/ k = 4
    BY <1>6
  <2> HIDE DEF T, k
  <2>5. QED
    BY <1>5, <2>2, <2>3, <2>4, Zenon
<1>10. QED
  BY <1>8, <1>9 DEF q

\* The labels of the class opposite to a result.
Contrary(r) == (Truthy \cup Falsy) \ SameClass(r)

\* An edge of the opposite class is taken only when no edge is labelled with the
\* class of the result and none has no label.
LEMMA ChosenIs ==
  ASSUME NEW g, NEW out \in SUBSET Nat, out # {}, NEW r, SameClass(r) # {}
  PROVE  LET e == ChosenEdge(g, out, r) IN
         /\ e \in out
         /\ g.edges[e].label \in Contrary(r) =>
              \A i \in out : g.edges[i].label \notin SameClass(r) \cup {""}
<1> DEFINE A == WithLabel(g, out, {r})
           B == WithLabel(g, out, SameClass(r))
           C == WithLabel(g, out, {""})
           e == ChosenEdge(g, out, r)
<1>1. /\ A \in SUBSET out /\ B \in SUBSET out /\ C \in SUBSET out
      /\ A \in SUBSET Nat /\ B \in SUBSET Nat /\ C \in SUBSET Nat
  BY DEF WithLabel
<1>2. e = FirstOf(<<A, B, C, out>>)
  BY DEF ChosenEdge
<1> HIDE DEF A, B, C, e
<1>3. /\ A # {} => e \in A
      /\ A = {} /\ B # {} => e \in B
      /\ A = {} /\ B = {} /\ C # {} => e \in C
      /\ A = {} /\ B = {} /\ C = {} => e \in out
  BY <1>1, <1>2, FirstOfIs
<1>4. e \in out
  BY <1>1, <1>3
<1>5. r \in SameClass(r) /\ "" \notin Truthy \cup Falsy
  BY DEF SameClass, Truthy, Falsy
<1>6. ASSUME g.edges[e].label \in Contrary(r) PROVE e \notin A /\ e \notin B /\ e \notin C
  BY <1>5, <1>6 DEF A, B, C, WithLabel, Contrary
<1>7. ASSUME g.edges[e].label \in Contrary(r) PROVE B = {} /\ C = {}
  BY <1>3, <1>6, <1>7
<1>8. \A i \in out : g.edges[i].label \in SameClass(r) \cup {""} => i \in B \/ i \in C
  BY DEF B, C, WithLabel
<1>9. QED
  BY <1>4, <1>7, <1>8 DEF e

(***************************************************************************)
(* The invariant: what was computed from the graph, and which graphs are.  *)
(***************************************************************************)

\* Edges have no labels, or lead to different nodes.
EdgesOK ==
  \/ \A i \in DOMAIN graph.edges : graph.edges[i].label = ""
  \/ \A i, j \in DOMAIN graph.edges : graph.edges[i].dst = graph.edges[j].dst => i = j

FannedOut ==
  /\ merge = find_merge_node(graph, par)
  /\ branches = [i \in DOMAIN Targets(graph, par) |->
                   build_branch_subgraph(graph, Targets(graph, par)[i], merge, par)]
Decided == branches = <<>> /\ next = get_next_node(graph, par, result)

IInv ==
  /\ GraphOn(graph) /\ First \in Names /\ EdgesOK
  /\ par = NoNode => result = "" /\ branches = <<>>
  /\ par # NoNode => par \in Names /\ Cardinality(get_outgoing_edges(graph, par)) > 1
  /\ par # NoNode /\ result = "" => FannedOut
  /\ result # "" => Decided

\* A set has an order in which each member comes once.
LEMMA SetToSeqIs ==
  ASSUME NEW S, IsFiniteSet(S)
  PROVE  /\ SetToSeq(S) \in [1..Cardinality(S) -> S] /\ Cardinality(S) \in Nat
         /\ \A i, j \in 1..Cardinality(S) : SetToSeq(S)[i] = SetToSeq(S)[j] => i = j
<1>1. Cardinality(S) \in Nat /\ ExistsBijection(1..Cardinality(S), S)
  BY FS_CardinalityType
<1>2. \E f \in [1..Cardinality(S) -> S] : IsInjective(f)
  BY <1>1 DEF ExistsBijection, Bijection, Injection, Surjection, IsInjective
<1>3. SetToSeq(S) \in [1..Cardinality(S) -> S] /\ IsInjective(SetToSeq(S))
  BY <1>2 DEF SetToSeq
<1>4. QED
  BY <1>1, <1>3 DEF IsInjective

\* Graph makes graphs on Names.
LEMMA GraphIs ==
  ASSUME NEW m \in Nat, NEW edges, DOMAIN edges = 1..m, NEW E, edges \in [1..m -> E],
         \A i \in 1..m : edges[i].src \in Names /\ edges[i].dst \in Names
  PROVE  GraphOn(Graph(edges)) /\ Graph(edges).edges = edges
<1>1. /\ Graph(edges).edges = edges
      /\ Graph(edges).kind = [n \in Names |-> "tool"]
  BY DEF Graph
<1>2. Len(edges) = m
  <2>1. edges \in Seq(E)
    OBVIOUS
  <2>2. QED
    BY <2>1, LenProperties
<1> DEFINE g == Graph(edges)
<1> HIDE DEF g
<1>3. g.edges = edges /\ g.kind = [n \in Names |-> "tool"]
  BY <1>1 DEF g
<1>4. HasEdges(g)
  BY <1>2, <1>3 DEF HasEdges
<1>5. GraphOn(g)
  BY <1>3, <1>4 DEF GraphOn, NodesOf, NodeTypes
<1>6. QED
  BY <1>3, <1>5 DEF g

\* The invariant holds of every graph that is chosen.
LEMMA InitOK == Init => IInv
<1> SUFFICES ASSUME Init PROVE IInv
  OBVIOUS
<1>1. First \in Names
  <2>1. IsValid(graph) /\ \E edges : graph = Graph(edges)
    BY DEF Init
  <2>2. QED
    BY <2>1 DEF IsValid, Graph, NodesOf
<1>2. GraphOn(graph) /\ EdgesOK
  <2>1. ASSUME NEW m \in 0..MaxEdges, NEW edges \in [1..m -> Usable], graph = Graph(edges)
        PROVE  GraphOn(graph) /\ EdgesOK
    <3>1. \A i \in 1..m : edges[i].src \in Names /\ edges[i].dst \in Names /\ edges[i].label = ""
      BY DEF Usable
    <3>2. m \in Nat
      BY BoundAssumption
    <3>3. GraphOn(graph) /\ graph.edges = edges
      BY <2>1, <3>1, <3>2, GraphIs
    <3>4. QED
      BY <3>1, <3>3 DEF EdgesOK
  <2>2. ASSUME NEW edges \in Fork, graph = Graph(edges)
        PROVE  GraphOn(graph) /\ EdgesOK
    <3> DEFINE S == Names \ {First}
               others == SetToSeq(S)
               m == Cardinality(S)
    <3>1. /\ others \in [1..m -> S] /\ m \in Nat
          /\ \A i, j \in 1..m : others[i] = others[j] => i = j
      <4>1. IsFiniteSet(S)
        BY NamesAssumption, FS_Subset
      <4>2. QED
        BY <4>1, SetToSeqIs
    <3>2. PICK l \in [DOMAIN others -> Labels] :
            edges = [i \in DOMAIN others |-> [src |-> First, dst |-> others[i], label |-> l[i]]]
      BY <2>2 DEF Fork
    <3> HIDE DEF others, m
    <3>3. /\ edges \in [1..m -> [src : Names, dst : Names, label : Labels]]
          /\ \A i \in 1..m : edges[i].src = First /\ edges[i].dst = others[i]
      BY <1>1, <3>1, <3>2
    <3>4. GraphOn(graph) /\ graph.edges = edges
      BY <1>1, <2>2, <3>1, <3>3, GraphIs
    <3>5. QED
      <4>1. \A i, j \in 1..m : edges[i].dst = edges[j].dst => i = j
        BY <3>1, <3>3
      <4>2. DOMAIN edges = 1..m
        BY <3>3
      <4>3. QED
        BY <3>4, <4>1, <4>2 DEF EdgesOK
  <2>3. QED
    BY <2>1, <2>2 DEF Init
<1>3. QED
  BY <1>1, <1>2 DEF Init, IInv

\* A fan-out and a decision keep the invariant.
LEMMA NextOK == IInv /\ [Next]_vars => IInv'
<1> SUFFICES ASSUME IInv, [Next]_vars PROVE IInv'
  OBVIOUS
<1>1. ASSUME NEW n \in Names, FanOut(n) PROVE IInv'
  <2>1. n # NoNode /\ result' = "" /\ par' = n /\ graph' = graph
    BY <1>1, NamesAssumption DEF FanOut, IInv
  <2>2. /\ merge' = find_merge_node(graph, n) /\ Cardinality(get_outgoing_edges(graph, n)) > 1
        /\ branches' = [i \in DOMAIN Targets(graph, n) |->
                          build_branch_subgraph(graph, Targets(graph, n)[i], merge', n)]
    BY <1>1 DEF FanOut
  <2>3. FannedOut'
    BY <2>1, <2>2 DEF FannedOut
  <2>4. EdgesOK'
    BY <2>1 DEF IInv, EdgesOK
  <2>5. QED
    BY <2>1, <2>2, <2>3, <2>4 DEF IInv
<1>2. ASSUME NEW r \in Results, Decide(First, r) PROVE IInv'
  <2>1. /\ First # NoNode /\ result' = r /\ r # "" /\ par' = First /\ graph' = graph
        /\ branches' = <<>>
    BY <1>2, NamesAssumption, ResultsAssumption DEF Decide, IInv
  <2>2. Decided' /\ Cardinality(get_outgoing_edges(graph, First)) > 1
    BY <1>2, <2>1 DEF Decide, Decided
  <2>3. EdgesOK'
    BY <2>1 DEF IInv, EdgesOK
  <2>4. QED
    BY <2>1, <2>2, <2>3 DEF IInv
<1>3. CASE UNCHANGED vars
  BY <1>3 DEF vars, IInv, EdgesOK, FannedOut, Decided
<1>4. QED
  BY <1>1, <1>2, <1>3 DEF Next

\* The graphs and what is computed from them stay as the code leaves them.
THEOREM Inductive == Spec => []IInv
<1>1. Init => IInv
  BY InitOK
<1>2. IInv /\ [Next]_vars => IInv'
  BY NextOK
<1>3. QED
  BY <1>1, <1>2, PTL DEF Spec


(***************************************************************************)
(* The properties.                                                         *)
(***************************************************************************)

Fans == par # NoNode /\ result = ""
Decides == result # ""

\* What the steps below need of a fan-out.
LEMMA FanFacts ==
  ASSUME IInv, Fans
  PROVE  LET t == Targets(graph, par) IN
         /\ \A i \in DOMAIN t : t[i] \in Names
         /\ \A e \in get_outgoing_edges(graph, par) : \E i \in DOMAIN t : t[i] = graph.edges[e].dst
         /\ par \in Names
         /\ merge = NoNode \/ (merge \in Names /\ merge \notin ToSet(t))
         /\ DOMAIN branches = DOMAIN t
         /\ \A i \in DOMAIN t :
              branches[i] = SubGraph(graph, ToSet(BfsOrder(graph, t[i], {par, merge} \ {NoNode})), t[i])
<1> DEFINE t == Targets(graph, par)
<1>1. /\ GraphOn(graph) /\ par \in Names /\ FannedOut
      /\ Cardinality(get_outgoing_edges(graph, par)) > 1
  BY DEF IInv, Fans
<1>2. /\ \A i \in DOMAIN t : \E e \in get_outgoing_edges(graph, par) : t[i] = graph.edges[e].dst
      /\ \A e \in get_outgoing_edges(graph, par) : \E i \in DOMAIN t : t[i] = graph.edges[e].dst
  <2> DEFINE out == get_outgoing_edges(graph, par)
  <2>1. HasEdges(graph)
    BY <1>1 DEF GraphOn
  <2>2. /\ \A i \in DOMAIN t : \E e \in out : t[i] = graph.edges[e].dst
        /\ \A e \in out : \E i \in DOMAIN t : t[i] = graph.edges[e].dst
    BY <2>1, TargetsAre
  <2>3. QED
    BY <2>2
<1>3. \A e \in get_outgoing_edges(graph, par) : graph.edges[e].dst \in Names
  BY <1>1 DEF GraphOn, get_outgoing_edges
<1>4. merge = NoNode \/ (merge \in Names /\ merge \notin ToSet(t))
  <2> DEFINE C == CommonNodes(graph, par)
  <2>1. C \subseteq Names /\ (C = {} => merge = NoNode) /\ (C # {} => merge \in C)
    BY <1>1, NamesAssumption, MergeIs DEF FannedOut
  <2>2. \A x \in C : x \notin ToSet(t)
    BY DEF CommonNodes
  <2> HIDE DEF C, t
  <2>3. QED
    BY <2>1, <2>2
<1>5. branches = [i \in DOMAIN t |->
                    SubGraph(graph, ToSet(BfsOrder(graph, t[i], {par, merge} \ {NoNode})), t[i])]
  BY <1>1 DEF FannedOut, build_branch_subgraph
<1> HIDE DEF t
<1>6. QED
  BY <1>1, <1>2, <1>3, <1>4, <1>5 DEF t

\* The merge node that _find_merge_node returns is reached by all branches, is no
\* entry of a branch, and no such node is nearer to the first branch.
THEOREM MergeFound == Spec => []MergeIsNearest
<1>1. IInv => MergeIsNearest
  <2> SUFFICES ASSUME IInv, Fans
               PROVE  LET t == Targets(graph, par)
                          common == {n \in Names \ ToSet(t) : \A i \in DOMAIN t : CanReach(t[i], n)}
                      IN  IF common = {} THEN merge = NoNode
                          ELSE merge \in common /\ \A n \in common : ~Closer(t[1], n, merge)
    BY DEF MergeIsNearest, Fans
  <2> DEFINE t == Targets(graph, par)
             common == {n \in Names \ ToSet(t) : \A i \in DOMAIN t : CanReach(t[i], n)}
             C == CommonNodes(graph, par)
  <2>1. /\ GraphOn(graph) /\ par \in Names /\ merge = find_merge_node(graph, par)
        /\ Cardinality(get_outgoing_edges(graph, par)) > 1
    BY DEF IInv, FannedOut, Fans
  <2>2. \A i \in DOMAIN t : t[i] \in Names
    BY FanFacts
  <2>3. \A i \in DOMAIN t : \A n : CanReach(t[i], n) <=> n \in Reachable(graph, t[i])
    BY <2>1, <2>2, NamesAssumption, ReachableIsCanReach
  <2>4. common = C
    <3>1. C = {n \in Names : \A i \in DOMAIN t : n \in Reachable(graph, t[i])} \ ToSet(t)
      BY <2>1 DEF CommonNodes, GraphOn
    <3>2. \A n : n \in common <=> n \in C
      BY <2>3, <3>1
    <3> HIDE DEF common, C
    <3>3. QED
      BY <3>2
  <2>5. /\ C = {} => merge = NoNode
        /\ C # {} => merge \in C /\ \A b \in C : ~Closer(t[1], b, merge)
    BY <2>1, NamesAssumption, MergeIs
  <2> HIDE DEF C, t
  <2>6. IF common = {} THEN merge = NoNode
        ELSE merge \in common /\ \A n \in common : ~Closer(t[1], n, merge)
    BY <2>4, <2>5
  <2>7. QED
    BY <2>6 DEF t
<1>2. QED
  BY <1>1, Inductive, PTL

\* What _build_branch_subgraph returns passes validate() and has neither the
\* merge node nor the parallel node.
THEOREM BranchesValid == Spec => []BranchesAreValid
<1>1. IInv => BranchesAreValid
  <2> SUFFICES ASSUME IInv, NEW i \in DOMAIN branches, Targets(graph, par)[i] # par
               PROVE  IsValid(branches[i]) /\ {par, merge} \cap NodesOf(branches[i]) = {}
    BY DEF BranchesAreValid
  <2> DEFINE a == Targets(graph, par)[i]
             X == {par, merge} \ {NoNode}
             R == ToSet(BfsOrder(graph, a, X))
  <2>1. Fans
    <3>1. branches # <<>>
      OBVIOUS
    <3>2. QED
      BY <3>1 DEF IInv, Decided, Fans
  <2>2. /\ a \in Names /\ (merge = NoNode \/ merge \notin ToSet(Targets(graph, par)))
        /\ branches[i] = SubGraph(graph, R, a) /\ i \in DOMAIN Targets(graph, par)
    BY <2>1, FanFacts
  <2>3. a \notin X
    BY <2>2 DEF ToSet
  <2>4. /\ NodesOf(branches[i]) = R /\ R \cap X = {} /\ R \subseteq Names
        /\ IsValid(branches[i])
    <3>1. GraphOn(graph)
      BY DEF IInv
    <3> HIDE DEF a, X
    <3>2. QED
      BY <2>2, <2>3, <3>1, BranchIs
  <2>5. QED
    BY <2>4, NamesAssumption
<1>2. QED
  BY <1>1, Inductive, PTL

\* A fan-out loses no node: what its node reaches runs in a branch or can be
\* reached again from the merge node.
THEOREM NoneLost == Spec => []NoNodeLost
<1>1. IInv => NoNodeLost
  <2> SUFFICES ASSUME IInv, Fans, NEW n \in Names, CanReach(par, n)
               PROVE  \/ n = par
                      \/ \E i \in DOMAIN branches : n \in NodesOf(branches[i])
                      \/ merge # NoNode /\ CanReach(merge, n)
    BY DEF NoNodeLost, Fans
  <2> DEFINE t == Targets(graph, par)
             X == {par, merge} \ {NoNode}
             After == {x \in Names : merge # NoNode /\ CanReach(merge, x)}
             Inside == {x \in Names : \E i \in DOMAIN branches : x \in NodesOf(branches[i])}
             T == {par} \cup Inside \cup After
  <2>1. GraphOn(graph) /\ HasEdges(graph)
    BY DEF IInv, GraphOn
  <2>2. /\ \A i \in DOMAIN t : t[i] \in Names
        /\ \A e \in get_outgoing_edges(graph, par) : \E i \in DOMAIN t : t[i] = graph.edges[e].dst
        /\ par \in Names
        /\ merge = NoNode \/ (merge \in Names /\ merge \notin ToSet(t))
        /\ DOMAIN branches = DOMAIN t
        /\ \A i \in DOMAIN t : branches[i] = SubGraph(graph, ToSet(BfsOrder(graph, t[i], X)), t[i])
    BY FanFacts
  <2> HIDE DEF t
  <2>3. ASSUME NEW i \in DOMAIN branches, t[i] # par
        PROVE  t[i] \in NodesOf(branches[i]) /\ ClosedUnder(graph, NodesOf(branches[i]), X)
    <3>1. t[i] \in Names /\ t[i] \notin X
      BY <2>2, <2>3 DEF ToSet
    <3>2. branches[i] = SubGraph(graph, ToSet(BfsOrder(graph, t[i], X)), t[i])
      BY <2>2
    <3> DEFINE a == t[i]
               R == ToSet(BfsOrder(graph, a, X))
    <3> HIDE DEF X, a
    <3>3. NodesOf(SubGraph(graph, R, a)) = R /\ a \in R /\ ClosedUnder(graph, R, X)
      <4>1. a \in Names /\ a \notin X
        BY <3>1 DEF a
      <4>2. QED
        BY <2>1, <4>1, BranchIs
    <3>4. QED
      BY <3>2, <3>3 DEF a
  <2>4. ASSUME NEW i \in DOMAIN branches, t[i] = par PROVE NodesOf(branches[i]) = {}
    <3>1. branches[i] = SubGraph(graph, ToSet(BfsOrder(graph, par, X)), par)
      BY <2>2, <2>4
    <3>2. par \in X
      BY DEF Fans
    <3> HIDE DEF X
    <3>3. ToSet(BfsOrder(graph, par, X)) = {}
      BY <2>1, <3>2, NothingFound
    <3>4. branches[i] = SubGraph(graph, {}, par)
      BY <3>1, <3>3
    <3>5. NodesOf(SubGraph(graph, {}, par)) = {}
      BY DEF SubGraph, NodesOf
    <3>6. QED
      BY <3>4, <3>5
  <2>5. merge # NoNode => merge \in After /\ ClosedUnder(graph, After, {})
    <3>1. ASSUME merge # NoNode PROVE merge \in After /\ ClosedUnder(graph, After, {})
      <4>1. merge \in Names
        BY <2>2, <3>1
      <4>2. /\ \A b : CanReach(merge, b) <=> b \in Reachable(graph, merge)
            /\ Reachable(graph, merge) \subseteq Names
        BY <2>1, <4>1, NamesAssumption, ReachableIsCanReach
      <4>3. After = Reachable(graph, merge)
        BY <3>1, <4>2
      <4>4. IsReach(graph, merge, Reachable(graph, merge))
        BY <2>1, ReachableIs
      <4>5. QED
        BY <4>3, <4>4 DEF IsReach
    <3>2. QED
      BY <3>1
  <2>6. ASSUME NEW e \in DOMAIN graph.edges, graph.edges[e].src \in T
        PROVE  graph.edges[e].dst \in T
    <3> DEFINE d == graph.edges[e].dst
               a == graph.edges[e].src
    <3>1. d \in Names
      BY <2>1 DEF GraphOn
    <3>2. CASE a = par
      <4>1. e \in get_outgoing_edges(graph, par)
        BY <3>2 DEF get_outgoing_edges
      <4>2. PICK i \in DOMAIN t : t[i] = d
        BY <2>2, <4>1
      <4>3. i \in DOMAIN branches
        BY <2>2
      <4>4. d = par \/ d \in NodesOf(branches[i])
        BY <2>3, <4>2, <4>3
      <4>5. QED
        BY <3>1, <4>3, <4>4
    <3>3. CASE a \in Inside
      <4>1. PICK i \in DOMAIN branches : a \in NodesOf(branches[i])
        BY <3>3
      <4>2. t[i] # par
        BY <2>4, <4>1
      <4>3. d \in NodesOf(branches[i]) \/ d \in X
        BY <2>3, <4>1, <4>2 DEF ClosedUnder
      <4>4. d \in X => d = par \/ (merge # NoNode /\ d = merge)
        OBVIOUS
      <4>5. QED
        BY <2>5, <3>1, <4>3, <4>4
    <3>4. CASE a \in After
      <4>1. merge # NoNode
        BY <3>4
      <4>2. d \in After
        <5> HIDE DEF After
        <5>1. QED
          BY <2>5, <3>4, <4>1 DEF ClosedUnder
      <4>3. QED
        BY <4>2
    <3>5. QED
      BY <2>6, <3>2, <3>3, <3>4
  <2>7. n \in T
    <3>1. IsReach(graph, par, Reachable(graph, par))
      BY <2>1, ReachableIs
    <3>2. n \in Reachable(graph, par)
      BY <2>1, <2>2, NamesAssumption, ReachableIsCanReach
    <3>3. ClosedUnder(graph, T, {}) /\ par \in T
      <4>1. par \in T
        OBVIOUS
      <4> HIDE DEF T
      <4>2. QED
        BY <2>6, <4>1 DEF ClosedUnder
    <3> HIDE DEF T
    <3>4. QED
      BY <3>1, <3>2, <3>3 DEF IsReach, Forced
  <2>8. QED
    BY <2>7
<1>2. QED
  BY <1>1, Inductive, PTL

\* A truthy result never takes an edge labelled falsy while an edge is labelled
\* truthy or has no label, nor conversely (get_next_node).
THEOREM NoFlip == Spec => []ResultNeverFlips
<1>1. IInv => ResultNeverFlips
  <2> SUFFICES ASSUME IInv, Decides, LabelsTo(next) \cap Contrary(result) # {},
                      SameClass(result) # {}
               PROVE  \A n \in Names : LabelsTo(n) \cap (SameClass(result) \cup {""}) = {}
    BY DEF ResultNeverFlips, Contrary, Decides
  <2> DEFINE out == get_outgoing_edges(graph, par)
             e == ChosenEdge(graph, out, result)
  <2>1. /\ GraphOn(graph) /\ par # NoNode /\ Cardinality(out) > 1
        /\ next = get_next_node(graph, par, result)
    BY DEF IInv, Decided, Decides
  <2>2. out \in SUBSET Nat /\ out \in SUBSET (DOMAIN graph.edges) /\ out # {} /\ Cardinality(out) # 1
    <3>1. HasEdges(graph)
      BY <2>1 DEF GraphOn
    <3>2. DOMAIN graph.edges \in SUBSET Nat
      <4> DEFINE n == Len(graph.edges)
      <4>1. n \in Nat /\ DOMAIN graph.edges = 1..n
        BY <3>1 DEF HasEdges
      <4> HIDE DEF n
      <4>2. 1..n \in SUBSET Nat
        BY <4>1
      <4>3. QED
        BY <4>1, <4>2
    <3>3. out \in SUBSET (DOMAIN graph.edges)
      BY DEF get_outgoing_edges
    <3>4. Cardinality(out) \in Nat
      BY <3>1, TargetsAre
    <3> HIDE DEF out
    <3>5. Cardinality(out) > 1
      BY <2>1
    <3>6. out # {}
      <4>1. SUFFICES ASSUME out = {} PROVE FALSE
        OBVIOUS
      <4>2. Cardinality(out) = 0
        BY <4>1, FS_EmptySet
      <4>3. QED
        BY <3>5, <4>2
    <3>7. Cardinality(out) # 1
      BY <3>4, <3>5
    <3>8. out \in SUBSET Nat
      BY <3>2, <3>3
    <3>9. QED
      BY <3>3, <3>6, <3>7, <3>8, Zenon
  <2>3. next = graph.edges[e].dst
    <3>1. get_next_node(graph, par, result) =
            CASE out = {} -> NoNode
              [] Cardinality(out) = 1 -> graph.edges[CHOOSE i \in out : TRUE].dst
              [] OTHER -> graph.edges[e].dst
      BY DEF get_next_node
    <3> HIDE DEF out, e
    <3>2. QED
      BY <2>1, <2>2, <3>1
  <2>4. /\ e \in out
        /\ graph.edges[e].label \in Contrary(result) =>
             \A i \in out : graph.edges[i].label \notin SameClass(result) \cup {""}
    <3> HIDE DEF out
    <3>1. QED
      BY <2>2, ChosenIs
  <2> HIDE DEF e
  <2>5. PICK i \in DOMAIN graph.edges :
          /\ graph.edges[i].src = par /\ graph.edges[i].dst = next
          /\ graph.edges[i].label \in Contrary(result)
    BY DEF LabelsTo
  <2>6. i = e
    <3>1. EdgesOK /\ graph.edges[i].label # ""
      BY <2>5 DEF IInv, Contrary, Truthy, Falsy
    <3>2. QED
      BY <2>2, <2>3, <2>4, <2>5, <3>1 DEF EdgesOK
  <2>7. \A j \in DOMAIN graph.edges :
          graph.edges[j].src = par => graph.edges[j].label \notin SameClass(result) \cup {""}
    BY <2>4, <2>5, <2>6 DEF get_outgoing_edges
  <2>8. QED
    BY <2>7 DEF LabelsTo
<1>2. QED
  BY <1>1, Inductive, PTL

=============================================================================
