------------------------ MODULE ResourceLeaseProofs ------------------------
(***************************************************************************)
(* Theorems about ResourceLease for every set of resources, slots, teams   *)
(* and requests.                                                           *)
(***************************************************************************)
EXTENDS ResourceLease, FiniteSetTheorems, FunctionTheorems, WellFoundedInduction, TLAPS

(***************************************************************************)
(* Facts about finite sets.                                                *)
(***************************************************************************)

\* Some element of a finite set has the greatest rank.
LEMMA GreatestRank ==
  ASSUME NEW S, IsFiniteSet(S), S # {}, NEW rank, \A x \in S : rank[x] \in Nat
  PROVE  \E x \in S : \A y \in S : rank[y] <= rank[x]
<1> DEFINE Up(x) == {y \in S : rank[y] >= rank[x]}
           Ups == {Up(x) : x \in S}
<1>1. Ups \subseteq FiniteSubsetsOf(S) /\ Ups # {}
  <2>1. Ups \subseteq SUBSET S
    OBVIOUS
  <2>2. Ups # {}
    <3>1. PICK x \in S : TRUE
      OBVIOUS
    <3>2. Up(x) \in Ups
      BY <3>1
    <3> HIDE DEF Ups
    <3>3. QED
      BY <3>2
  <2> HIDE DEF Ups
  <2>3. QED
    BY <2>1, <2>2, FS_FiniteSubsetsOfFinite
<1>2. PICK T \in Ups : \A U \in Ups : <<U, T>> \notin StrictSubsetOrdering(S)
  <2>1. IsWellFoundedOn(StrictSubsetOrdering(S), FiniteSubsetsOf(S))
    BY FS_StrictSubsetOrderingWellFounded
  <2> HIDE DEF Ups
  <2>2. QED
    BY <1>1, <2>1, WFMin
<1>3. PICK x \in S : T = Up(x)
  BY <1>2
<1>4. ASSUME NEW y \in S PROVE rank[y] <= rank[x]
  <2>1. SUFFICES ASSUME rank[y] > rank[x] PROVE FALSE
    OBVIOUS
  <2>2. Up(y) \subseteq Up(x) /\ x \in Up(x) /\ x \notin Up(y)
    BY <2>1
  <2>3. <<Up(y), Up(x)>> \in StrictSubsetOrdering(S)
    BY <2>2 DEF StrictSubsetOrdering
  <2>4. QED
    BY <1>2, <1>3, <2>3
<1>5. QED
  BY <1>4

\* Whoever has the least rank has nobody before it.
LEMMA LeastRank ==
  ASSUME NEW S, IsFiniteSet(S), S # {}, NEW rank, \A x \in S : rank[x] \in Nat
  PROVE  \E x \in S : \A y \in S : rank[x] <= rank[y]
<1>1. PICK m \in S : \A y \in S : rank[y] <= rank[m]
  BY GreatestRank
<1> DEFINE up == [x \in S |-> rank[m] - rank[x]]
<1>2. \A x \in S : up[x] \in Nat
  BY <1>1
<1> HIDE DEF up
<1>3. PICK x \in S : \A y \in S : up[y] <= up[x]
  BY <1>2, GreatestRank
<1>4. QED
  BY <1>3 DEF up

\* Fewer elements fit into more: an injection.
LEMMA SmallerInjects ==
  ASSUME NEW A, NEW B, IsFiniteSet(A), IsFiniteSet(B), Cardinality(A) <= Cardinality(B)
  PROVE  ExistsInjection(A, B)
<1> DEFINE a == Cardinality(A)
           b == Cardinality(B)
<1>1. a \in Nat /\ b \in Nat /\ ExistsBijection(1..a, A) /\ ExistsBijection(1..b, B)
  BY FS_CardinalityType
<1>2. ExistsInjection(A, 1..a)
  <2>1. ExistsBijection(A, 1..a)
    BY <1>1, Fun_ExistsBijSymmetric
  <2>2. PICK f \in Bijection(A, 1..a) : TRUE
    BY <2>1, Fun_ExistsBij
  <2>3. f \in Injection(A, 1..a)
    BY <2>2, Fun_BijectionProperties
  <2>4. QED
    BY <2>3, Fun_ExistsInj
<1>3. ExistsInjection(1..b, B)
  <2>1. PICK f \in Bijection(1..b, B) : TRUE
    BY <1>1, Fun_ExistsBij
  <2>2. f \in Injection(1..b, B)
    BY <2>1, Fun_BijectionProperties
  <2>3. QED
    BY <2>2, Fun_ExistsInj
<1>4. PICK f \in Injection(A, 1..a) : TRUE
  BY <1>2, Fun_ExistsInj
<1>5. f \in Injection(A, 1..b)
  <2>1. f \in [A -> 1..a] /\ \A x, y \in A : f[x] = f[y] => x = y
    BY <1>4 DEF Injection, IsInjective
  <2>2. f \in [A -> 1..b]
    BY <2>1, <1>1
  <2>3. QED
    BY <2>1, <2>2, Fun_IsInj
<1>6. PICK g \in Injection(1..b, B) : TRUE
  BY <1>3, Fun_ExistsInj
<1>7. QED
  BY <1>5, <1>6, Fun_InjTransitive, Fun_ExistsInj

\* An injection keeps different elements apart.
LEMMA InjectionSeparates ==
  ASSUME NEW S, NEW T, NEW f, f \in Injection(S, T)
  PROVE  /\ f \in [S -> T]
         /\ \A u, v \in S : f[u] = f[v] => u = v
<1>1. f \in [S -> T] /\ IsInjective(f)
  BY DEF Injection
<1>2. DOMAIN f = S
  BY <1>1
<1>3. QED
  BY <1>1, <1>2 DEF IsInjective

\* If every class of A is at most as large as that of B, so is A.
LEMMA ClassByClass ==
  ASSUME NEW A, NEW B, IsFiniteSet(A), IsFiniteSet(B), NEW class,
         \A c : Cardinality({x \in A : class[x] = c}) <= Cardinality({y \in B : class[y] = c})
  PROVE  Cardinality(A) <= Cardinality(B)
<1> DEFINE InA(c) == {x \in A : class[x] = c}
           InB(c) == {y \in B : class[y] = c}
           pick(c) == CHOOSE f : f \in Injection(InA(c), InB(c))
           F == [x \in A |-> pick(class[x])[x]]
<1>1. ASSUME NEW c PROVE pick(c) \in Injection(InA(c), InB(c))
  <2>1. IsFiniteSet(InA(c)) /\ IsFiniteSet(InB(c))
    BY FS_Subset
  <2>2. ExistsInjection(InA(c), InB(c))
    BY <2>1, SmallerInjects
  <2>3. QED
    BY <2>2, Fun_ExistsInj
<1>2. ASSUME NEW x \in A PROVE F[x] \in B /\ class[F[x]] = class[x]
  <2>1. pick(class[x]) \in [InA(class[x]) -> InB(class[x])]
    <3>1. pick(class[x]) \in Injection(InA(class[x]), InB(class[x]))
      BY <1>1
    <3> HIDE DEF pick, InA, InB
    <3>2. QED
      BY <3>1, InjectionSeparates
  <2>2. pick(class[x])[x] \in InB(class[x])
    BY <2>1
  <2>3. QED
    BY <2>2
<1>3. ASSUME NEW x \in A, NEW y \in A, F[x] = F[y] PROVE x = y
  <2>1. class[x] = class[y]
    BY <1>2, <1>3
  <2>2. pick(class[x])[x] = pick(class[x])[y]
    BY <1>3, <2>1
  <2>3. x \in InA(class[x]) /\ y \in InA(class[x])
    BY <2>1
  <2>4. \A u, v \in InA(class[x]) : pick(class[x])[u] = pick(class[x])[v] => u = v
    <3>1. pick(class[x]) \in Injection(InA(class[x]), InB(class[x]))
      BY <1>1
    <3> HIDE DEF pick, InA, InB
    <3>2. QED
      BY <3>1, InjectionSeparates
  <2>5. QED
    BY <2>2, <2>3, <2>4
<1>4. F \in Injection(A, B)
  <2>1. F \in [A -> B]
    BY <1>2
  <2> HIDE DEF F
  <2>2. QED
    BY <1>3, <2>1, Fun_IsInj
<1>5. QED
  BY <1>4, FS_Injection

\* Those of S with fewer than k before them.
Foremost(S, rank, k) == {x \in S : Cardinality({y \in S : rank[y] < rank[x]}) < k}

\* Of a queue with distinct ranks, the first k are at most k, and exactly k when
\* somebody is left.
LEMMA FirstFew ==
  ASSUME NEW S, IsFiniteSet(S), NEW rank, \A x \in S : rank[x] \in Nat,
         \A x, y \in S : x # y => rank[x] # rank[y],
         NEW k \in Nat, NEW T, T = Foremost(S, rank, k)
  PROVE  /\ IsFiniteSet(T) /\ Cardinality(T) \in Nat
         /\ Cardinality(T) <= k
         /\ T # S => Cardinality(T) = k
<1> DEFINE Below(x) == {y \in S : rank[y] < rank[x]}
<1>1. IsFiniteSet(T) /\ Cardinality(T) \in Nat
  BY FS_Subset, FS_CardinalityType DEF Foremost
<1>2. ASSUME NEW x \in S
      PROVE IsFiniteSet(Below(x)) /\ Cardinality(Below(x)) \in Nat
  BY FS_Subset, FS_CardinalityType
<1>3. T \subseteq S /\ \A x \in S : x \in T <=> Cardinality(Below(x)) < k
  BY DEF Foremost
<1> HIDE DEF Below
<1>4. Cardinality(T) <= k
  <2>1. CASE T = {}
    BY <1>1, <2>1, FS_EmptySet
  <2>2. CASE T # {}
    <3>1. PICK x \in T : \A y \in T : rank[y] <= rank[x]
      BY <1>1, <1>3, <2>2, GreatestRank
    <3>2. T \ {x} \subseteq Below(x)
      <4>1. SUFFICES ASSUME NEW y \in T, y # x PROVE y \in S /\ rank[y] < rank[x]
        BY DEF Below
      <4>2. x \in S /\ y \in S
        BY <1>3
      <4>3. rank[x] \in Nat /\ rank[y] \in Nat /\ rank[x] # rank[y]
        BY <4>1, <4>2
      <4>4. QED
        BY <3>1, <4>2, <4>3
    <3>3. Cardinality(T \ {x}) <= Cardinality(Below(x))
      BY <1>2, <1>3, <3>2, FS_Subset
    <3>4. Cardinality(T \ {x}) = Cardinality(T) - 1
      BY <1>1, FS_RemoveElement
    <3>5. Cardinality(Below(x)) < k /\ Cardinality(Below(x)) \in Nat
      BY <1>2, <1>3
    <3>6. QED
      BY <1>1, <3>3, <3>4, <3>5
  <2>3. QED
    BY <2>1, <2>2
<1>5. ASSUME T # S PROVE Cardinality(T) >= k
  <2>1. S \ T # {} /\ IsFiniteSet(S \ T)
    BY <1>3, <1>5, FS_Subset
  <2>2. PICK x \in S \ T : \A y \in S \ T : rank[x] <= rank[y]
    BY <2>1, LeastRank
  <2>3. Below(x) \subseteq T
    <3>1. SUFFICES ASSUME NEW y \in S, rank[y] < rank[x], y \notin T PROVE FALSE
      BY DEF Below
    <3>2. rank[x] <= rank[y] /\ rank[x] \in Nat /\ rank[y] \in Nat
      BY <2>2, <3>1
    <3>3. QED
      BY <3>1, <3>2
  <2>4. Cardinality(Below(x)) <= Cardinality(T)
    BY <1>1, <2>3, FS_Subset
  <2>5. ~ (Cardinality(Below(x)) < k) /\ Cardinality(Below(x)) \in Nat
    BY <1>2, <1>3, <2>2
  <2>6. QED
    BY <1>1, <2>4, <2>5
<1>6. QED
  BY <1>1, <1>4, <1>5

(***************************************************************************)
(* Type correctness.                                                       *)
(***************************************************************************)

\* Every set of leases is finite.
LEMMA LeasesFinite ==
  ASSUME NEW S, S \subseteq Lease
  PROVE  IsFiniteSet(S) /\ Cardinality(S) \in Nat
BY LeaseAssumption, FS_Subset, FS_CardinalityType

\* max_queued_position is the place of the last in the queue, or 0.
LEMMA LastPositionIsLast ==
  ASSUME TypeOK, NEW r \in Resource
  PROVE  LastPosition(r) \in Nat /\ \A l \in Queue(r) : position[l] <= LastPosition(r)
<1>1. CASE Queue(r) = {}
  BY <1>1 DEF LastPosition
<1>2. CASE Queue(r) # {}
  <2>1. IsFiniteSet(Queue(r)) /\ \A l \in Queue(r) : position[l] \in Nat
    BY LeasesFinite DEF Queue, TypeOK
  <2>2. PICK x \in Queue(r) : \A y \in Queue(r) : position[y] <= position[x]
    BY <1>2, <2>1, GreatestRank
  <2>3. \E n \in {position[l] : l \in Queue(r)} : \A l \in Queue(r) : position[l] <= n
    BY <2>2
  <2>4. QED
    BY <1>2, <2>1, <2>3 DEF LastPosition
<1>3. QED
  BY <1>1, <1>2

\* A move of leases keeps the types when those promoted were queued.
LEMMA MoveType ==
  ASSUME TypeOK, NEW gone, NEW outcome \in {"released", "expired"}, NEW next,
         \A l \in gone : status[l] # "none",
         \A l \in next : status[l] = "queued",
         Move(gone, outcome, next), sweepDue' \in BOOLEAN
  PROVE  TypeOK'
<1>1. status' \in [Lease -> LeaseStatus]
  BY DEF Move, TypeOK, LeaseStatus
<1>2. overdue' \subseteq {l \in Lease : status'[l] = "granted"}
  BY DEF Move, TypeOK
<1>3. \A l \in Lease : status'[l] = "none" <=> request'[l] = NoRequest
  BY DEF Move, TypeOK
<1>4. QED
  BY <1>1, <1>2, <1>3 DEF Move, TypeOK

\* A new lease, queued or granted, is well-typed.
LEMMA EnqueueType ==
  ASSUME TypeOK, NEW l \in Lease, NEW q \in Request, Enqueue(l, q)
  PROVE  TypeOK'
<1>1. q \in Form /\ q # NoRequest /\ q.resource \in Resource
  BY LeaseAssumption DEF Form
<1>2. LastPosition(q.resource) + 1 \in Nat
  BY <1>1, LastPositionIsLast
<1>3. QED
  BY <1>1, <1>2 DEF Enqueue, TypeOK, LeaseStatus

\* An immediate grant, of lease_apply, keeps the types.
LEMMA GrantType ==
  ASSUME TypeOK, NEW l \in Lease, NEW q \in Request, Grant(l, q)
  PROVE  TypeOK'
<1>1. /\ q \in Form /\ q # NoRequest /\ q.task \in Task
      /\ [q EXCEPT !.timed = FALSE] \in Form
  BY LeaseAssumption DEF Form
<1>2. \A f \in Form : f # NoRequest
  BY LeaseAssumption
<1>3. QED
  BY <1>1, <1>2 DEF Grant, TypeOK, LeaseStatus

\* The state is well-typed from the start and after every call.
LEMMA InitType == Init => TypeOK
BY LeaseAssumption DEF Init, TypeOK, LeaseStatus

\* Every action keeps the types.
LEMMA NextType ==
  ASSUME TypeOK, Next
  PROVE  TypeOK'
<1>1. CASE \E l \in Lease, q \in Request : Grant(l, q)
  BY <1>1, GrantType
<1>2. CASE \E l \in Lease, q \in Request : Enqueue(l, q)
  BY <1>2, EnqueueType
<1>3. ASSUME NEW l \in Lease, Release(l) PROVE TypeOK'
  <2> DEFINE next == IF status[l] = "granted"
                     THEN FirstOf(request[l].resource, request[l].team) ELSE {}
  <2>1. \A m \in next : status[m] = "queued"
    BY DEF FirstOf, QueueOf, Queue
  <2>2. Move({l}, "released", next) /\ status[l] # "none" /\ sweepDue' = sweepDue
    BY <1>3 DEF Release
  <2>3. sweepDue' \in BOOLEAN
    BY <2>2 DEF TypeOK
  <2>4. \A m \in {l} : status[m] # "none"
    BY <2>2
  <2> HIDE DEF next
  <2>5. QED
    BY <2>1, <2>2, <2>3, <2>4, MoveType
<1>4. CASE \E l \in Lease : PassDeadline(l)
  BY <1>4 DEF PassDeadline, TypeOK
<1>5. CASE \E g \in Registration : Register(g)
  BY <1>5, LeaseAssumption DEF Register, TypeOK
<1>6. CASE Sweep
  <2>1. \A m \in Successors : status[m] = "queued"
    BY DEF Successors
  <2>2. \A m \in overdue : status[m] # "none"
    BY DEF TypeOK
  <2>3. QED
    BY <1>6, <2>1, <2>2, MoveType DEF Sweep
<1>7. CASE Restart
  BY <1>7, LeaseAssumption DEF Restart, TypeOK
<1>8. QED
  BY <1>1, <1>2, <1>3, <1>4, <1>5, <1>6, <1>7 DEF Next

\* A step that changes nothing keeps the types.
LEMMA StutterType == TypeOK /\ UNCHANGED vars => TypeOK'
BY DEF vars, TypeOK

\* Every variable keeps its type.
THEOREM TypeCorrect == Spec => []TypeOK
BY InitType, NextType, StutterType, PTL DEF Spec

(***************************************************************************)
(* How many holders a move leaves behind.                                  *)
(***************************************************************************)

\* Those of S on resource r.
On(r, S) == {m \in S : request[m].resource = r}

\* The holders of r are those that do not leave and those promoted.
LEMMA MoveCount ==
  ASSUME TypeOK, NEW gone, gone \subseteq Lease,
         NEW outcome \in {"released", "expired"}, NEW next, next \subseteq Lease,
         \A l \in next : status[l] = "queued",
         gone \cap next = {}, Move(gone, outcome, next), NEW r
  PROVE  Active(r)' = Active(r) - Cardinality(Granted(r) \cap gone) + Cardinality(On(r, next))
<1> DEFINE stay == Granted(r) \ gone
           came == On(r, next)
<1>1. Granted(r)' = stay \cup came
  <2>1. \A l \in Lease : status'[l] = "granted" <=> l \in next \/ (status[l] = "granted" /\ l \notin gone)
    BY DEF Move
  <2>2. request' = request
    BY DEF Move
  <2>3. Granted(r)' = {l \in Lease : status'[l] = "granted" /\ request[l].resource = r}
    BY <2>2 DEF Granted
  <2>4. QED
    BY <2>1, <2>3 DEF Granted, On
<1>2. stay \cap came = {}
  BY DEF Granted, On
<1>3. /\ IsFiniteSet(stay) /\ IsFiniteSet(came) /\ IsFiniteSet(Granted(r))
      /\ Cardinality(stay) \in Nat /\ Cardinality(came) \in Nat
  BY LeasesFinite DEF Granted, On
<1>4. Cardinality(stay) = Active(r) - Cardinality(Granted(r) \cap gone)
  BY <1>3, FS_Difference DEF Active
<1>5. Cardinality(stay \cup came) = Cardinality(stay) + Cardinality(came)
  <2>1. Cardinality(stay \cup came) = Cardinality(stay) + Cardinality(came) - Cardinality(stay \cap came)
    BY <1>3, FS_Union
  <2>2. Cardinality(stay \cap came) = 0
    BY <1>2, FS_EmptySet
  <2>3. QED
    BY <1>3, <2>1, <2>2
<1>6. Active(r)' = Cardinality(stay \cup came)
  BY <1>1 DEF Active
<1>7. QED
  BY <1>4, <1>5, <1>6

\* The queue of a team is finite, of leases with distinct places.
LEMMA QueuesRanked ==
  ASSUME TypeOK, PositionsDistinct, NEW r, NEW team
  PROVE  /\ IsFiniteSet(QueueOf(r, team))
         /\ \A x \in QueueOf(r, team) : position[x] \in Nat
         /\ \A x, y \in QueueOf(r, team) : x # y => position[x] # position[y]
BY LeasesFinite DEF QueueOf, Queue, TypeOK, PositionsDistinct

\* The successor a release promotes: nobody when the team has no queue, one
\* lease otherwise.
LEMMA OneSuccessor ==
  ASSUME TypeOK, PositionsDistinct, NEW r, NEW team
  PROVE  Cardinality(FirstOf(r, team)) = IF QueueOf(r, team) = {} THEN 0 ELSE 1
<1>1. CASE QueueOf(r, team) = {}
  <2>1. FirstOf(r, team) = {}
    BY <1>1 DEF FirstOf
  <2>2. QED
    BY <1>1, <2>1, FS_EmptySet
<1>2. CASE QueueOf(r, team) # {}
  <2>1. PICK x \in QueueOf(r, team) : \A y \in QueueOf(r, team) : position[x] <= position[y]
    BY <1>2, QueuesRanked, LeastRank
  <2>2. x \in FirstOf(r, team)
    <3>1. ASSUME NEW y \in QueueOf(r, team) PROVE ~ (position[y] < position[x])
      <4>1. position[x] <= position[y] /\ position[x] \in Nat /\ position[y] \in Nat
        BY <2>1, QueuesRanked
      <4>2. QED
        BY <4>1
    <3>2. QED
      BY <3>1 DEF FirstOf, Ahead
  <2>3. ASSUME NEW y \in FirstOf(r, team) PROVE y = x
    <3>1. y \in QueueOf(r, team) /\ ~ (position[x] < position[y])
      BY DEF FirstOf, Ahead
    <3>2. position[x] <= position[y] /\ position[x] \in Nat /\ position[y] \in Nat
      BY <2>1, <3>1, QueuesRanked
    <3>3. position[x] = position[y]
      BY <3>1, <3>2
    <3>4. QED
      BY <3>1, <3>3, QueuesRanked
  <2>4. FirstOf(r, team) = {x}
    BY <2>2, <2>3
  <2>5. QED
    BY <1>2, <2>4, FS_Singleton
<1>3. QED
  BY <1>1, <1>2

\* A release frees a slot of r when the lease held one, and fills it again when
\* its team has a queue there.
LEMMA ReleaseCount ==
  ASSUME TypeOK, PositionsDistinct, NEW l \in Lease, Release(l), NEW r
  PROVE  /\ Active(r) \in Nat
         /\ Active(r)' = IF l \in Granted(r) /\ QueueOf(r, request[l].team) = {}
                         THEN Active(r) - 1 ELSE Active(r)
<1> DEFINE next == IF status[l] = "granted"
                   THEN FirstOf(request[l].resource, request[l].team) ELSE {}
<1>1. next \subseteq Lease /\ (\A m \in next : status[m] = "queued") /\ {l} \cap next = {}
  BY DEF FirstOf, QueueOf, Queue
<1>2. Move({l}, "released", next)
  BY DEF Release
<1>3. Active(r)' = Active(r) - Cardinality(Granted(r) \cap {l}) + Cardinality(On(r, next))
  <2> HIDE DEF next
  <2>1. QED
    BY <1>1, <1>2, MoveCount
<1>4. Active(r) \in Nat
  BY LeasesFinite DEF Granted, Active
<1>5. CASE l \in Granted(r)
  <2>1. Granted(r) \cap {l} = {l} /\ On(r, next) = FirstOf(r, request[l].team)
    BY <1>5 DEF Granted, On, FirstOf, QueueOf, Queue
  <2>2. Cardinality({l}) = 1
    BY FS_Singleton
  <2>3. Cardinality(On(r, next)) = IF QueueOf(r, request[l].team) = {} THEN 0 ELSE 1
    BY <2>1, OneSuccessor
  <2>4. Cardinality(Granted(r) \cap {l}) = 1
    BY <2>1, <2>2
  <2> HIDE DEF next
  <2>5. QED
    BY <1>3, <1>4, <1>5, <2>3, <2>4
<1>6. CASE l \notin Granted(r)
  <2>1. Granted(r) \cap {l} = {} /\ On(r, next) = {}
    BY <1>6 DEF Granted, On, FirstOf, QueueOf, Queue
  <2>2. Cardinality(Granted(r) \cap {l}) = 0 /\ Cardinality(On(r, next)) = 0
    BY <2>1, FS_EmptySet
  <2> HIDE DEF next
  <2>3. QED
    BY <1>3, <1>4, <1>6, <2>2
<1>7. QED
  BY <1>4, <1>5, <1>6

\* A sweep promotes at most as many as expired; exactly as many when r knows one
\* team and its queue does not end.
LEMMA SweepCount ==
  ASSUME TypeOK, PositionsDistinct, Sweep, NEW r
  PROVE  /\ Active(r) \in Nat
         /\ Active(r)' \in Nat
         /\ Active(r)' <= Active(r)
         /\ OneTeam(r) /\ On(r, Successors) # Queue(r) => Active(r)' = Active(r)
<1> DEFINE A == On(r, Successors)
           B == Granted(r) \cap overdue
           late(c) == {m \in overdue : request[m].resource = r /\ request[m].team = c}
           class == [m \in Lease |-> request[m].team]
<1>1. A \subseteq Queue(r) /\ Successors \subseteq Lease /\ A \subseteq Lease /\ B \subseteq Lease
  BY DEF On, Successors, Queue, Granted
<1>2. Active(r)' = Active(r) - Cardinality(B) + Cardinality(A)
  <2>1. overdue \subseteq Lease /\ overdue \cap Successors = {}
    BY DEF TypeOK, Successors
  <2>2. \A m \in Successors : status[m] = "queued"
    BY DEF Successors
  <2>3. Move(overdue, "expired", Successors)
    BY DEF Sweep
  <2>4. QED
    BY <1>1, <2>1, <2>2, <2>3, MoveCount
<1>3. /\ IsFiniteSet(A) /\ IsFiniteSet(B) /\ IsFiniteSet(Granted(r))
      /\ Cardinality(A) \in Nat /\ Cardinality(B) \in Nat /\ Active(r) \in Nat
  BY <1>1, LeasesFinite DEF Active, Granted
<1>4. ASSUME NEW c
      PROVE  /\ {y \in B : class[y] = c} = late(c)
             /\ Cardinality(late(c)) \in Nat
             /\ {x \in A : class[x] = c} = Foremost(QueueOf(r, c), position, Cardinality(late(c)))
  <2>1. {y \in B : class[y] = c} = late(c)
    BY DEF Granted, TypeOK
  <2>2. late(c) \subseteq Lease
    BY DEF TypeOK
  <2>3. Cardinality(late(c)) \in Nat
    BY <2>2, LeasesFinite
  <2>4. ASSUME NEW x \in QueueOf(r, c)
        PROVE  x \in Successors
               <=> Cardinality({y \in QueueOf(r, c) : position[y] < position[x]}) < Cardinality(late(c))
    BY DEF Successors, QueueOf, Queue, Ahead
  <2>5. {x \in A : class[x] = c} = {x \in QueueOf(r, c) : x \in Successors}
    BY DEF On, Successors, QueueOf, Queue
  <2>6. QED
    BY <2>1, <2>3, <2>4, <2>5 DEF Foremost
<1>5. ASSUME NEW c
      PROVE  /\ Cardinality({x \in A : class[x] = c}) <= Cardinality({y \in B : class[y] = c})
             /\ {x \in A : class[x] = c} # QueueOf(r, c) =>
                  Cardinality({x \in A : class[x] = c}) = Cardinality({y \in B : class[y] = c})
  <2> DEFINE T == {x \in A : class[x] = c}
  <2>1. T = Foremost(QueueOf(r, c), position, Cardinality(late(c))) /\ Cardinality(late(c)) \in Nat
    BY <1>4
  <2> HIDE DEF T
  <2>2. Cardinality(T) <= Cardinality(late(c)) /\ (T # QueueOf(r, c) => Cardinality(T) = Cardinality(late(c)))
    BY <2>1, QueuesRanked, FirstFew
  <2>3. {y \in B : class[y] = c} = late(c)
    BY <1>4
  <2>4. QED
    BY <2>2, <2>3 DEF T
<1>6. Cardinality(A) <= Cardinality(B)
  <2>1. \A c : Cardinality({x \in A : class[x] = c}) <= Cardinality({y \in B : class[y] = c})
    BY <1>5
  <2> HIDE DEF A, B, class
  <2>2. QED
    BY <1>3, <2>1, ClassByClass
<1>7. Cardinality(B) <= Active(r)
  BY <1>3, FS_Subset DEF Active
<1>8. ASSUME OneTeam(r), A # Queue(r) PROVE Cardinality(A) = Cardinality(B)
  <2>1. PICK x \in Queue(r) : TRUE
    BY <1>1, <1>8
  <2> DEFINE c == request[x].team
  <2>2. \A m \in Queue(r) \cup Granted(r) : class[m] = c
    BY <1>8, <2>1 DEF OneTeam, Queue, Granted
  <2>3. {m \in A : class[m] = c} = A /\ {m \in B : class[m] = c} = B /\ QueueOf(r, c) = Queue(r)
    BY <1>1, <2>2 DEF QueueOf, Queue
  <2> HIDE DEF A, B, class, c
  <2>4. {m \in A : class[m] = c} # QueueOf(r, c)
    BY <1>8, <2>3
  <2>5. Cardinality({m \in A : class[m] = c}) = Cardinality({m \in B : class[m] = c})
    BY <1>5, <2>4
  <2>6. QED
    BY <2>3, <2>5
<1>9. QED
  BY <1>2, <1>3, <1>6, <1>7, <1>8

(***************************************************************************)
(* The inductive invariant.                                                *)
(***************************************************************************)

\* Who is queued after a move was queued before it, at the same place.
LEMMA MoveKeepsQueue ==
  ASSUME TypeOK, PositionsDistinct, LinkIsGranted,
         NEW gone, NEW outcome \in {"released", "expired"}, NEW next,
         \A l \in gone : status[l] # "none",
         \A l \in next : status[l] = "queued",
         Move(gone, outcome, next)
  PROVE  PositionsDistinct' /\ LinkIsGranted'
<1>1. PositionsDistinct'
  <2>1. \A l \in Lease : status'[l] = "queued"
          => status[l] = "queued" /\ position'[l] = position[l] /\ request'[l] = request[l]
    BY DEF Move
  <2>2. QED
    BY <2>1 DEF PositionsDistinct
<1>2. LinkIsGranted'
  <2>1. link' = link /\ request' = request
    BY DEF Move
  <2>2. \A l \in Lease : status[l] \in {"granted", "released", "expired"}
          => status'[l] \in {"granted", "released", "expired"}
    BY DEF Move
  <2>3. QED
    BY <2>1, <2>2 DEF LinkIsGranted, TypeOK
<1>3. QED
  BY <1>1, <1>2

\* A new place is behind all others of its resource.
LEMMA EnqueueKeepsOrder ==
  ASSUME TypeOK, PositionsDistinct, LinkIsGranted,
         NEW l \in Lease, NEW q \in Request, Enqueue(l, q)
  PROVE  PositionsDistinct' /\ LinkIsGranted'
<1>1. q.resource \in Resource
  BY LeaseAssumption DEF Form
<1>2. PositionsDistinct'
  <2>1. \A m \in Lease \ {l} : /\ status'[m] = status[m] /\ request'[m] = request[m]
                               /\ position'[m] = position[m]
    BY DEF Enqueue, TypeOK
  <2>2. request'[l] = q /\ position'[l] = LastPosition(q.resource) + 1
    BY DEF Enqueue, TypeOK
  <2>3. LastPosition(q.resource) \in Nat /\ \A m \in Queue(q.resource) : position[m] <= LastPosition(q.resource)
    BY <1>1, LastPositionIsLast
  <2>4. ASSUME NEW m \in Lease \ {l}, status[m] = "queued", request[m].resource = q.resource
        PROVE  position'[m] # position'[l]
    <3>1. m \in Queue(q.resource) /\ position[m] \in Nat
      BY <2>4 DEF Queue, TypeOK
    <3>2. QED
      BY <2>1, <2>2, <2>3, <3>1
  <2>5. ASSUME NEW x \in Lease, NEW y \in Lease, x # y,
               status'[x] = "queued", status'[y] = "queued", request'[x].resource = request'[y].resource
        PROVE  position'[x] # position'[y]
    <3>1. CASE x = l
      BY <2>1, <2>2, <2>4, <2>5, <3>1
    <3>2. CASE y = l
      BY <2>1, <2>2, <2>4, <2>5, <3>2
    <3>3. CASE x # l /\ y # l
      BY <2>1, <2>5, <3>3 DEF PositionsDistinct
    <3>4. QED
      BY <3>1, <3>2, <3>3
  <2>6. QED
    BY <2>5 DEF PositionsDistinct
<1>3. LinkIsGranted'
  BY DEF LinkIsGranted, Enqueue, TypeOK
<1>4. QED
  BY <1>2, <1>3

\* A lease granted at once links its own task and leaves the queues alone.
LEMMA GrantKeepsOrder ==
  ASSUME TypeOK, PositionsDistinct, LinkIsGranted,
         NEW l \in Lease, NEW q \in Request, Grant(l, q)
  PROVE  PositionsDistinct' /\ LinkIsGranted'
<1>1. /\ \A m \in Lease \ {l} : status'[m] = status[m] /\ request'[m] = request[m]
      /\ status'[l] = "granted" /\ status[l] = "none" /\ position' = position
      /\ link' = [link EXCEPT ![q.task] = l]
  BY DEF Grant, TypeOK
<1>2. q.task \in Task /\ request'[l].task = q.task
  BY LeaseAssumption DEF Form, Grant, TypeOK
<1>3. PositionsDistinct'
  BY <1>1 DEF PositionsDistinct
<1>4. ASSUME NEW t \in Task, link'[t] # NoLease
      PROVE  status'[link'[t]] \in {"granted", "released", "expired"} /\ request'[link'[t]].task = t
  <2>1. CASE t = q.task
    BY <1>1, <1>2, <2>1 DEF TypeOK
  <2>2. CASE t # q.task
    <3>1. link'[t] = link[t] /\ link[t] \in Lease
      BY <1>1, <1>4, <2>2 DEF TypeOK
    <3>2. status[link[t]] \in {"granted", "released", "expired"} /\ request[link[t]].task = t
      BY <1>4, <3>1 DEF LinkIsGranted
    <3>3. link[t] # l
      BY <1>1, <3>2
    <3>4. QED
      BY <1>1, <3>1, <3>2, <3>3
  <2>3. QED
    BY <2>1, <2>2
<1>5. QED
  BY <1>3, <1>4 DEF LinkIsGranted

\* A resource that only one team asked for after a step, only one team asked for
\* before it.
LEMMA OneTeamBefore ==
  ASSUME TypeOK, Next, NEW r, OneTeam(r)'
  PROVE  OneTeam(r)
<1>1. \A l \in Lease : status[l] # "none" => status'[l] # "none" /\ request'[l] = request[l]
  <2>1. CASE \E l \in Lease, q \in Request : Grant(l, q) \/ Enqueue(l, q)
    BY <2>1 DEF Grant, Enqueue, TypeOK
  <2>2. CASE (\E l \in Lease : Release(l)) \/ Sweep
    BY <2>2 DEF Release, Sweep, Move
  <2>3. CASE (\E l \in Lease : PassDeadline(l)) \/ (\E g \in Registration : Register(g)) \/ Restart
    BY <2>3 DEF PassDeadline, Register, Restart
  <2>4. QED
    BY <2>1, <2>2, <2>3 DEF Next
<1>2. QED
  BY <1>1 DEF OneTeam

\* The slots of a steady resource are those it was seeded with.
LEMMA SteadySlotsStep ==
  ASSUME TypeOK, SteadySlots, Next
  PROVE  SteadySlots' /\ \A r \in Steady : slots'[r] = slots[r]
<1>1. CASE \E g \in Registration : Register(g)
  BY <1>1 DEF Register, SteadySlots, Steady, TypeOK
<1>2. CASE Restart
  BY <1>2 DEF Restart, SteadySlots
<1>3. CASE UNCHANGED slots
  BY <1>3 DEF SteadySlots
<1>4. QED
  BY <1>1, <1>2, <1>3 DEF Next, Grant, Enqueue, Release, Move, PassDeadline, Sweep

\* What lease_apply does to the holders and the queue of r.
LEMMA ApplyCount ==
  ASSUME TypeOK, NEW l \in Lease, NEW q \in Request, NEW r,
         Grant(l, q) \/ Enqueue(l, q)
  PROVE  /\ Active(r) \in Nat
         /\ Grant(l, q) => /\ Queue(r)' = Queue(r)
                           /\ Active(r)' = IF q.resource = r THEN Active(r) + 1 ELSE Active(r)
         /\ Enqueue(l, q) => /\ Active(r)' = Active(r)
                             /\ q.resource # r => Queue(r)' = Queue(r)
<1>1. IsFiniteSet(Granted(r)) /\ Active(r) \in Nat
  BY LeasesFinite DEF Granted, Active
<1>2. q.resource \in Resource /\ q \in Form
  BY LeaseAssumption DEF Form
<1>3. /\ status[l] = "none" /\ request'[l].resource = q.resource
      /\ \A m \in Lease \ {l} : status'[m] = status[m] /\ request'[m] = request[m]
  BY <1>2 DEF Grant, Enqueue, TypeOK, Form
<1>4. ASSUME Grant(l, q)
      PROVE  /\ Queue(r)' = Queue(r)
             /\ Granted(r)' = IF q.resource = r THEN Granted(r) \cup {l} ELSE Granted(r)
  <2>1. status'[l] = "granted"
    BY <1>4 DEF Grant, TypeOK
  <2>2. QED
    BY <1>3, <2>1 DEF Queue, Granted
<1>5. ASSUME Enqueue(l, q)
      PROVE  /\ Granted(r)' = Granted(r)
             /\ q.resource # r => Queue(r)' = Queue(r)
  <2>1. status'[l] = "queued"
    BY <1>5 DEF Enqueue, TypeOK
  <2>2. QED
    BY <1>3, <2>1 DEF Queue, Granted
<1>6. l \notin Granted(r) /\ Cardinality(Granted(r) \cup {l}) = Active(r) + 1
  <2>1. l \notin Granted(r)
    BY <1>3 DEF Granted
  <2>2. QED
    BY <1>1, <2>1, FS_AddElement DEF Active
<1>7. QED
  BY <1>1, <1>4, <1>5, <1>6 DEF Active

\* A step that is neither an application nor the end of a lease changes no
\* holder and no queue.
LEMMA OtherCount ==
  ASSUME TypeOK, NEW r, UNCHANGED <<status, request>>
  PROVE  Active(r) \in Nat /\ Active(r)' = Active(r) /\ Queue(r)' = Queue(r)
BY LeasesFinite DEF Active, Granted, Queue

\* Nobody joins a queue by a move.
LEMMA MoveQueue ==
  ASSUME NEW gone, NEW outcome \in {"released", "expired"}, NEW next,
         Move(gone, outcome, next), NEW r
  PROVE  Queue(r)' \subseteq Queue(r) \ next
BY DEF Move, Queue

\* A steady resource keeps its bound and its slots busy.
LEMMA SlotsStep ==
  ASSUME IInv, Next, NEW r \in Steady
  PROVE  /\ Active(r)' <= slots'[r]
         /\ OneTeam(r)' /\ Queue(r)' # {} => Active(r)' = slots'[r]
<1>1. /\ TypeOK /\ PositionsDistinct /\ r \in Resource \ Advisory
      /\ slots'[r] = slots[r] /\ slots[r] \in Nat /\ Active(r) <= slots[r]
  BY SteadySlotsStep DEF IInv, NoOvergrant, Steady, TypeOK
<1>2. OneTeam(r)' => OneTeam(r)
  BY <1>1, OneTeamBefore
<1>3. OneTeam(r) /\ Queue(r) # {} => Active(r) = slots[r]
  BY DEF IInv, NobodyWaitsForFree
<1>4. ASSUME NEW l \in Lease, NEW q \in Request, Grant(l, q)
      PROVE  /\ Active(r)' <= slots[r]
             /\ OneTeam(r)' /\ Queue(r)' # {} => Active(r)' = slots[r]
  <2>1. /\ Active(r) \in Nat /\ Queue(r)' = Queue(r)
        /\ Active(r)' = IF q.resource = r THEN Active(r) + 1 ELSE Active(r)
    BY <1>1, <1>4, ApplyCount
  <2>2. q.resource = r => Active(r) < slots[r]
    BY <1>1, <1>4 DEF Grant, Fits
  <2>3. QED
    BY <1>1, <1>2, <1>3, <2>1, <2>2
<1>5. ASSUME NEW l \in Lease, NEW q \in Request, Enqueue(l, q)
      PROVE  /\ Active(r)' <= slots[r]
             /\ OneTeam(r)' /\ Queue(r)' # {} => Active(r)' = slots[r]
  <2>1. /\ Active(r) \in Nat /\ Active(r)' = Active(r)
        /\ q.resource # r => Queue(r)' = Queue(r)
    BY <1>1, <1>5, ApplyCount
  <2>2. q.resource = r => ~ (Active(r) < slots[r])
    BY <1>1, <1>5 DEF Enqueue, Fits
  <2>3. QED
    BY <1>1, <1>2, <1>3, <2>1, <2>2
<1>6. ASSUME NEW l \in Lease, Release(l)
      PROVE  /\ Active(r)' <= slots[r]
             /\ OneTeam(r)' /\ Queue(r)' # {} => Active(r)' = slots[r]
  <2>1. /\ Active(r) \in Nat
        /\ Active(r)' = IF l \in Granted(r) /\ QueueOf(r, request[l].team) = {}
                        THEN Active(r) - 1 ELSE Active(r)
    BY <1>1, <1>6, ReleaseCount
  <2>2. Queue(r)' \subseteq Queue(r)
    BY <1>6, MoveQueue DEF Release
  <2>3. l \in Granted(r) /\ QueueOf(r, request[l].team) = {} /\ OneTeam(r) => Queue(r) = {}
    BY DEF OneTeam, Queue, QueueOf, Granted
  <2>4. QED
    BY <1>1, <1>2, <1>3, <2>1, <2>2, <2>3
<1>7. ASSUME Sweep
      PROVE  /\ Active(r)' <= slots[r]
             /\ OneTeam(r)' /\ Queue(r)' # {} => Active(r)' = slots[r]
  <2>1. /\ Active(r) \in Nat /\ Active(r)' \in Nat /\ Active(r)' <= Active(r)
        /\ OneTeam(r) /\ On(r, Successors) # Queue(r) => Active(r)' = Active(r)
    BY <1>1, <1>7, SweepCount
  <2>2. Queue(r)' \subseteq Queue(r) \ Successors
    BY <1>7, MoveQueue DEF Sweep
  <2>3. On(r, Successors) = Queue(r) => Queue(r)' = {}
    BY <2>2 DEF On
  <2>4. QED
    BY <1>1, <1>2, <1>3, <2>1, <2>2, <2>3
<1>8. CASE UNCHANGED <<status, request>>
  BY <1>1, <1>2, <1>3, <1>8, OtherCount
<1>9. QED
  BY <1>1, <1>4, <1>5, <1>6, <1>7, <1>8 DEF Next, PassDeadline, Register, Restart

\* The seeded registry without leases satisfies the inductive invariant.
LEMMA IInvInit == Init => IInv
<1> SUFFICES ASSUME Init PROVE IInv
  OBVIOUS
<1>1. TypeOK
  BY InitType
<1>2. \A r : Granted(r) = {} /\ Queue(r) = {}
  BY DEF Init, Granted, Queue
<1>3. \A r \in Resource : slots[r] = Seed[r] /\ Seed[r] \in Nat
  BY LeaseAssumption DEF Init
<1>4. NoOvergrant
  <2>1. \A r : Active(r) = 0
    BY <1>2, FS_EmptySet DEF Active
  <2>2. QED
    BY <1>3, <2>1 DEF NoOvergrant, Steady
<1>5. NobodyWaitsForFree /\ SteadySlots
  BY <1>2, <1>3 DEF NobodyWaitsForFree, SteadySlots, Steady
<1>6. PositionsDistinct /\ LinkIsGranted
  BY DEF Init, PositionsDistinct, LinkIsGranted
<1>7. QED
  BY <1>1, <1>4, <1>5, <1>6 DEF IInv

\* The order of the queues and the links survive every call.
LEMMA OrderStep ==
  ASSUME TypeOK, PositionsDistinct, LinkIsGranted, Next
  PROVE  PositionsDistinct' /\ LinkIsGranted'
<1>1. CASE \E l \in Lease, q \in Request : Grant(l, q)
  BY <1>1, GrantKeepsOrder
<1>2. CASE \E l \in Lease, q \in Request : Enqueue(l, q)
  BY <1>2, EnqueueKeepsOrder
<1>3. ASSUME NEW l \in Lease, Release(l) PROVE PositionsDistinct' /\ LinkIsGranted'
  <2> DEFINE next == IF status[l] = "granted"
                     THEN FirstOf(request[l].resource, request[l].team) ELSE {}
  <2>1. \A m \in next : status[m] = "queued"
    BY DEF FirstOf, QueueOf, Queue
  <2>2. Move({l}, "released", next) /\ \A m \in {l} : status[m] # "none"
    BY <1>3 DEF Release
  <2> HIDE DEF next
  <2>3. QED
    BY <2>1, <2>2, MoveKeepsQueue
<1>4. CASE Sweep
  <2>1. (\A m \in Successors : status[m] = "queued") /\ (\A m \in overdue : status[m] # "none")
    BY DEF Successors, TypeOK
  <2>2. Move(overdue, "expired", Successors)
    BY <1>4 DEF Sweep
  <2>3. QED
    BY <2>1, <2>2, MoveKeepsQueue
<1>5. CASE UNCHANGED <<status, request, position, link>>
  BY <1>5 DEF PositionsDistinct, LinkIsGranted
<1>6. QED
  BY <1>1, <1>2, <1>3, <1>4, <1>5 DEF Next, PassDeadline, Register, Restart

\* Every action preserves the inductive invariant.
LEMMA IInvNext ==
  ASSUME IInv, Next
  PROVE  IInv'
<1>1. TypeOK' /\ SteadySlots' /\ PositionsDistinct' /\ LinkIsGranted'
  BY NextType, SteadySlotsStep, OrderStep DEF IInv
<1>2. Steady' = Steady
  BY DEF Steady
<1>3. NoOvergrant' /\ NobodyWaitsForFree'
  BY <1>2, SlotsStep DEF NoOvergrant, NobodyWaitsForFree
<1>4. QED
  BY <1>1, <1>3 DEF IInv

\* A step that changes nothing preserves the inductive invariant.
LEMMA IInvStutter == IInv /\ UNCHANGED vars => IInv'
<1> SUFFICES ASSUME IInv, UNCHANGED vars PROVE IInv'
  OBVIOUS
<1>1. TypeOK'
  BY StutterType DEF IInv
<1>2. QED
  BY <1>1 DEF IInv, vars, SteadySlots, PositionsDistinct, NoOvergrant, NobodyWaitsForFree,
              LinkIsGranted, Active, Granted, Queue, OneTeam

\* What the five properties below rest on holds at all times.
THEOREM Inductive == Spec => []IInv
BY IInvInit, IInvNext, IInvStutter, PTL DEF Spec

\* lease_apply, lease_release and the sweep never hand out more slots than a
\* resource has, whatever teams compete.
THEOREM NeverOvergranted == Spec => []NoOvergrant
<1>1. IInv => NoOvergrant
  BY DEF IInv
<1>2. QED
  BY <1>1, Inductive, PTL

\* max_queued_position + 1 is a place nobody else has.
THEOREM PlacesDistinct == Spec => []PositionsDistinct
<1>1. IInv => PositionsDistinct
  BY DEF IInv
<1>2. QED
  BY <1>1, Inductive, PTL

\* A resource that one team uses is never idle while that team queues for it.
THEOREM NoIdleSlot == Spec => []NobodyWaitsForFree
<1>1. IInv => NobodyWaitsForFree
  BY DEF IInv
<1>2. QED
  BY <1>1, Inductive, PTL

\* resource_lease_id of a task always names a lease granted to that task.
THEOREM LinksGranted == Spec => []LinkIsGranted
<1>1. IInv => LinkIsGranted
  BY DEF IInv
<1>2. QED
  BY <1>1, Inductive, PTL

(***************************************************************************)
(* What a step may never do.                                               *)
(***************************************************************************)

\* Only an application adds a holder, and it finds a slot free.
LEMMA GrantStep ==
  ASSUME IInv, Next, NEW r \in Resource \ Advisory, Active(r)' > Active(r)
  PROVE  Active(r)' <= slots'[r]
<1>1. TypeOK /\ PositionsDistinct /\ slots[r] \in Nat
  BY DEF IInv, TypeOK
<1>2. ASSUME NEW l \in Lease, NEW q \in Request, Grant(l, q)
      PROVE  Active(r)' <= slots'[r]
  <2>1. Active(r) \in Nat /\ Active(r)' = IF q.resource = r THEN Active(r) + 1 ELSE Active(r)
    BY <1>1, <1>2, ApplyCount
  <2>2. q.resource = r /\ Active(r)' = Active(r) + 1
    BY <2>1
  <2>3. Active(r) < slots[r] /\ slots' = slots
    BY <1>2, <2>2 DEF Grant, Fits
  <2>4. QED
    BY <1>1, <2>1, <2>2, <2>3
<1>3. ASSUME NEW l \in Lease, NEW q \in Request, Enqueue(l, q) PROVE FALSE
  <2>1. Active(r) \in Nat /\ Active(r)' = Active(r)
    BY <1>1, <1>3, ApplyCount
  <2>2. QED
    BY <2>1
<1>4. ASSUME NEW l \in Lease, Release(l) PROVE FALSE
  <2>1. /\ Active(r) \in Nat
        /\ Active(r)' = Active(r) - 1 \/ Active(r)' = Active(r)
    BY <1>1, <1>4, ReleaseCount
  <2>2. QED
    BY <2>1
<1>5. ASSUME Sweep PROVE FALSE
  <2>1. Active(r) \in Nat /\ Active(r)' \in Nat /\ Active(r)' <= Active(r)
    BY <1>1, <1>5, SweepCount
  <2>2. QED
    BY <2>1
<1>6. ASSUME UNCHANGED <<status, request>> PROVE FALSE
  <2>1. Active(r) \in Nat /\ Active(r)' = Active(r)
    BY <1>1, <1>6, OtherCount
  <2>2. QED
    BY <2>1
<1>7. QED
  BY <1>2, <1>3, <1>4, <1>5, <1>6 DEF Next, PassDeadline, Register, Restart

\* Re-registering a resource with fewer slots never lets a later step add a
\* holder beyond them.
THEOREM GrantsBounded == Spec => GrantsWithinSlots
<1> DEFINE Bounded == \A r \in Resource \ Advisory : Active(r)' > Active(r) => Active(r)' <= slots'[r]
<1>1. IInv /\ [Next]_vars => [Bounded]_vars
  <2>1. IInv /\ Next => Bounded
    BY GrantStep
  <2>2. QED
    BY <2>1
<1>2. QED
  BY <1>1, Inductive, PTL DEF Spec, GrantsWithinSlots

\* Who stands before a promoted lease in its team's queue leaves the queue too.
LEMMA OrderOfService ==
  ASSUME IInv, Next, NEW l \in Lease, status[l] = "queued", status'[l] = "granted",
         NEW m \in QueueOf(request[l].resource, request[l].team), position[m] < position[l]
  PROVE  status'[m] # "queued"
<1> DEFINE r == request[l].resource
           team == request[l].team
<1>1. TypeOK /\ PositionsDistinct
  BY DEF IInv
<1>2. l \in QueueOf(r, team) /\ m \in QueueOf(r, team) /\ m \in Lease /\ status[m] = "queued"
  BY DEF QueueOf, Queue
<1>3. ASSUME NEW k \in Lease, Release(k) PROVE FALSE
  <2>1. l \in FirstOf(request[k].resource, request[k].team)
    BY <1>3 DEF Release, Move
  <2>2. request[k].resource = r /\ request[k].team = team
    BY <2>1 DEF FirstOf, QueueOf, Queue
  <2>3. QED
    BY <1>2, <2>1, <2>2 DEF FirstOf, Ahead
<1>4. CASE Sweep
  <2>1. l \in Successors
    BY <1>4 DEF Sweep, Move
  <2> DEFINE late == {o \in overdue : request[o].resource = r /\ request[o].team = team}
             Q == QueueOf(r, team)
  <2>2. Cardinality(Ahead(l, Q)) < Cardinality(late)
    BY <2>1 DEF Successors
  <2>3. Ahead(m, Q) \subseteq Ahead(l, Q) /\ Ahead(l, Q) \subseteq Lease /\ late \subseteq Lease
    <3>1. \A x \in Q \cup {l, m} : position[x] \in Nat /\ x \in Lease
      BY <1>1, <1>2 DEF QueueOf, Queue, TypeOK
    <3>2. Ahead(m, Q) \subseteq Ahead(l, Q)
      BY <3>1 DEF Ahead
    <3>3. QED
      BY <1>1, <3>1, <3>2 DEF Ahead, TypeOK
  <2>4. Cardinality(Ahead(m, Q)) <= Cardinality(Ahead(l, Q))
    BY <2>3, LeasesFinite, FS_Subset
  <2>5. /\ Cardinality(Ahead(m, Q)) \in Nat /\ Cardinality(Ahead(l, Q)) \in Nat
        /\ Cardinality(late) \in Nat
    BY <2>3, LeasesFinite
  <2>6. Cardinality(Ahead(m, Q)) < Cardinality(late)
    BY <2>2, <2>4, <2>5
  <2>7. request[m].resource = r /\ request[m].team = team
    BY <1>2 DEF QueueOf, Queue
  <2>8. m \in Successors
    BY <1>2, <2>6, <2>7 DEF Successors
  <2>9. QED
    BY <1>2, <1>4, <2>8 DEF Sweep, Move, TypeOK
<1>5. ASSUME NEW k \in Lease, NEW q \in Request, Grant(k, q) \/ Enqueue(k, q) PROVE FALSE
  BY <1>1, <1>5 DEF Grant, Enqueue, TypeOK
<1>6. ASSUME UNCHANGED status PROVE FALSE
  BY <1>6
<1>7. QED
  BY <1>3, <1>4, <1>5, <1>6 DEF Next, PassDeadline, Register, Restart

\* _promote_queued serves a team in the order in which it queued.
THEOREM ServedInOrder == Spec => FirstComeFirstServed
<1> DEFINE InOrder == \A l \in Lease : status[l] = "queued" /\ status'[l] = "granted" =>
                        \A m \in QueueOf(request[l].resource, request[l].team) :
                          position[m] < position[l] => status'[m] # "queued"
<1>1. IInv /\ [Next]_vars => [InOrder]_vars
  <2>1. IInv /\ Next => InOrder
    BY OrderOfService
  <2>2. QED
    BY <2>1
<1>2. QED
  BY <1>1, Inductive, PTL DEF Spec, FirstComeFirstServed

(***************************************************************************)
(* The leases implement Handover.                                          *)
(***************************************************************************)

Lines == Resource \X Team

\* A lease in use is of one line; each line, and each resource, has its holders.
LEMMA LinesAre ==
  ASSUME TypeOK
  PROVE  /\ Service!Present = {l \in Lease : status[l] \in {"granted", "queued"}}
         /\ \A r \in Resource : Service!Holders(r) = Granted(r)
<1>1. ASSUME NEW l \in Lease, status[l] \in {"granted", "queued"}
      PROVE  /\ <<request[l].resource, request[l].team>> \in Lines
             /\ request[l].team \in Team
  BY <1>1, LeaseAssumption DEF TypeOK, Form, Lines
<1>2. Service!Present = {l \in Lease : status[l] \in {"granted", "queued"}}
  <2>1. ASSUME NEW l \in Lease, status[l] \in {"granted", "queued"} PROVE l \in Service!Present
    <3> DEFINE n == <<request[l].resource, request[l].team>>
    <3>1. l \in Holding[n] \cup Waiting[n] /\ n \in Lines
      BY <1>1, <2>1 DEF Holding, Waiting, Lines
    <3>2. QED
      BY <3>1 DEF Service!Present, Service!Line, Lines
  <2>2. ASSUME NEW l \in Service!Present
        PROVE l \in Lease /\ status[l] \in {"granted", "queued"}
    <3>1. PICK n \in Lines : l \in Holding[n] \cup Waiting[n]
      BY DEF Service!Present, Service!Line, Lines
    <3>2. QED
      BY <3>1 DEF Holding, Waiting, Lines
  <2>3. QED
    BY <2>1, <2>2
<1>3. ASSUME NEW r \in Resource PROVE Service!Holders(r) = Granted(r)
  <2>1. ASSUME NEW l \in Granted(r) PROVE l \in Service!Holders(r)
    <3>1. request[l].team \in Team /\ <<r, request[l].team>> \in Lines
      BY <1>1 DEF Granted
    <3>2. l \in Holding[<<r, request[l].team>>]
      BY <3>1 DEF Holding, Lines, Granted
    <3>3. QED
      BY <3>1, <3>2 DEF Service!Holders
  <2>2. ASSUME NEW l \in Service!Holders(r) PROVE l \in Granted(r)
    <3>1. PICK g \in Team : l \in Holding[<<r, g>>]
      BY DEF Service!Holders
    <3>2. <<r, g>> \in Lines
      BY DEF Lines
    <3>3. QED
      BY <3>1, <3>2 DEF Holding, Lines, Granted
  <2>3. QED
    BY <2>1, <2>2
<1>4. QED
  BY <1>2, <1>3

\* An immediate grant is a newcomer getting in.
LEMMA GrantEnters ==
  ASSUME TypeOK, TypeOK', NEW l \in Lease, NEW q \in Request, Grant(l, q)
  PROVE  Service!Next
<1> DEFINE n == <<q.resource, q.team>>
<1>1. q.resource \in Resource /\ q.team \in Team /\ n \in Lines
  BY LeaseAssumption DEF Form, Lines
<1>2. /\ status[l] = "none" /\ status'[l] = "granted"
      /\ request'[l].resource = q.resource /\ request'[l].team = q.team
      /\ \A m \in Lease \ {l} : status'[m] = status[m] /\ request'[m] = request[m]
      /\ UNCHANGED <<slots, position>>
  <2>1. q \in Form
    BY LeaseAssumption
  <2>2. QED
    BY <2>1 DEF Grant, TypeOK, Form
<1>3. l \notin Service!Present /\ Service!HasRoom(n[1])
  BY <1>1, <1>2, LinesAre
  DEF Grant, Fits, Active, Service!HasRoom, Service!Cardinality, Cardinality
<1>4. Holding' = [Holding EXCEPT ![n] = @ \cup {l}]
  <2>1. ASSUME NEW k \in Lines
        PROVE {m \in Lease : status'[m] = "granted" /\ request'[m].resource = k[1] /\ request'[m].team = k[2]}
              = {m \in Lease : status[m] = "granted" /\ request[m].resource = k[1] /\ request[m].team = k[2]}
                \cup (IF k = n THEN {l} ELSE {})
    BY <1>2 DEF Lines
  <2>2. Holding = [k \in Lines |-> {m \in Lease : status[m] = "granted" /\ request[m].resource = k[1]
                                                 /\ request[m].team = k[2]}]
    BY DEF Holding, Lines
  <2>3. Holding' = [k \in Lines |-> {m \in Lease : status'[m] = "granted" /\ request'[m].resource = k[1]
                                                 /\ request'[m].team = k[2]}]
    BY DEF Holding, Lines
  <2> HIDE DEF n
  <2>4. \A k \in Lines : Holding'[k] = Holding[k] \cup (IF k = n THEN {l} ELSE {})
    BY <2>1, <2>2, <2>3
  <2>5. Holding = [k \in Lines |-> Holding[k]] /\ Holding' = [k \in Lines |-> Holding'[k]]
    BY <2>2, <2>3
  <2>6. QED
    BY ONLY <1>1, <2>4, <2>5
<1>5. Waiting' = Waiting
  BY <1>2 DEF Waiting
<1>6. Before' = Before
  BY <1>2 DEF Before
<1>7. Service!GetsIn(l, n)
  BY <1>2, <1>3, <1>4, <1>5, <1>6 DEF Service!GetsIn
<1>8. QED
  BY <1>1, <1>7 DEF Service!Next, Service!Line, Lines

\* A lease that is queued stands behind all others of its line.
LEMMA EnqueueStands ==
  ASSUME TypeOK, TypeOK', NEW l \in Lease, NEW q \in Request, Enqueue(l, q)
  PROVE  Service!Next
<1> DEFINE n == <<q.resource, q.team>>
           last == LastPosition(q.resource)
<1>1. q.resource \in Resource /\ q.team \in Team /\ n \in Lines
  BY LeaseAssumption DEF Form, Lines
<1>2. /\ status[l] = "none" /\ status'[l] = "queued"
      /\ request'[l].resource = q.resource /\ request'[l].team = q.team
      /\ position'[l] = last + 1
      /\ \A m \in Lease \ {l} : /\ status'[m] = status[m] /\ request'[m] = request[m]
                                /\ position'[m] = position[m]
      /\ UNCHANGED slots
  BY DEF Enqueue, TypeOK
<1>3. l \notin Service!Present /\ ~Service!HasRoom(n[1])
  BY <1>1, <1>2, LinesAre
  DEF Enqueue, Fits, Active, Service!HasRoom, Service!Cardinality, Cardinality
<1>4. Waiting' = [Waiting EXCEPT ![n] = @ \cup {l}]
  <2>1. ASSUME NEW k \in Lines
        PROVE {m \in Lease : status'[m] = "queued" /\ request'[m].resource = k[1] /\ request'[m].team = k[2]}
              = {m \in Lease : status[m] = "queued" /\ request[m].resource = k[1] /\ request[m].team = k[2]}
                \cup (IF k = n THEN {l} ELSE {})
    BY <1>2 DEF Lines
  <2>2. Waiting = [k \in Lines |-> {m \in Lease : status[m] = "queued" /\ request[m].resource = k[1]
                                                 /\ request[m].team = k[2]}]
    BY DEF Waiting, Lines
  <2>3. Waiting' = [k \in Lines |-> {m \in Lease : status'[m] = "queued" /\ request'[m].resource = k[1]
                                                 /\ request'[m].team = k[2]}]
    BY DEF Waiting, Lines
  <2> HIDE DEF n
  <2>4. \A k \in Lines : Waiting'[k] = Waiting[k] \cup (IF k = n THEN {l} ELSE {})
    BY <2>1, <2>2, <2>3
  <2>5. Waiting = [k \in Lines |-> Waiting[k]] /\ Waiting' = [k \in Lines |-> Waiting'[k]]
    BY <2>2, <2>3
  <2>6. QED
    BY ONLY <1>1, <2>4, <2>5
<1>5. Holding' = Holding
  BY <1>2 DEF Holding
<1>6. last \in Nat /\ \A m \in Queue(q.resource) : position[m] \in Nat /\ position[m] <= last
  BY <1>1, LastPositionIsLast DEF Queue, TypeOK
<1>7. Before' = Before \cup (Waiting[n] \X {l})
  <2>1. Waiting[n] = {m \in Lease : status[m] = "queued" /\ request[m].resource = q.resource
                                   /\ request[m].team = q.team}
    BY <1>1 DEF Waiting, Lines
  <2>2. \A m \in Waiting[n] : position[m] < last + 1 /\ ~(last + 1 < position[m])
    <3>1. \A m \in Waiting[n] : m \in Queue(q.resource)
      BY <2>1 DEF Queue
    <3> HIDE DEF last
    <3>2. QED
      BY <1>6, <3>1
  <2>3. l \notin Waiting[n] /\ ~(last + 1 < last + 1)
    BY <1>2, <1>6, <2>1
  <2> HIDE DEF n, last
  <2>4. ASSUME NEW a \in Lease, NEW b \in Lease
        PROVE  <<a, b>> \in Before' <=> <<a, b>> \in Before \cup (Waiting[n] \X {l})
    <3>1. CASE a # l /\ b # l
      BY <1>2, <3>1 DEF Before
    <3>2. CASE a # l /\ b = l
      BY <1>2, <2>1, <2>2, <3>2 DEF Before
    <3>3. CASE a = l
      BY <1>2, <2>1, <2>2, <2>3, <3>3 DEF Before
    <3>4. QED
      BY <3>1, <3>2, <3>3
  <2>5. Before' \subseteq Lease \X Lease /\ Before \cup (Waiting[n] \X {l}) \subseteq Lease \X Lease
    BY <2>1 DEF Before
  <2>6. QED
    BY <2>4, <2>5
<1>8. Service!StandsBehind(l, n)
  BY <1>2, <1>3, <1>4, <1>5, <1>7 DEF Service!StandsBehind
<1>9. QED
  BY <1>1, <1>8 DEF Service!Next, Service!Line, Lines

\* Whoever leaves hands over to the leases that become granted, when these are
\* chosen fairly in each line.
LEMMA MoveHandsOver ==
  ASSUME TypeOK, NEW gone \in SUBSET Lease, NEW next \in SUBSET Lease,
         NEW outcome \in {"released", "expired"}, Move(gone, outcome, next),
         \A l \in gone : l \notin next /\ status[l] \in {"granted", "queued"},
         \A l \in next : status[l] = "queued",
         \A n \in Lines : Service!Fair(Waiting[n] \ gone, next \cap Waiting[n],
                                       Cardinality(Holding[n] \cap gone))
  PROVE  Service!Next
<1>1. /\ \A l \in Lease : status'[l] = IF l \in gone THEN outcome
                                       ELSE IF l \in next THEN "granted" ELSE status[l]
      /\ request' = request /\ UNCHANGED slots
      /\ \A l \in Lease \ next : position'[l] = position[l]
  BY DEF Move
<1>2. \A n \in Lines : Holding'[n] = (Holding[n] \ gone) \cup (next \cap Waiting[n])
  BY <1>1 DEF Holding, Waiting, Lines
<1>3. \A n \in Lines : Waiting'[n] = Waiting[n] \ (gone \cup next)
  BY <1>1 DEF Waiting, Lines
<1>4. \A n \in Lines : Holding[n] \cap Waiting[n] = {}
  BY DEF Holding, Waiting, Lines
<1>5. gone \subseteq Service!Present /\ next \subseteq Service!Present
  BY LinesAre
<1>6. Service!Present \ Service!Present' = gone
  <2>1. ASSUME NEW l \in gone PROVE l \notin Service!Present'
    <3>1. \A n \in Lines : l \notin Holding'[n] /\ l \notin Waiting'[n]
      BY <1>2, <1>3
    <3>2. QED
      BY <3>1 DEF Service!Present, Service!Line, Lines
  <2>2. ASSUME NEW l \in Service!Present, l \notin gone PROVE l \in Service!Present'
    <3>1. PICK n \in Lines : l \in Holding[n] \cup Waiting[n]
      BY DEF Service!Present, Service!Line, Lines
    <3>2. l \in Holding'[n] \cup Waiting'[n]
      BY <1>2, <1>3, <2>2, <3>1
    <3>3. QED
      BY <3>2 DEF Service!Present, Service!Line, Lines
  <2>3. QED
    BY <1>5, <2>1, <2>2
<1>7. UNION {Holding'[n] \cap Waiting[n] : n \in Service!Line} = next
  <2>1. ASSUME NEW l \in next PROVE \E n \in Lines : l \in Holding'[n] \cap Waiting[n]
    <3>1. PICK n \in Lines : l \in Holding[n] \cup Waiting[n]
      BY <1>5 DEF Service!Present, Service!Line, Lines
    <3>2. l \notin Holding[n]
      BY DEF Holding, Lines
    <3>3. QED
      BY <1>2, <3>1, <3>2
  <2>2. ASSUME NEW n \in Lines, NEW l \in Holding'[n] \cap Waiting[n] PROVE l \in next
    BY <1>2, <1>4, <2>2
  <2>3. QED
    BY <2>1, <2>2 DEF Service!Line, Lines
<1>8. Before' = {b \in Before : {b[1], b[2]} \cap (gone \cup next) = {}}
  <2>1. \A l \in Lease : status'[l] = "queued" <=> status[l] = "queued" /\ l \notin gone \cup next
    BY <1>1
  <2>2. ASSUME NEW a \in Lease, NEW c \in Lease
        PROVE  <<a, c>> \in Before' <=> <<a, c>> \in Before /\ {a, c} \cap (gone \cup next) = {}
    BY <1>1, <2>1 DEF Before
  <2>3. Before' \subseteq Lease \X Lease /\ Before \subseteq Lease \X Lease
    BY DEF Before
  <2>4. QED
    BY <2>2, <2>3
<1>9. Service!HandOver(gone, next)
  <2>1. Holding' = [n \in Lines |-> (Holding[n] \ gone) \cup (next \cap Waiting[n])]
    BY <1>2 DEF Holding, Lines
  <2>2. Waiting' = [n \in Lines |-> Waiting[n] \ (gone \cup next)]
    BY <1>3 DEF Waiting, Lines
  <2>3. QED
    BY <1>1, <1>8, <2>1, <2>2 DEF Service!HandOver, Service!Line, Lines, Service!Cardinality, Cardinality
<1>10. Service!Leave
  BY <1>6, <1>7, <1>9 DEF Service!Leave
<1>11. QED
  BY <1>10 DEF Service!Next

\* Nobody becomes granted whose predecessor in line stays queued.
LEMMA MoveInOrder ==
  ASSUME IInv, Next, NEW gone \in SUBSET Lease, NEW next \in SUBSET Lease, NEW outcome,
         Move(gone, outcome, next), \A l \in next : l \notin gone, NEW n \in Lines,
         NEW u \in next \cap Waiting[n], NEW v \in (Waiting[n] \ gone) \ (next \cap Waiting[n])
  PROVE  <<v, u>> \notin Before
<1> SUFFICES ASSUME <<v, u>> \in Before
             PROVE  FALSE
  OBVIOUS
<1>1. /\ u \in Lease /\ status[u] = "queued" /\ status'[u] = "granted"
      /\ v \in Lease /\ status[v] = "queued" /\ status'[v] = "queued"
  BY DEF Waiting, Lines, Move
<1>2. /\ request[v].resource = request[u].resource /\ request[v].team = request[u].team
      /\ position[v] < position[u]
  BY DEF Before
<1>3. v \in QueueOf(request[u].resource, request[u].team)
  BY <1>1, <1>2 DEF QueueOf, Queue
<1>4. QED
  BY <1>1, <1>2, <1>3, OrderOfService

\* A line is the queue of a team for a resource.
LEMMA LineIsQueue ==
  ASSUME TypeOK, NEW n \in Lines
  PROVE  /\ Waiting[n] = QueueOf(n[1], n[2])
         /\ IsFiniteSet(Waiting[n]) /\ Cardinality(Waiting[n]) \in Nat
         /\ Waiting[n] # {} => Cardinality(Waiting[n]) >= 1
<1>1. Waiting[n] = QueueOf(n[1], n[2]) /\ Waiting[n] \subseteq Lease
  BY DEF Waiting, QueueOf, Queue, Lines
<1>2. IsFiniteSet(Waiting[n]) /\ Cardinality(Waiting[n]) \in Nat
  BY <1>1, LeasesFinite
<1>3. Cardinality(Waiting[n]) = 0 <=> Waiting[n] = {}
  BY <1>2, FS_EmptySet
<1>4. QED
  BY <1>1, <1>2, <1>3

\* A released lease hands its slot over to the first of its line.
LEMMA ReleaseHandsOver ==
  ASSUME IInv, Next, NEW l \in Lease, Release(l)
  PROVE  Service!Next
<1> DEFINE next == IF status[l] = "granted"
                   THEN FirstOf(request[l].resource, request[l].team) ELSE {}
           home == <<request[l].resource, request[l].team>>
<1>1. TypeOK /\ PositionsDistinct
  BY DEF IInv
<1>2. /\ next \in SUBSET Lease /\ (\A m \in next : status[m] = "queued") /\ l \notin next
      /\ status[l] \in {"granted", "queued"}
      /\ Move({l}, "released", next)
  BY DEF FirstOf, QueueOf, Queue, Release
<1>3. ASSUME NEW n \in Lines
      PROVE  LET line == Waiting[n] \ {l}
                 k == Cardinality(Holding[n] \cap {l})
             IN  Cardinality(next \cap Waiting[n])
                   = IF Cardinality(line) < k THEN Cardinality(line) ELSE k
  <2>1. IsFiniteSet(Waiting[n] \ {l}) /\ Cardinality(Waiting[n] \ {l}) \in Nat
    BY <1>1, LineIsQueue, FS_Subset, FS_CardinalityType
  <2>2. CASE status[l] = "granted" /\ n = home
    <3>1. Holding[n] \cap {l} = {l} /\ Waiting[n] \ {l} = Waiting[n]
      BY <2>2 DEF Holding, Waiting, Lines
    <3>2. next \cap Waiting[n] = FirstOf(n[1], n[2])
      BY <1>1, <2>2, LineIsQueue DEF FirstOf
    <3>3. Cardinality(next \cap Waiting[n]) = IF Waiting[n] = {} THEN 0 ELSE 1
      <4>1. Waiting[n] = QueueOf(n[1], n[2])
        BY <1>1, LineIsQueue
      <4> HIDE DEF next
      <4>2. QED
        BY <1>1, <3>2, <4>1, OneSuccessor
    <3>4. Cardinality(Holding[n] \cap {l}) = 1
      BY <3>1, FS_Singleton
    <3>5. Cardinality(Waiting[n]) = 0 \/ Waiting[n] # {}
      BY FS_EmptySet
    <3> HIDE DEF next, home
    <3>6. Cardinality(Waiting[n]) \in Nat /\ (Waiting[n] # {} => Cardinality(Waiting[n]) >= 1)
      BY <1>1, LineIsQueue
    <3>7. QED
      BY ONLY <3>1, <3>3, <3>4, <3>5, <3>6
  <2>3. CASE ~(status[l] = "granted" /\ n = home)
    <3>1. Holding[n] \cap {l} = {} /\ next \cap Waiting[n] = {}
      BY <2>3 DEF Holding, Waiting, Lines, FirstOf, QueueOf, Queue
    <3>2. Cardinality(Holding[n] \cap {l}) = 0 /\ Cardinality(next \cap Waiting[n]) = 0
      BY <3>1, FS_EmptySet
    <3> HIDE DEF next, home
    <3>3. QED
      BY <2>1, <3>2
  <2>4. QED
    BY <2>2, <2>3
<1> HIDE DEF next, home
<1> DEFINE gone == {l}
<1>4. gone \in SUBSET Lease /\ (\A m \in next : m \notin gone) /\ Move(gone, "released", next)
  BY <1>2
<1>5. \A n \in Lines : Service!Fair(Waiting[n] \ {l}, next \cap Waiting[n], Cardinality(Holding[n] \cap {l}))
  <2>1. ASSUME NEW n \in Lines, NEW u \in next \cap Waiting[n],
               NEW v \in (Waiting[n] \ gone) \ (next \cap Waiting[n])
        PROVE  <<v, u>> \notin Before
    <3> HIDE DEF gone
    <3>1. QED
      BY <1>2, <1>4, MoveInOrder
  <2>2. QED
    BY <1>3, <2>1 DEF Service!Fair, Service!Cardinality, Cardinality
<1>6. QED
  BY <1>1, <1>2, <1>5, MoveHandsOver

\* A sweep hands over, in each line, as many slots as expired there.
LEMMA SweepHandsOver ==
  ASSUME IInv, Next, Sweep
  PROVE  Service!Next
<1>1. TypeOK /\ PositionsDistinct
  BY DEF IInv
<1>2. /\ overdue \in SUBSET Lease /\ Successors \in SUBSET Lease
      /\ \A l \in overdue : l \notin Successors /\ status[l] \in {"granted", "queued"}
      /\ \A l \in Successors : status[l] = "queued"
      /\ Move(overdue, "expired", Successors)
  BY <1>1 DEF TypeOK, Successors, Sweep
<1>3. ASSUME NEW n \in Lines
      PROVE  LET line == Waiting[n] \ overdue
                 k == Cardinality(Holding[n] \cap overdue)
             IN  Cardinality(Successors \cap Waiting[n])
                   = IF Cardinality(line) < k THEN Cardinality(line) ELSE k
  <2> DEFINE Q == Waiting[n]
             T == Successors \cap Q
             late == {m \in overdue : request[m].resource = n[1] /\ request[m].team = n[2]}
             k == Cardinality(late)
  <2>1. Holding[n] \cap overdue = late /\ Q \ overdue = Q
    BY <1>1 DEF Holding, Waiting, Lines, TypeOK
  <2>2. k \in Nat
    BY <1>2, LeasesFinite
  <2>3. Q = QueueOf(n[1], n[2]) /\ IsFiniteSet(Q) /\ Cardinality(Q) \in Nat
    BY <1>1, LineIsQueue
  <2>4. T = Foremost(Q, position, k)
    <3>1. ASSUME NEW x \in Q
          PROVE  x \in Successors <=> Cardinality({y \in Q : position[y] < position[x]}) < k
      BY <2>3 DEF Successors, QueueOf, Queue, Ahead
    <3>2. QED
      BY <3>1 DEF Foremost
  <2>5. /\ \A x \in Q : position[x] \in Nat
        /\ \A x, y \in Q : x # y => position[x] # position[y]
    BY <1>1, <2>3, QueuesRanked
  <2>6. T \subseteq Q
    OBVIOUS
  <2> HIDE DEF Q, T, k
  <2>7. Cardinality(T) \in Nat /\ Cardinality(T) <= k /\ (T # Q => Cardinality(T) = k)
    BY <2>2, <2>3, <2>4, <2>5, FirstFew
  <2>8. Cardinality(T) <= Cardinality(Q)
    BY <2>3, <2>6, FS_Subset
  <2>9. Cardinality(T) = IF Cardinality(Q) < k THEN Cardinality(Q) ELSE k
    BY <2>2, <2>3, <2>7, <2>8
  <2>10. QED
    BY <2>1, <2>9 DEF Q, T, k
<1>4. \A n \in Lines : Service!Fair(Waiting[n] \ overdue, Successors \cap Waiting[n],
                                    Cardinality(Holding[n] \cap overdue))
  BY <1>2, <1>3, MoveInOrder DEF Service!Fair, Service!Cardinality, Cardinality
<1>5. QED
  BY <1>1, <1>2, <1>4, MoveHandsOver

\* The leases implement Handover: whatever applications, releases, deadlines,
\* sweeps, re-registrations and restarts come together, a newcomer gets in only
\* while there is room, and a slot that becomes free goes to the first of its own
\* team's line.
THEOREM Refinement == Spec => ImplementsHandover
<1>1. Init => Service!Init
  <2>1. ASSUME Init PROVE slots \in [Resource -> Nat]
    BY <2>1, LeaseAssumption DEF Init
  <2>2. ASSUME Init PROVE Before = {}
    BY <2>2 DEF Init, Before
  <2>3. ASSUME Init PROVE Holding = [n \in Lines |-> {}] /\ Waiting = [n \in Lines |-> {}]
    BY <2>3 DEF Init, Holding, Waiting, Lines
  <2>4. QED
    BY <2>1, <2>2, <2>3 DEF Service!Init, Service!Line, Lines
<1>2. IInv /\ [Next]_vars => [Service!Next]_(Service!vars)
  <2> SUFFICES ASSUME IInv, [Next]_vars
               PROVE  Service!Next \/ UNCHANGED Service!vars
    BY DEF Service!vars
  <2>1. TypeOK
    BY DEF IInv
  <2>2. TypeOK'
    BY <2>1, NextType, StutterType
  <2>3. ASSUME NEW l \in Lease, NEW q \in Request, Grant(l, q) PROVE Service!Next
    BY <2>1, <2>2, <2>3, GrantEnters
  <2>4. ASSUME NEW l \in Lease, NEW q \in Request, Enqueue(l, q) PROVE Service!Next
    BY <2>1, <2>2, <2>4, EnqueueStands
  <2>5. ASSUME NEW l \in Lease, Release(l) PROVE Service!Next
    <3>1. Next
      BY <2>5 DEF Next
    <3>2. QED
      BY <2>5, <3>1, ReleaseHandsOver
  <2>6. CASE Sweep
    <3>1. Next
      BY <2>6 DEF Next
    <3>2. QED
      BY <2>6, <3>1, SweepHandsOver
  <2>7. ASSUME UNCHANGED <<status, request, position>>
        PROVE  UNCHANGED <<Holding, Waiting, Before>>
    BY <2>7 DEF Holding, Waiting, Before
  <2>8. ASSUME NEW l \in Lease, PassDeadline(l) PROVE UNCHANGED Service!vars
    BY <2>7, <2>8 DEF PassDeadline, Service!vars
  <2>9. ASSUME NEW g \in Registration, Register(g) PROVE Service!Next
    BY <2>2, <2>7, <2>9 DEF Register, TypeOK, Service!Next, Service!Resize
  <2>10. CASE Restart
    BY <2>2, <2>7, <2>10 DEF Restart, TypeOK, Service!Next, Service!Resize
  <2>11. CASE UNCHANGED vars
    BY <2>7, <2>11 DEF vars, Service!vars
  <2>12. QED
    BY <2>3, <2>4, <2>5, <2>6, <2>8, <2>9, <2>10, <2>11 DEF Next
<1>3. QED
  BY <1>1, <1>2, Inductive, PTL DEF Spec, ImplementsHandover, Service!Spec
=============================================================================
