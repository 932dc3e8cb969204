----------------------- MODULE SessionManagerProofs -----------------------
(***************************************************************************)
(* Theorems about SessionManager and the gateway it runs on, for every set *)
(* of callers and models, every number of permits and every threshold.     *)
(***************************************************************************)
EXTENDS SessionManager, SequenceTheorems, FiniteSetTheorems, TLAPS

-----------------------------------------------------------------------------
(* The inductive invariant.                                                *)

\* A breaker in the pair b counts up to the threshold, and is tripped there.
BreakerOK(b) ==
  /\ DOMAIN b.failures = ModelSet /\ DOMAIN b.trip = ModelSet
  /\ \A m \in ModelSet : /\ b.failures[m] \in 0..Threshold
                         /\ b.trip[m] # "closed" <=> b.failures[m] = Threshold

CallsOK == DOMAIN call = Callers /\ \A c \in Callers : DOMAIN call[c] = DOMAIN NoCall

PermitsOK == /\ permits \in Nat /\ IsFiniteSet(Calling)
             /\ permits + Cardinality(Calling) = Limit

QueueOK == /\ queue \in Seq(Callers) /\ IsInjective(queue)
           /\ ToSet(queue) = {c \in Callers : call[c].pc = "queued"}

GatewayOK == BreakerOK(Breaker) /\ CallsOK /\ PermitsOK /\ QueueOK

Domains == /\ DOMAIN status = Sessions /\ DOMAIN task = Sessions
           /\ DOMAIN pending = Sessions /\ DOMAIN injected = Sessions
           /\ DOMAIN taken = Sessions /\ DOMAIN ran = Sessions

\* Every accepted input is run, held or injected; a session that is ready
\* holds one; and only a turn, or the end of one, has a call under way.
SessionOK(s) ==
  /\ {pending[s], injected[s], taken[s], ran[s]} \subseteq Nat
  /\ ran[s] + pending[s] + injected[s] = taken[s]
  /\ status[s] = "none" => task[s] = "none" /\ taken[s] = 0
  /\ task[s] = "ready" => pending[s] > 0
  /\ status[s] \in Ended => task[s] = "done"
  /\ status[s] = "completed" => pending[s] = 0 /\ injected[s] = 0
  /\ InCall(s) => task[s] \in {"turn", "stopping"}

SessionsOK == Domains /\ \A s \in Sessions : SessionOK(s)

IInv == GatewayOK /\ SessionsOK

-----------------------------------------------------------------------------
(* The breaker.                                                            *)

LEMMA SuccessKeeps ==
  ASSUME NEW b, BreakerOK(b), NEW m
  PROVE  BreakerOK(record_success(b, m))
BY GatewayAssumption DEF BreakerOK, record_success

LEMMA FailureKeeps ==
  ASSUME NEW b, BreakerOK(b), NEW m
  PROVE  BreakerOK(record_failure(b, m))
<1> DEFINE count == IF b.failures[m] < Threshold THEN b.failures[m] + 1 ELSE Threshold
           f == [b.failures EXCEPT ![m] = count]
           t == [b.trip EXCEPT ![m] = IF count = Threshold THEN "open" ELSE @]
<1>1. /\ record_failure(b, m).failures = f /\ record_failure(b, m).trip = t
  BY DEF record_failure
<1>2. DOMAIN f = ModelSet /\ DOMAIN t = ModelSet
  BY DEF BreakerOK
<1>3. ASSUME NEW n \in ModelSet
      PROVE  f[n] \in 0..Threshold /\ (t[n] # "closed" <=> f[n] = Threshold)
  <2>1. CASE n # m
    BY <2>1 DEF BreakerOK
  <2>2. CASE n = m
    <3>1. /\ f[n] = count /\ t[n] = IF count = Threshold THEN "open" ELSE b.trip[m]
          /\ b.failures[m] \in 0..Threshold /\ (b.trip[m] # "closed" <=> b.failures[m] = Threshold)
      BY <2>2 DEF BreakerOK
    <3>2. QED
      BY <3>1, GatewayAssumption
  <2>3. QED
    BY <2>1, <2>2
<1>4. QED
  BY <1>1, <1>2, <1>3 DEF BreakerOK

LEMMA LookKeeps ==
  ASSUME NEW b, BreakerOK(b), NEW M
  PROVE  BreakerOK(Looked(b, M))
BY GatewayAssumption DEF BreakerOK, Looked

LEMMA BreakerSet ==
  ASSUME NEW b, BreakerOK(b), SetBreaker(b)
  PROVE  BreakerOK(Breaker)'
BY DEF BreakerOK, SetBreaker, Breaker

-----------------------------------------------------------------------------
(* The permits and the queue.                                              *)

\* A step that changes the call of c at most.
OnlyCall(c) ==
  /\ DOMAIN call' = Callers /\ DOMAIN call'[c] = DOMAIN NoCall
  /\ \A d \in Callers \ {c} : call'[d] = call[d]

LEMMA OnlyCallOK ==
  ASSUME CallsOK, NEW c \in Callers, OnlyCall(c)
  PROVE  CallsOK'
BY DEF CallsOK, OnlyCall

\* c takes a permit, gives one back, or does neither.
LEMMA PermitTaken ==
  ASSUME PermitsOK, NEW c \in Callers, OnlyCall(c), permits > 0, permits' = permits - 1,
         call[c].pc # "calling", call'[c].pc = "calling"
  PROVE  PermitsOK'
<1>1. Calling' = Calling \cup {c} /\ c \notin Calling
  BY DEF Calling, OnlyCall
<1>2. IsFiniteSet(Calling') /\ Cardinality(Calling') = Cardinality(Calling) + 1
  BY <1>1, FS_AddElement DEF PermitsOK
<1>3. QED
  BY <1>2, FS_CardinalityType, GatewayAssumption DEF PermitsOK

LEMMA PermitGiven ==
  ASSUME PermitsOK, NEW c \in Callers, OnlyCall(c), permits' = permits + 1,
         call[c].pc = "calling", call'[c].pc # "calling"
  PROVE  PermitsOK'
<1>1. Calling' = Calling \ {c} /\ c \in Calling
  BY DEF Calling, OnlyCall
<1>2. IsFiniteSet(Calling') /\ Cardinality(Calling') = Cardinality(Calling) - 1
  BY <1>1, FS_RemoveElement DEF PermitsOK
<1>3. QED
  BY <1>2, FS_CardinalityType, GatewayAssumption DEF PermitsOK

LEMMA PermitsStay ==
  ASSUME PermitsOK, NEW c \in Callers, OnlyCall(c), permits' = permits,
         call[c].pc # "calling", call'[c].pc # "calling"
  PROVE  PermitsOK'
<1>1. Calling' = Calling
  BY DEF Calling, OnlyCall
<1>2. QED
  BY <1>1 DEF PermitsOK

LEMMA QueueStays ==
  ASSUME QueueOK, NEW c \in Callers, OnlyCall(c), queue' = queue,
         call[c].pc # "queued", call'[c].pc # "queued"
  PROVE  QueueOK'
BY DEF QueueOK, OnlyCall

LEMMA Enqueued ==
  ASSUME QueueOK, NEW c \in Callers, OnlyCall(c), queue' = Append(queue, c),
         call[c].pc # "queued", call'[c].pc = "queued"
  PROVE  QueueOK'
<1>1. /\ queue' \in Seq(Callers) /\ Len(queue') = Len(queue) + 1 /\ Len(queue) \in Nat
      /\ \A i \in 1..Len(queue) : queue'[i] = queue[i]
      /\ queue'[Len(queue) + 1] = c
      /\ DOMAIN queue = 1..Len(queue) /\ DOMAIN queue' = 1..Len(queue')
  BY AppendProperties, LenProperties DEF QueueOK
<1>2. \A i \in 1..Len(queue) : queue[i] # c
  BY <1>1 DEF QueueOK, ToSet
<1>3. IsInjective(queue')
  BY <1>1, <1>2 DEF QueueOK, IsInjective
<1>4. ToSet(queue') = ToSet(queue) \cup {c}
  BY <1>1 DEF ToSet
<1>5. QED
  BY <1>1, <1>3, <1>4 DEF QueueOK, OnlyCall

\* c leaves the queue, wherever it was.
LEMMA Leaves ==
  ASSUME QueueOK, NEW c \in Callers, OnlyCall(c), call'[c].pc # "queued",
         queue' \in Seq(Callers), IsInjective(queue'), ToSet(queue') = ToSet(queue) \ {c}
  PROVE  QueueOK'
BY DEF QueueOK, OnlyCall

LEMMA TailLeaves ==
  ASSUME NEW S, NEW q \in Seq(S), q # <<>>, IsInjective(q)
  PROVE  Tail(q) \in Seq(S) /\ IsInjective(Tail(q)) /\ ToSet(Tail(q)) = ToSet(q) \ {Head(q)}
<1>1. /\ Tail(q) \in Seq(S) /\ Len(Tail(q)) = Len(q) - 1 /\ Len(q) \in Nat \ {0} /\ Head(q) = q[1]
      /\ \A i \in 1..Len(Tail(q)) : Tail(q)[i] = q[i + 1]
      /\ DOMAIN q = 1..Len(q) /\ DOMAIN Tail(q) = 1..Len(Tail(q))
  BY HeadTailProperties, LenProperties, EmptySeq
<1>2. IsInjective(Tail(q))
  BY <1>1 DEF IsInjective
<1>3. \A i \in 2..Len(q) : i - 1 \in 1..Len(Tail(q)) /\ Tail(q)[i - 1] = q[i]
  BY <1>1
<1>4. ToSet(Tail(q)) = ToSet(q) \ {Head(q)}
  <2>1. ASSUME NEW i \in DOMAIN Tail(q) PROVE Tail(q)[i] \in ToSet(q) \ {Head(q)}
    BY <1>1 DEF ToSet, IsInjective
  <2>2. ASSUME NEW i \in DOMAIN q, q[i] # Head(q) PROVE q[i] \in ToSet(Tail(q))
    <3>1. i \in 2..Len(q)
      BY <1>1, <2>2
    <3>2. i - 1 \in DOMAIN Tail(q) /\ Tail(q)[i - 1] = q[i]
      BY <1>1, <1>3, <3>1
    <3>3. QED
      BY <3>2 DEF ToSet
  <2>3. QED
    BY <2>1, <2>2 DEF ToSet
<1>5. QED
  BY <1>1, <1>2, <1>4

LEMMA RemoveLeaves ==
  ASSUME NEW S, NEW q \in Seq(S), IsInjective(q), NEW c \in ToSet(q)
  PROVE  /\ RemoveFirst(q, c) \in Seq(S) /\ IsInjective(RemoveFirst(q, c))
         /\ ToSet(RemoveFirst(q, c)) = ToSet(q) \ {c}
<1>1. DOMAIN q = 1..Len(q) /\ Len(q) \in Nat
  BY LenProperties
<1>2. PICK k \in 1..Len(q) : q[k] = c
  BY <1>1 DEF ToSet
<1>3. {i \in 1..Len(q) : q[i] = c} = {k}
  BY <1>1, <1>2 DEF IsInjective
<1>4. Min({k}) = k
  BY <1>2 DEF Min
<1>5. RemoveFirst(q, c) = SubSeq(q, 1, k - 1) \o SubSeq(q, k + 1, Len(q))
  <2>1. SelectInSeq(q, LAMBDA v : v = c) = k
    BY <1>3, <1>4 DEF SelectInSeq
  <2>2. QED
    BY <1>2, <2>1 DEF RemoveFirst, RemoveAt
<1> DEFINE f == SubSeq(q, 1, k - 1)
           g == SubSeq(q, k + 1, Len(q))
           t == f \o g
<1>6. f \in Seq(S) /\ Len(f) = k - 1 /\ \A i \in 1..(k - 1) : f[i] = q[i]
  <2>1. \A i \in 1..(k - 1) : q[i] \in S
    BY <1>1, ElementOfSeq
  <2>2. QED
    BY <1>1, <2>1, SubSeqProperties
<1>7. /\ g \in Seq(S) /\ Len(g) = Len(q) - k
      /\ \A i \in 1..(Len(q) - k) : g[i] = q[k + i]
  <2>1. \A i \in (k + 1)..Len(q) : q[i] \in S
    BY <1>1, ElementOfSeq
  <2>2. /\ g \in Seq(S)
        /\ Len(g) = IF k + 1 <= Len(q) THEN Len(q) - (k + 1) + 1 ELSE 0
        /\ \A i \in 1..(Len(q) - (k + 1) + 1) : g[i] = q[(k + 1) + i - 1]
    <3>1. k + 1 \in Int /\ Len(q) \in Int
      BY <1>1
    <3>2. QED
      BY <2>1, <3>1, SubSeqProperties
  <2> HIDE DEF g
  <2> DEFINE n == Len(q)
  <2>3. n \in Nat /\ k \in 1..n
    BY <1>1
  <2> HIDE DEF n
  <2>4. n - (k + 1) + 1 = n - k /\ (k + 1 > n => n - k = 0)
    BY <2>3
  <2>5. ASSUME NEW i \in 1..(n - k) PROVE g[i] = q[k + i]
    <3>1. (k + 1) + i - 1 = k + i /\ i \in 1..(n - (k + 1) + 1)
      BY <2>3
    <3>2. QED
      BY <2>2, <3>1 DEF n
  <2>6. Len(g) = n - k
    <3>1. Len(g) = IF k + 1 <= n THEN n - (k + 1) + 1 ELSE 0
      BY <2>2 DEF n
    <3>2. QED
      BY <2>3, <2>4, <3>1
  <2>7. QED
    BY <2>2, <2>5, <2>6 DEF n
<1> HIDE DEF f, g
<1>8. /\ t \in Seq(S) /\ Len(t) = Len(q) - 1
      /\ \A i \in 1..(Len(q) - 1) : t[i] = IF i < k THEN q[i] ELSE q[i + 1]
  <2>1. /\ t \in Seq(S) /\ Len(t) = Len(f) + Len(g)
        /\ \A i \in 1..(Len(f) + Len(g)) : t[i] = IF i <= Len(f) THEN f[i] ELSE g[i - Len(f)]
    BY <1>6, <1>7, ConcatProperties
  <2>2. Len(f) + Len(g) = Len(q) - 1
    BY <1>1, <1>6, <1>7
  <2>3. ASSUME NEW i \in 1..(Len(q) - 1) PROVE t[i] = IF i < k THEN q[i] ELSE q[i + 1]
    <3>1. CASE i < k
      BY <1>1, <1>6, <2>1, <2>2, <3>1
    <3>2. CASE i >= k
      <4>1. i - (k - 1) \in 1..(Len(q) - k) /\ k + (i - (k - 1)) = i + 1
        BY <1>1, <3>2
      <4>2. t[i] = g[i - (k - 1)]
        BY <1>1, <1>6, <2>1, <2>2, <3>2
      <4>3. QED
        BY <1>1, <1>7, <3>2, <4>1, <4>2
    <3>3. i < k \/ i >= k
      BY <1>1
    <3>4. QED
      BY <3>1, <3>2, <3>3
  <2>4. QED
    BY <2>1, <2>2, <2>3
<1> HIDE DEF t
<1>9. DOMAIN t = 1..(Len(q) - 1)
  BY <1>8, LenProperties
<1>10. IsInjective(t)
  BY <1>1, <1>2, <1>8, <1>9 DEF IsInjective
<1>11. ToSet(t) = ToSet(q) \ {c}
  <2>1. ASSUME NEW i \in DOMAIN t PROVE t[i] \in ToSet(q) \ {c}
    BY <1>1, <1>2, <1>8, <1>9 DEF ToSet, IsInjective
  <2>2. ASSUME NEW i \in DOMAIN q, q[i] # c PROVE q[i] \in ToSet(t)
    <3>1. i # k /\ i \in 1..Len(q)
      BY <1>1, <1>2, <2>2
    <3>2. \E j \in DOMAIN t : t[j] = q[i]
      <4>1. CASE i < k
        BY <1>1, <1>8, <1>9, <3>1, <4>1
      <4>2. CASE i > k
        <5>1. i - 1 \in 1..(Len(q) - 1) /\ ~(i - 1 < k) /\ (i - 1) + 1 = i
          BY <1>1, <3>1, <4>2
        <5>2. QED
          BY <1>8, <1>9, <5>1
      <4>3. QED
        BY <1>1, <3>1, <4>1, <4>2
    <3>3. QED
      BY <3>2 DEF ToSet
  <2>3. QED
    BY <2>1, <2>2 DEF ToSet
<1>12. QED
  BY <1>5, <1>8, <1>10, <1>11 DEF t, f, g

-----------------------------------------------------------------------------
(* The steps of the gateway.                                               *)

\* The step is one of the Semaphore, or nothing to it.
SharedStep == [Shared!Next]_<<queue, Calling>>

\* What a step for caller c has to show.
GatewayStep(c) == GatewayOK' /\ OnlyCall(c) /\ SharedStep

\* A call asks for a permit; a call with a permit gives it back and, when it is
\* tried again, asks once more; neither happens.
LEMMA SharedEnter ==
  ASSUME QueueOK, NEW c \in Callers, OnlyCall(c), queue' = Append(queue, c),
         call[c].pc = "idle", call'[c].pc = "queued"
  PROVE  SharedStep
<1>1. Calling' = Calling /\ c \notin Calling /\ c \notin ToSet(queue)
  BY DEF Calling, OnlyCall, QueueOK
<1>2. Shared!Enter(c)
  BY <1>1 DEF Shared!Enter, Shared!ToSet, ToSet
<1>3. QED
  BY <1>2 DEF SharedStep, Shared!Next

LEMMA SharedLeave ==
  ASSUME NEW c \in Callers, OnlyCall(c), queue' = queue \/ queue' = Append(queue, c),
         call[c].pc = "calling", call'[c].pc # "calling"
  PROVE  SharedStep
<1>1. Calling' = Calling \ {c} /\ c \in Calling
  BY DEF Calling, OnlyCall
<1>2. Shared!Leave(c)
  BY <1>1 DEF Shared!Leave
<1>3. QED
  BY <1>2 DEF SharedStep, Shared!Next

LEMMA SharedStays ==
  ASSUME NEW c \in Callers, OnlyCall(c), queue' = queue,
         call[c].pc # "calling", call'[c].pc # "calling"
  PROVE  SharedStep
<1>1. Calling' = Calling
  BY DEF Calling, OnlyCall
<1>2. QED
  BY <1>1 DEF SharedStep

\* The head of the queue takes a free permit, or finds no client and is gone.
LEMMA SharedAdmit ==
  ASSUME PermitsOK, NEW c \in Callers, OnlyCall(c), permits > 0, queue # <<>>,
         Head(queue) = c, queue' = Tail(queue), call[c].pc = "queued"
  PROVE  SharedStep
<1>1. Calling' \in {Calling, Calling \cup {Head(queue)}}
  BY DEF Calling, OnlyCall
<1>2. Cardinality(Calling) < Limit
  BY FS_CardinalityType, GatewayAssumption DEF PermitsOK
<1>3. Shared!Admit
  BY <1>1, <1>2 DEF Shared!Admit, Shared!Cardinality, Cardinality
<1>4. QED
  BY <1>3 DEF SharedStep, Shared!Next

\* A waiting call is cancelled.
LEMMA SharedWithdraw ==
  ASSUME QueueOK, NEW c \in Callers, OnlyCall(c), queue' = Dequeued(c),
         call[c].pc = "queued", call'[c].pc = "idle"
  PROVE  SharedStep
<1>1. Calling' = Calling /\ c \in ToSet(queue)
  BY DEF Calling, OnlyCall, QueueOK
<1>2. queue' = Shared!RemoveFirst(queue, c)
  BY DEF Dequeued, RemoveFirst, SelectInSeq, RemoveAt, Min,
         Shared!RemoveFirst, Shared!SelectInSeq, Shared!RemoveAt, Shared!Min
<1>3. Shared!Withdraw(c)
  BY <1>1, <1>2 DEF Shared!Withdraw, Shared!ToSet, ToSet
<1>4. QED
  BY <1>3 DEF SharedStep, Shared!Next

LEMMA QueuesShape ==
  ASSUME CallsOK, NEW c \in Callers, NEW x, DOMAIN x = DOMAIN NoCall, Queues(c, x)
  PROVE  OnlyCall(c) /\ call'[c].pc = "queued" /\ queue' = Append(queue, c)
BY DEF CallsOK, Queues, OnlyCall, NoCall

LEMMA FinishesShape ==
  ASSUME CallsOK, NEW c \in Callers, call' = [call EXCEPT ![c] = NoCall]
  PROVE  OnlyCall(c) /\ call'[c].pc = "idle"
BY DEF CallsOK, OnlyCall, NoCall

\* The caller is asked for its place in the queue, or is done with.
LEMMA FromIdle ==
  ASSUME GatewayOK, NEW c \in Callers, BreakerOK(Breaker)', call[c].pc = "idle",
         permits' = permits,
         \/ Finishes(c)
         \/ \E x : DOMAIN x = DOMAIN NoCall /\ Queues(c, x)
  PROVE  GatewayStep(c)
<1>1. CASE Finishes(c)
  <2>1. OnlyCall(c) /\ call'[c].pc = "idle" /\ queue' = queue
    BY <1>1, FinishesShape DEF Finishes, GatewayOK
  <2>2. QED
    BY <2>1, OnlyCallOK, PermitsStay, QueueStays, SharedStays DEF GatewayStep, GatewayOK
<1>2. ASSUME NEW x, DOMAIN x = DOMAIN NoCall, Queues(c, x) PROVE GatewayStep(c)
  <2>1. OnlyCall(c) /\ call'[c].pc = "queued" /\ queue' = Append(queue, c)
    BY <1>2, QueuesShape DEF GatewayOK
  <2>2. QED
    BY <2>1, OnlyCallOK, PermitsStay, Enqueued, SharedEnter DEF GatewayStep, GatewayOK
<1>3. QED
  BY <1>1, <1>2

LEMMA FromCalling ==
  ASSUME GatewayOK, NEW c \in Callers, BreakerOK(Breaker)', call[c].pc = "calling", Release(c),
         \/ Finishes(c)
         \/ \E x : DOMAIN x = DOMAIN NoCall /\ Queues(c, x)
  PROVE  GatewayStep(c)
<1>1. permits' = permits + 1
  BY DEF Release
<1>2. CASE Finishes(c)
  <2>1. OnlyCall(c) /\ call'[c].pc = "idle" /\ queue' = queue
    BY <1>2, FinishesShape DEF Finishes, GatewayOK
  <2>2. QED
    BY <1>1, <2>1, OnlyCallOK, PermitGiven, QueueStays, SharedLeave DEF GatewayStep, GatewayOK
<1>3. ASSUME NEW x, DOMAIN x = DOMAIN NoCall, Queues(c, x) PROVE GatewayStep(c)
  <2>1. OnlyCall(c) /\ call'[c].pc = "queued" /\ queue' = Append(queue, c)
    BY <1>3, QueuesShape DEF GatewayOK
  <2>2. QED
    BY <1>1, <2>1, OnlyCallOK, PermitGiven, Enqueued, SharedLeave DEF GatewayStep, GatewayOK
<1>4. QED
  BY <1>2, <1>3

LEMMA AskKeeps ==
  ASSUME GatewayOK, NEW c \in Callers, NEW m, NEW stage, Ask(c, m, stage)
  PROVE  GatewayStep(c)
<1>1. BreakerOK(Breaker)'
  <2>1. BreakerOK(ResolvedIn(m))
    BY LookKeeps DEF ResolvedIn, GatewayOK
  <2>2. QED
    BY <2>1, BreakerSet DEF Ask
<1>2. Finishes(c) \/ \E x : DOMAIN x = DOMAIN NoCall /\ Queues(c, x)
  <2> DEFINE t == Resolved(m)[1]
             x == [On(NoCall, t, stage) EXCEPT !.target = t]
             y == On(NoCall, "client", IF stage = "stream" THEN stage ELSE "default")
  <2>1. Finishes(c) \/ Queues(c, x) \/ Queues(c, y)
    BY DEF Ask
  <2>2. DOMAIN x = DOMAIN NoCall /\ DOMAIN y = DOMAIN NoCall
    BY DEF On, NoCall
  <2> HIDE DEF x, y
  <2>3. QED
    BY <2>1, <2>2
<1>3. QED
  BY <1>1, <1>2, FromIdle DEF Ask

LEMMA AnswersKeeps ==
  ASSUME GatewayOK, NEW c \in Callers, Answers(c)
  PROVE  GatewayStep(c)
<1>1. BreakerOK(Breaker)'
  BY BreakerSet, SuccessKeeps DEF Answers, GatewayOK
<1>2. QED
  BY <1>1, FromCalling DEF Answers

LEMMA GoesOnShape ==
  ASSUME NEW c \in Callers, NEW x, DOMAIN x = DOMAIN NoCall, GoesOn(c, x)
  PROVE  Finishes(c) \/ \E y : DOMAIN y = DOMAIN NoCall /\ Queues(c, y)
<1> DEFINE y == [On(x, Head(x.rest), "fallback") EXCEPT !.rest = Tail(@)]
           z == OnClient(x)
<1>1. Finishes(c) \/ Queues(c, y) \/ Queues(c, z)
  BY DEF GoesOn
<1>2. DOMAIN y = DOMAIN NoCall /\ DOMAIN z = DOMAIN NoCall
  BY DEF OnClient, On, NoCall
<1> HIDE DEF y, z
<1>3. QED
  BY <1>1, <1>2

LEMMA FailsKeeps ==
  ASSUME GatewayOK, NEW c \in Callers, Fails(c)
  PROVE  GatewayStep(c)
<1> DEFINE x == call[c]
           b == IF x.stage \in {"first", "fallback"} THEN record_failure(Breaker, x.on) ELSE Breaker
           seen == Looked(b, registered)
           r == [x EXCEPT !.stage = "retry"]
           n == [x EXCEPT !.rest = Others(get_fallback_chain(seen), x.target)]
<1>1. BreakerOK(b)
  BY FailureKeeps DEF GatewayOK
<1>2. BreakerOK(seen)
  BY <1>1, LookKeeps
<1>3. /\ x.pc = "calling" /\ Release(c)
      /\ SetBreaker(b) \/ SetBreaker(seen)
      /\ Finishes(c) \/ Queues(c, r) \/ GoesOn(c, n) \/ GoesOn(c, x)
  BY DEF Fails
<1>4. DOMAIN x = DOMAIN NoCall
  BY DEF GatewayOK, CallsOK
<1>5. DOMAIN r = DOMAIN NoCall /\ DOMAIN n = DOMAIN NoCall
  BY <1>4
<1> HIDE DEF b, seen, r, n
<1>6. BreakerOK(Breaker)'
  BY <1>1, <1>2, <1>3, BreakerSet
<1>7. Finishes(c) \/ \E y : DOMAIN y = DOMAIN NoCall /\ Queues(c, y)
  <2>1. CASE Finishes(c)
    BY <2>1
  <2>2. CASE Queues(c, r)
    BY <1>5, <2>2
  <2>3. CASE GoesOn(c, n)
    BY <1>5, <2>3, GoesOnShape
  <2>4. CASE GoesOn(c, x)
    BY <1>4, <2>4, GoesOnShape
  <2>5. QED
    BY <1>3, <2>1, <2>2, <2>3, <2>4
<1>8. QED
  BY <1>3, <1>6, <1>7, FromCalling

LEMMA AcquireKeeps ==
  ASSUME GatewayOK, NEW c \in Callers, Acquire(c)
  PROVE  GatewayStep(c) /\ call[c].pc = "queued"
<1>1. /\ queue' \in Seq(Callers) /\ IsInjective(queue') /\ ToSet(queue') = ToSet(queue) \ {c}
  BY TailLeaves DEF Acquire, GatewayOK, QueueOK
<1>2. call[c].pc = "queued"
  <2>1. queue[1] = c /\ 1 \in DOMAIN queue
    BY LenProperties, EmptySeq, HeadTailProperties DEF Acquire, GatewayOK, QueueOK
  <2>2. QED
    BY <2>1 DEF GatewayOK, QueueOK, ToSet
<1>3. BreakerOK(Breaker)'
  BY DEF Acquire, GatewayOK, Breaker, BreakerOK
<1>4. CASE call' = [call EXCEPT ![c] = NoCall] /\ permits' = permits
  <2>1. OnlyCall(c) /\ call'[c].pc = "idle"
    BY <1>4, FinishesShape DEF GatewayOK
  <2>2. SharedStep
    BY <1>2, <2>1, SharedAdmit DEF Acquire, GatewayOK
  <2>3. QED
    BY <1>1, <1>2, <1>3, <1>4, <2>1, <2>2, OnlyCallOK, PermitsStay, Leaves DEF GatewayStep, GatewayOK
<1>5. CASE call' = [call EXCEPT ![c].pc = "calling"] /\ permits' = permits - 1
  <2>1. OnlyCall(c) /\ call'[c].pc = "calling"
    BY <1>5 DEF GatewayOK, CallsOK, OnlyCall, NoCall
  <2>2. permits > 0
    BY DEF Acquire
  <2>3. SharedStep
    BY <1>2, <2>1, SharedAdmit DEF Acquire, GatewayOK
  <2>4. QED
    BY <1>1, <1>2, <1>3, <1>5, <2>1, <2>2, <2>3, OnlyCallOK, PermitTaken, Leaves
    DEF GatewayStep, GatewayOK
<1>6. QED
  BY <1>2, <1>4, <1>5 DEF Acquire

LEMMA CancelledKeeps ==
  ASSUME GatewayOK, NEW c \in Callers, Cancelled(c)
  PROVE  GatewayStep(c) /\ call'[c].pc = "idle"
<1>1. OnlyCall(c) /\ call'[c].pc = "idle"
  BY FinishesShape DEF Cancelled, GatewayOK
<1>2. BreakerOK(Breaker)'
  BY DEF Cancelled, GatewayOK, Breaker, BreakerOK
<1>3. CASE call[c].pc = "queued" /\ permits' = permits /\ queue' = Dequeued(c)
  <2>1. c \in ToSet(queue)
    BY <1>3 DEF GatewayOK, QueueOK
  <2>2. /\ queue' \in Seq(Callers) /\ IsInjective(queue') /\ ToSet(queue') = ToSet(queue) \ {c}
    BY <1>3, <2>1, RemoveLeaves DEF Dequeued, GatewayOK, QueueOK
  <2>3. SharedStep
    BY <1>1, <1>3, SharedWithdraw DEF GatewayOK
  <2>4. QED
    BY <1>1, <1>2, <1>3, <2>2, <2>3, OnlyCallOK, PermitsStay, Leaves DEF GatewayStep, GatewayOK
<1>4. CASE call[c].pc = "calling" /\ Release(c) /\ queue' = queue
  BY <1>1, <1>2, <1>4, OnlyCallOK, PermitGiven, QueueStays, SharedLeave
  DEF Release, GatewayStep, GatewayOK
<1>5. QED
  BY <1>1, <1>3, <1>4 DEF Cancelled

\* Nothing happens to the calls.
LEMMA ModelsKeep ==
  ASSUME GatewayOK, Models
  PROVE  GatewayOK' /\ call' = call /\ SharedStep
<1>1. call' = call /\ queue' = queue /\ permits' = permits
  BY DEF Models, attach_mlx_client, detach_mlx_client, ResetTime
<1>2. CallsOK' /\ PermitsOK' /\ QueueOK'
  BY <1>1 DEF GatewayOK, CallsOK, PermitsOK, QueueOK, Calling
<1>3. BreakerOK(Breaker)'
  <2>1. CASE UNCHANGED <<failures, trip>>
    BY <2>1 DEF GatewayOK, BreakerOK, Breaker
  <2>2. ASSUME NEW m \in ModelSet, ResetTime(m) PROVE BreakerOK(Breaker)'
    BY <2>2 DEF ResetTime, GatewayOK, BreakerOK, Breaker
  <2>3. QED
    BY <2>1, <2>2 DEF Models, attach_mlx_client, detach_mlx_client
<1>4. SharedStep
  BY <1>1 DEF SharedStep, Calling
<1>5. QED
  BY <1>1, <1>2, <1>3, <1>4 DEF GatewayOK

-----------------------------------------------------------------------------
(* The steps of the sessions.                                              *)

\* A step that changes session s at most, and the call of s at most.
OnlySession(s) ==
  /\ Domains'
  /\ \A q \in Sessions \ {s} :
       /\ status'[q] = status[q] /\ task'[q] = task[q] /\ pending'[q] = pending[q]
       /\ injected'[q] = injected[q] /\ taken'[q] = taken[q] /\ ran'[q] = ran[q]
       /\ call'[q].pc = call[q].pc

LEMMA OnlySessionOK ==
  ASSUME SessionsOK, NEW s \in Sessions, OnlySession(s), SessionOK(s)'
  PROVE  SessionsOK'
<1>1. ASSUME NEW q \in Sessions, q # s PROVE SessionOK(q)'
  BY <1>1 DEF SessionsOK, OnlySession, SessionOK, InCall
<1>2. QED
  BY <1>1 DEF SessionsOK, OnlySession

\* The call of another run changes: no session does.
LEMMA ClientStep ==
  ASSUME SessionsOK, NEW c \in Callers, OnlyCall(c), UNCHANGED session,
         c \in Sessions => (InCall(c)' => InCall(c))
  PROVE  SessionsOK'
<1>1. ASSUME NEW s \in Sessions PROVE InCall(s)' => InCall(s)
  BY SessionAssumption DEF OnlyCall, InCall
<1>2. ASSUME NEW s \in Sessions PROVE SessionOK(s)'
  BY <1>1 DEF SessionsOK, SessionOK, session
<1>3. QED
  BY <1>2 DEF SessionsOK, Domains, session

LEMMA ForkOK ==
  ASSUME SessionsOK, NEW s \in Sessions, fork(s)
  PROVE  SessionsOK'
<1>1. SessionOK(s) /\ Domains
  BY DEF SessionsOK
<1>2. OnlySession(s)
  BY <1>1 DEF fork, OnlySession, Domains, gateway
<1>3. /\ status'[s] = "running" /\ task'[s] = "ready" /\ pending'[s] = 1 /\ taken'[s] = 1
      /\ injected' = injected /\ ran' = ran /\ call' = call /\ status[s] = "none"
  BY <1>1 DEF fork, Domains, gateway
<1>4. SessionOK(s)'
  BY <1>1, <1>3 DEF SessionOK, InCall, Ended
<1>5. QED
  BY <1>2, <1>4, OnlySessionOK

LEMMA InjectOK ==
  ASSUME SessionsOK, NEW s \in Sessions, inject_input(s)
  PROVE  SessionsOK'
<1>1. SessionOK(s) /\ Domains
  BY DEF SessionsOK
<1>2. OnlySession(s)
  BY <1>1 DEF inject_input, OnlySession, Domains, gateway
<1>3. /\ injected'[s] = injected[s] + 1 /\ taken'[s] = taken[s] + 1
      /\ UNCHANGED <<status, task, pending, ran, call>> /\ Open(s)
  BY <1>1 DEF inject_input, Domains, gateway
<1>4. /\ {pending[s], injected[s], taken[s], ran[s]}' \subseteq Nat
      /\ (ran[s] + pending[s] + injected[s])' = taken'[s]
  BY <1>1, <1>3 DEF SessionOK
<1>5. status[s] # "none" /\ status[s] # "completed"
  BY <1>3 DEF Open, Ended
<1>6. SessionOK(s)'
  BY <1>1, <1>3, <1>4, <1>5 DEF SessionOK, InCall, Ended
<1>7. QED
  BY <1>2, <1>6, OnlySessionOK

LEMMA TurnOK ==
  ASSUME IInv, NEW s \in Sessions, Turn(s)
  PROVE  IInv'
<1>1. SessionOK(s) /\ Domains /\ GatewayOK /\ s \in Callers
  BY SessionAssumption DEF IInv, SessionsOK
<1>2. GatewayStep(s)
  BY <1>1, AskKeeps DEF Turn, chat
<1>3. OnlySession(s)
  BY <1>1, <1>2, SessionAssumption DEF Turn, OnlySession, Domains, GatewayStep, OnlyCall
<1>4. /\ task[s] = "ready" /\ task'[s] = "turn" /\ pending'[s] = pending[s] - 1
      /\ ran'[s] = ran[s] + 1 /\ UNCHANGED <<status, injected, taken>>
  BY <1>1 DEF Turn, Domains
<1>5. SessionOK(s)'
  BY <1>1, <1>4 DEF SessionOK, Ended
<1>6. QED
  BY <1>2, <1>3, <1>5, OnlySessionOK DEF IInv, GatewayStep

LEMMA TurnEndsOK ==
  ASSUME SessionsOK, NEW s \in Sessions, TurnEnds(s)
  PROVE  SessionsOK'
<1>1. SessionOK(s) /\ Domains
  BY DEF SessionsOK
<1>2. OnlySession(s)
  BY <1>1 DEF TurnEnds, OnlySession, Domains, gateway
<1>3. /\ pending'[s] = pending[s] + injected[s] /\ injected'[s] = 0
      /\ UNCHANGED <<taken, ran, call>> /\ task[s] = "turn" /\ ~InCall(s)
  BY <1>1 DEF TurnEnds, Left, Domains, gateway
<1>4. \/ pending'[s] > 0 /\ task'[s] = "ready" /\ status' = status
      \/ ~(pending'[s] > 0) /\ task'[s] = "done" /\ status'[s] = "completed"
  BY <1>1, <1>3 DEF TurnEnds, Left, Domains
<1>5. SessionOK(s)'
  BY <1>1, <1>3, <1>4 DEF SessionOK, InCall, Ended
<1>6. QED
  BY <1>2, <1>5, OnlySessionOK

LEMMA TurnRaisesOK ==
  ASSUME SessionsOK, NEW s \in Sessions, TurnRaises(s)
  PROVE  SessionsOK'
<1>1. SessionOK(s) /\ Domains
  BY DEF SessionsOK
<1>2. OnlySession(s)
  BY <1>1 DEF TurnRaises, OnlySession, Domains, gateway
<1>3. /\ status'[s] = "failed" /\ task'[s] = "done" /\ ~InCall(s)
      /\ UNCHANGED <<pending, injected, taken, ran, call>>
  BY <1>1 DEF TurnRaises, Domains, gateway
<1>4. SessionOK(s)'
  BY <1>1, <1>3 DEF SessionOK, InCall, Ended
<1>5. QED
  BY <1>2, <1>4, OnlySessionOK

LEMMA KillOK ==
  ASSUME SessionsOK, NEW s \in Sessions, background_kill(s)
  PROVE  SessionsOK'
<1>1. SessionOK(s) /\ Domains
  BY DEF SessionsOK
<1>2. OnlySession(s)
  BY <1>1 DEF background_kill, OnlySession, Domains, gateway
<1>3. /\ UNCHANGED <<pending, injected, taken, ran, call>> /\ status[s] # "none"
      /\ \/ task[s] = "done" /\ status'[s] = "killed" /\ task' = task
         \/ task[s] # "done" /\ task'[s] = "stopping" /\ status' = status
  BY <1>1 DEF background_kill, Domains, gateway
<1>4. SessionOK(s)'
  BY <1>1, <1>3 DEF SessionOK, InCall, Ended
<1>5. QED
  BY <1>2, <1>4, OnlySessionOK

LEMMA StopsOK ==
  ASSUME IInv, NEW s \in Sessions, Stops(s)
  PROVE  IInv'
<1>1. SessionOK(s) /\ Domains /\ GatewayOK /\ s \in Callers /\ SessionsOK
  BY SessionAssumption DEF IInv, SessionsOK
<1>2. GatewayOK' /\ (call' = call \/ OnlyCall(s)) /\ ~InCall(s)'
  <2>1. CASE InCall(s)
    BY <1>1, <2>1, CancelledKeeps DEF Stops, GatewayStep, InCall
  <2>2. CASE ~InCall(s)
    BY <1>1, <2>2 DEF Stops, gateway, GatewayOK, BreakerOK, Breaker, CallsOK, PermitsOK,
                      QueueOK, Calling, InCall
  <2>3. QED
    BY <2>1, <2>2
<1>3. OnlySession(s)
  BY <1>1, <1>2, SessionAssumption DEF Stops, OnlySession, Domains, OnlyCall
<1>4. /\ status'[s] = "killed" /\ task'[s] = "done" /\ UNCHANGED <<pending, injected, taken, ran>>
  BY <1>1 DEF Stops, Domains
<1>5. SessionOK(s)'
  BY <1>1, <1>2, <1>4 DEF SessionOK, Ended
<1>6. QED
  BY <1>1, <1>2, <1>3, <1>5, OnlySessionOK DEF IInv

-----------------------------------------------------------------------------
(* The invariant.                                                          *)

LEMMA Initially == Init => IInv
<1> SUFFICES ASSUME Init PROVE IInv
  OBVIOUS
<1>1. /\ failures = [m \in ModelSet |-> 0] /\ trip = [m \in ModelSet |-> "closed"]
      /\ call = [c \in Callers |-> NoCall] /\ permits = Limit /\ queue = <<>>
  BY DEF Init, GatewayInit
<1>2. BreakerOK(Breaker) /\ CallsOK
  BY <1>1, GatewayAssumption DEF BreakerOK, Breaker, CallsOK
<1>3. \A c \in Callers : call[c].pc = "idle"
  BY <1>1 DEF NoCall
<1>4. PermitsOK
  <2>1. Calling = {}
    BY <1>3 DEF Calling
  <2>2. QED
    BY <1>1, <2>1, FS_EmptySet, GatewayAssumption DEF PermitsOK
<1>5. QueueOK
  BY <1>1, <1>3, EmptySeq DEF QueueOK, IsInjective, ToSet
<1>6. SessionsOK
  <2>1. ASSUME NEW s \in Sessions PROVE SessionOK(s)
    <3>1. ~InCall(s)
      BY <1>3, SessionAssumption DEF InCall
    <3>2. QED
      BY <3>1 DEF Init, SessionOK, Ended
  <2>2. QED
    BY <2>1 DEF Init, SessionsOK, Domains
<1>7. QED
  BY <1>2, <1>4, <1>5, <1>6 DEF IInv, GatewayOK

\* The gateway stays as it is.
LEMMA GatewayStays ==
  ASSUME GatewayOK, UNCHANGED gateway
  PROVE  GatewayOK'
BY DEF gateway, GatewayOK, BreakerOK, Breaker, CallsOK, PermitsOK, QueueOK, Calling

LEMMA NextKeeps ==
  ASSUME IInv, [Next]_vars
  PROVE  IInv'
<1> USE DEF IInv
<1>1. CASE Models
  <2>1. GatewayOK' /\ call' = call /\ UNCHANGED session
    BY <1>1, ModelsKeep DEF Models
  <2>2. QED
    BY <2>1 DEF session, SessionsOK, Domains, SessionOK, InCall
<1>2. ASSUME NEW c \in Callers, Granted(c) \/ ModelReturns(c) PROVE IInv'
  <2>1. CASE Granted(c)
    <3>1. GatewayStep(c) /\ InCall(c) /\ UNCHANGED session
      BY <2>1, AcquireKeeps DEF Granted, InCall
    <3>2. QED
      BY <3>1, ClientStep DEF GatewayStep
  <2>2. CASE ModelReturns(c)
    <3>1. GatewayStep(c) /\ InCall(c) /\ UNCHANGED session
      BY <2>2, AnswersKeeps, FailsKeeps DEF ModelReturns, InCall, Answers, Fails
    <3>2. QED
      BY <3>1, ClientStep DEF GatewayStep
  <2>3. QED
    BY <1>2, <2>1, <2>2
<1>3. ASSUME NEW c \in Clients, Calls(c) \/ StopsWaiting(c) PROVE IInv'
  <2>1. c \in Callers /\ c \notin Sessions
    BY SessionAssumption
  <2>2. GatewayStep(c) /\ UNCHANGED session
    BY <1>3, <2>1, AskKeeps, CancelledKeeps DEF Calls, StopsWaiting, chat, chat_stream
  <2>3. QED
    BY <2>1, <2>2, ClientStep DEF GatewayStep
<1>4. ASSUME NEW s \in Sessions, CallTimeout(s) PROVE IInv'
  <2>1. s \in Callers
    BY SessionAssumption
  <2>2. GatewayStep(s) /\ UNCHANGED session /\ ~InCall(s)'
    BY <1>4, <2>1, CancelledKeeps DEF CallTimeout, InCall
  <2>3. QED
    BY <2>1, <2>2, ClientStep DEF GatewayStep
<1>5. ASSUME NEW s \in Sessions,
             fork(s) \/ inject_input(s) \/ background_kill(s) \/ TurnEnds(s) \/ TurnRaises(s)
      PROVE  IInv'
  <2>1. UNCHANGED gateway
    BY <1>5 DEF fork, inject_input, background_kill, TurnEnds, TurnRaises
  <2>2. SessionsOK'
    BY <1>5, ForkOK, InjectOK, KillOK, TurnEndsOK, TurnRaisesOK
  <2>3. QED
    BY <2>1, <2>2, GatewayStays
<1>6. ASSUME NEW s \in Sessions, Turn(s) \/ Stops(s) PROVE IInv'
  BY <1>6, TurnOK, StopsOK
<1>7. CASE UNCHANGED vars
  <2>1. UNCHANGED gateway /\ UNCHANGED session
    BY <1>7 DEF vars
  <2>2. QED
    BY <2>1, GatewayStays DEF gateway, session, SessionsOK, Domains, SessionOK, InCall
<1>8. QED
  BY <1>1, <1>2, <1>3, <1>4, <1>5, <1>6, <1>7 DEF Next

\* The invariant of the sessions and the gateway (session_manager.py:162,
\* _run_background; llm_gateway.py:779, _call_model_async).
THEOREM Inductive == Spec => []IInv
<1>1. IInv /\ [Next]_vars => IInv'
  BY NextKeeps
<1>2. QED
  BY <1>1, Initially, PTL DEF Spec

\* No permit of the semaphore is lost or given twice, and the queue holds the
\* waiting calls, each once (llm_gateway.py:779, _call_model_async).
THEOREM NoPermitLost == Spec => []PermitsKept
<1>1. IInv => PermitsKept
  BY DEF IInv, GatewayOK, PermitsOK, QueueOK, Calling, PermitsKept
<1>2. QED
  BY <1>1, Inductive, PTL

\* A breaker is tripped exactly at the threshold (llm_gateway.py:105,
\* _ModelCircuitBreaker).
THEOREM BreakersAgree == Spec => []TripsMatch
<1>1. IInv => TripsMatch
  BY DEF IInv, GatewayOK, BreakerOK, Breaker, TripsMatch
<1>2. QED
  BY <1>1, Inductive, PTL

\* A complete session has run every input it accepted
\* (session_manager.py:231, the end of a turn).
THEOREM NoInputLost == Spec => []InputsAreRun
<1>1. IInv => InputsAreRun
  <2>1. ASSUME IInv, NEW s \in Sessions, status[s] = "completed" PROVE ran[s] = taken[s]
    <3>1. /\ ran[s] \in Nat /\ ran[s] + pending[s] + injected[s] = taken[s]
          /\ pending[s] = 0 /\ injected[s] = 0
      BY <2>1 DEF IInv, SessionsOK, SessionOK
    <3>2. QED
      BY <3>1
  <2>2. QED
    BY <2>1 DEF InputsAreRun
<1>2. QED
  BY <1>1, Inductive, PTL

\* An ended session has no turn to come and no call under way, so nothing of
\* it can act once a kill returned (session_manager.py:323, background_kill).
THEOREM EndedSessionsIdle == Spec => []EndedIsIdle
<1>1. IInv => EndedIsIdle
  BY DEF IInv, SessionsOK, SessionOK, EndedIsIdle
<1>2. QED
  BY <1>1, Inductive, PTL

-----------------------------------------------------------------------------
(* The gateway implements a Semaphore.                                     *)

\* Every step is one of the Semaphore or nothing to it.
LEMMA NextShares ==
  ASSUME IInv, [Next]_vars
  PROVE  SharedStep
<1> USE DEF IInv
<1>1. CASE Models
  BY <1>1, ModelsKeep
<1>2. ASSUME NEW c \in Callers, Granted(c) \/ ModelReturns(c) PROVE SharedStep
  BY <1>2, AcquireKeeps, AnswersKeeps, FailsKeeps DEF Granted, ModelReturns, GatewayStep
<1>3. ASSUME NEW c \in Clients, Calls(c) \/ StopsWaiting(c) PROVE SharedStep
  <2>1. c \in Callers
    BY SessionAssumption
  <2>2. QED
    BY <1>3, <2>1, AskKeeps, CancelledKeeps DEF Calls, StopsWaiting, chat, chat_stream, GatewayStep
<1>4. ASSUME NEW s \in Sessions, CallTimeout(s) \/ Turn(s) \/ Stops(s) PROVE SharedStep
  <2>1. s \in Callers
    BY SessionAssumption
  <2>2. CASE UNCHANGED gateway
    BY <2>2 DEF SharedStep, Calling, gateway
  <2>3. QED
    BY <1>4, <2>1, <2>2, AskKeeps, CancelledKeeps DEF CallTimeout, Turn, Stops, chat, GatewayStep
<1>5. CASE UNCHANGED gateway
  BY <1>5 DEF SharedStep, Calling, gateway
<1>6. QED
  BY <1>1, <1>2, <1>3, <1>4, <1>5
  DEF Next, vars, fork, inject_input, background_kill, TurnEnds, TurnRaises

\* However calls fail, fall back, time out or are killed, the permits go to the
\* waiting calls in the order of their arrival (llm_gateway.py:779, _call_model_async).
THEOREM Refinement == Spec => ImplementsSemaphore
<1>1. Init => Shared!Init
  <2>1. ASSUME Init PROVE queue = <<>> /\ Calling = {}
    BY <2>1 DEF Init, GatewayInit, Calling, NoCall
  <2>2. QED
    BY <2>1 DEF Shared!Init
<1>2. IInv /\ [Next]_vars => [Shared!Next]_<<queue, Calling>>
  BY NextShares DEF SharedStep
<1>3. QED
  BY <1>1, <1>2, Inductive, PTL DEF Spec, ImplementsSemaphore, Shared!Spec
=============================================================================
