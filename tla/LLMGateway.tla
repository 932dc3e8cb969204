----------------------------- MODULE LLMGateway -----------------------------
(***************************************************************************)
(* The proxy of the model calls (LLMGateway in agent_runtime/llm_gateway.  *)
(* py): the choice of a model, the circuit breaker of each model, the      *)
(* retry after compaction, the fallback chain, the default client, and the *)
(* semaphore all calls share.  A caller is a coroutine that calls chat or  *)
(* chat_stream; the callers decide when a wait is cancelled.  Every model  *)
(* has the capability that is asked for.                                   *)
(***************************************************************************)
EXTENDS Naturals, Sequences, FiniteSets, SequencesExt

CONSTANTS
  Callers,      \* coroutines
  Ranked,       \* the models, best first: by priority, then by name
  Named,        \* what callers may ask for: models, "default", names not registered
  NoModel,
  HasCompactor, \* a compactor is attached
  Threshold,    \* CIRCUIT_THRESHOLD
  Limit         \* FUSION_LLM_CONCURRENCY

VARIABLES
  registered,   \* _models
  default,      \* _default_model, or NoModel
  client,       \* a default client is attached
  failures,     \* consecutive failures, counted up to Threshold
  trip,         \* "closed", "open", or "elapsed" when the reset time is over
  permits,      \* the value of the semaphore
  queue,        \* the callers that wait for a permit, first come first served
  call          \* call[c]: the chat under way
gateway == <<registered, default, client, failures, trip, permits, queue, call>>

ModelSet == ToSet(Ranked)
ASSUME GatewayAssumption ==
  /\ NoModel \notin ModelSet \cup {"client"} /\ HasCompactor \in BOOLEAN
  /\ {Threshold, Limit} \subseteq Nat \ {0}

NoCall == [pc |-> "idle", stage |-> "none", on |-> NoModel,
           target |-> NoModel, rest |-> <<>>]

GatewayInit ==
  /\ registered = {} /\ default = NoModel /\ client = FALSE
  /\ permits = Limit /\ queue = <<>>
  /\ failures = [m \in ModelSet |-> 0] /\ trip = [m \in ModelSet |-> "closed"]
  /\ call = [c \in Callers |-> NoCall]

config == <<registered, default, client>>

\* The daemon attaches the client, and registers the model it finds loaded.
attach_mlx_client(m) ==
  /\ client' = TRUE
  /\ IF m = NoModel THEN UNCHANGED <<registered, default>>
     ELSE registered' = registered \cup {m} /\ default' = m
  /\ UNCHANGED <<failures, trip, permits, queue, call>>
detach_mlx_client ==
  /\ client' = FALSE
  /\ UNCHANGED <<registered, default, failures, trip, permits, queue, call>>

\* The reset time of an open breaker is over.
ResetTime(m) ==
  /\ trip[m] = "open"
  /\ trip' = [trip EXCEPT ![m] = "elapsed"]
  /\ UNCHANGED <<config, failures, permits, queue, call>>

-----------------------------------------------------------------------------
(* The breaker: b is the pair of its counters and its trip times.          *)

Breaker == [failures |-> failures, trip |-> trip]
SetBreaker(b) == failures' = b.failures /\ trip' = b.trip

\* A success closes the breaker and starts the count again.
record_success(b, m) == [failures |-> [b.failures EXCEPT ![m] = 0],
                         trip |-> [b.trip EXCEPT ![m] = "closed"]]

\* A failure at the threshold or above trips the breaker, once more too.
record_failure(b, m) ==
  LET count == IF b.failures[m] < Threshold THEN b.failures[m] + 1 ELSE Threshold
  IN  [failures |-> [b.failures EXCEPT ![m] = count],
       trip |-> [b.trip EXCEPT ![m] = IF count = Threshold THEN "open" ELSE @]]

\* *Mistake*: the reset forgets the count.
LookedTripOnly(b, M) ==
  [b EXCEPT !.trip = [m \in ModelSet |-> IF m \in M /\ @[m] = "elapsed" THEN "closed" ELSE @[m]]]

\* is_open, asked of the models in M, closes the breakers whose time is over.
Looked(b, M) ==
  LET due == {m \in M : b.trip[m] = "elapsed"}
  IN  [failures |-> [m \in ModelSet |-> IF m \in due THEN 0 ELSE b.failures[m]],
       trip |-> [m \in ModelSet |-> IF m \in due THEN "closed" ELSE b.trip[m]]]

\* get_fallback_chain, of which route is the first: the default model comes
\* last, whatever its breaker says.
get_fallback_chain(b) ==
  LET closed == SelectSeq(Ranked, LAMBDA m : m \in registered /\ b.trip[m] # "open")
  IN  closed \o (IF default \in {NoModel} \cup ToSet(closed) THEN <<>> ELSE <<default>>)

-----------------------------------------------------------------------------
(* Calls.                                                                  *)

\* *Mistake*: a cancelled or failed call keeps its permit.
KeepsPermit(c) == permits' = permits

\* The permit of a call under way is released, whatever ends the call.
Release(c) == permits' = permits + 1

\* The call x waits for a permit.
Queues(c, x) ==
  /\ call' = [call EXCEPT ![c] = [x EXCEPT !.pc = "queued"]]
  /\ queue' = Append(queue, c)
\* The chat is over: its answer or error goes to the caller.
Finishes(c) == call' = [call EXCEPT ![c] = NoCall] /\ UNCHANGED queue

\* A call of model m, or of the default client, in the given stage.
On(x, m, stage) == [x EXCEPT !.on = m, !.stage = stage]
OnClient(x) == On(x, "client", "default")

\* _resolve_target: what a request for m is sent to; the client when the
\* model is named and not registered, or registered with an open breaker.
Direct(m) == m \in registered /\ trip[m] # "open"
PassedThrough(m) == ~Direct(m) /\ m # "default" /\ client
ResolvedIn(m) == Looked(Breaker, IF Direct(m) \/ PassedThrough(m) THEN {m} \cap registered
                                 ELSE registered)
Resolved(m) ==
  IF Direct(m) THEN <<m>> ELSE IF PassedThrough(m) THEN <<>> ELSE get_fallback_chain(ResolvedIn(m))

\* chat or chat_stream up to its first wait.
Ask(c, m, stage) ==
  /\ call[c].pc = "idle"
  /\ SetBreaker(ResolvedIn(m))
  /\ LET to == Resolved(m) IN
     \/ to # <<>> /\ Queues(c, [On(NoCall, to[1], stage) EXCEPT !.target = to[1]])
     \/ to = <<>> /\ client
        /\ Queues(c, On(NoCall, "client", IF stage = "stream" THEN stage ELSE "default"))
     \/ to = <<>> /\ ~client
        /\ Finishes(c)
  /\ UNCHANGED <<config, permits>>
chat(c, m) == Ask(c, m, "first")
chat_stream(c, m) == Ask(c, m, "stream")

\* The next of the queue calls; a client detached meanwhile is an error.
Acquire(c) ==
  /\ permits > 0 /\ queue # <<>> /\ Head(queue) = c
  /\ queue' = Tail(queue)
  /\ IF call[c].stage = "default" /\ ~client
     THEN call' = [call EXCEPT ![c] = NoCall] /\ UNCHANGED permits
     ELSE call' = [call EXCEPT ![c].pc = "calling"] /\ permits' = permits - 1
  /\ UNCHANGED <<config, failures, trip>>

\* The model answers; a stream and the default client record nothing.
Answers(c) ==
  /\ call[c].pc = "calling"
  /\ Release(c) /\ Finishes(c)
  /\ SetBreaker(IF call[c].stage \in {"first", "retry", "fallback"}
                THEN record_success(Breaker, call[c].on) ELSE Breaker)
  /\ UNCHANGED config

\* The chain after the failure of m.
Others(s, m) == SelectSeq(s, LAMBDA n : n # m)

\* What follows the failure of the call x of caller c: the next of the chain,
\* the default client, or the error.
GoesOn(c, x) ==
  IF x.rest # <<>> THEN Queues(c, [On(x, Head(x.rest), "fallback") EXCEPT !.rest = Tail(@)])
  ELSE IF client THEN Queues(c, OnClient(x))
  ELSE Finishes(c)

\* The call fails: the failure is recorded, but not the one of the retry,
\* then the chain is computed once.
Fails(c) ==
  LET x == call[c]
      b == IF x.stage \in {"first", "fallback"} THEN record_failure(Breaker, x.on) ELSE Breaker
      seen == Looked(b, registered)
  IN
  /\ x.pc = "calling"
  /\ Release(c)
  /\ \/ x.stage \in {"default", "stream"} /\ SetBreaker(b) /\ Finishes(c)
     \/ x.stage = "first" /\ HasCompactor /\ SetBreaker(b)
        /\ Queues(c, [x EXCEPT !.stage = "retry"])
     \/ x.stage \in {"first", "retry"} /\ SetBreaker(seen)
        /\ GoesOn(c, [x EXCEPT !.rest = Others(get_fallback_chain(seen), x.target)])
     \/ x.stage = "fallback" /\ SetBreaker(b) /\ GoesOn(c, x)
  /\ UNCHANGED config

\* *Mistake*: a cancelled waiter stays in the queue.
StaysQueued(c) == queue

\* A waiter that is cancelled leaves the queue.
Dequeued(c) == RemoveFirst(queue, c)

\* The caller is cancelled or its wait times out: nothing is recorded.
Cancelled(c) ==
  /\ \/ call[c].pc = "queued" /\ UNCHANGED permits
        /\ queue' = Dequeued(c)
     \/ call[c].pc = "calling" /\ Release(c) /\ UNCHANGED queue
  /\ call' = [call EXCEPT ![c] = NoCall]
  /\ UNCHANGED <<config, failures, trip>>
=============================================================================
