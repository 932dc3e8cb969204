--------------------------- MODULE SessionManager ---------------------------
(***************************************************************************)
(* Background sessions (SessionManager in agent_runtime/session_manager.py)*)
(* on the gateway of the model calls: a session runs one graph per input,  *)
(* start -> llm -> end, whose llm node calls chat with a time limit; other *)
(* runs chat or stream.  The events a session buffers for those who attach *)
(* and the messages it inherits are left out.                              *)
(***************************************************************************)
EXTENDS LLMGateway

CONSTANTS
  Sessions,    \* ids of background sessions
  Clients,     \* other runs that call models
  MaxInputs    \* bound: inputs per session
ASSUME SessionAssumption == Callers = Sessions \cup Clients /\ Sessions \cap Clients = {}

VARIABLES
  status,    \* status[s], "none" before fork
  task,      \* the task of s: "none", "ready", "turn", "stopping", "done"
  pending,   \* the inputs _run_background holds
  injected,  \* the inputs nobody has taken yet
  taken,     \* history: inputs that were accepted
  ran        \* history: inputs whose graph was run
session == <<status, task, pending, injected, taken, ran>>
vars == <<gateway, session>>

Init ==
  /\ GatewayInit
  /\ status = [s \in Sessions |-> "none"] /\ task = [s \in Sessions |-> "none"]
  /\ pending = [s \in Sessions |-> 0] /\ injected = [s \in Sessions |-> 0]
  /\ taken = [s \in Sessions |-> 0] /\ ran = [s \in Sessions |-> 0]

Ended == {"completed", "failed", "killed"}
InCall(c) == call[c].pc \in {"queued", "calling"}

fork(s) ==
  /\ status[s] = "none"
  /\ status' = [status EXCEPT ![s] = "running"] /\ task' = [task EXCEPT ![s] = "ready"]
  /\ pending' = [pending EXCEPT ![s] = 1] /\ taken' = [taken EXCEPT ![s] = 1]
  /\ UNCHANGED <<injected, ran, gateway>>

\* An input is accepted until the session ended.
Open(s) == status[s] # "none" /\ status[s] \notin Ended

inject_input(s) ==
  /\ Open(s) /\ taken[s] < MaxInputs
  /\ injected' = [injected EXCEPT ![s] = @ + 1] /\ taken' = [taken EXCEPT ![s] = @ + 1]
  /\ UNCHANGED <<status, task, pending, ran, gateway>>

\* _run_background takes the next input up to the call of the model.
Turn(s) ==
  /\ task[s] = "ready"
  /\ task' = [task EXCEPT ![s] = "turn"]
  /\ pending' = [pending EXCEPT ![s] = @ - 1] /\ ran' = [ran EXCEPT ![s] = @ + 1]
  /\ \E m \in Named : chat(s, m)
  /\ UNCHANGED <<status, injected, taken>>

\* *Mistake*: the inputs that were taken replace the ones still held.
Collected(s) == IF injected[s] > 0 THEN injected[s] ELSE pending[s]

\* The inputs that are left after a turn: the injected ones join the others.
Left(s) == pending[s] + injected[s]

\* The graph of a turn has ended, in an error event too: what was injected
\* is taken, and with nothing left the session is complete.
TurnEnds(s) ==
  /\ task[s] = "turn" /\ ~InCall(s)
  /\ pending' = [pending EXCEPT ![s] = Left(s)]
  /\ injected' = [injected EXCEPT ![s] = 0]
  /\ IF Left(s) > 0
     THEN task' = [task EXCEPT ![s] = "ready"] /\ UNCHANGED status
     ELSE task' = [task EXCEPT ![s] = "done"] /\ status' = [status EXCEPT ![s] = "completed"]
  /\ UNCHANGED <<taken, ran, gateway>>

\* An exception of the turn fails the session.
TurnRaises(s) ==
  /\ task[s] = "turn" /\ ~InCall(s)
  /\ status' = [status EXCEPT ![s] = "failed"] /\ task' = [task EXCEPT ![s] = "done"]
  /\ UNCHANGED <<pending, injected, taken, ran, gateway>>

\* The time limit of the call of the model: wait_for cancels the chat.
CallTimeout(s) == task[s] = "turn" /\ Cancelled(s) /\ UNCHANGED session

\* *Mistake*: the kill sets the status and leaves the task alone.
KillsRow(s) ==
  /\ status[s] # "none"
  /\ status' = [status EXCEPT ![s] = "killed"]
  /\ UNCHANGED <<task, pending, injected, taken, ran, gateway>>

\* background_kill cancels the task and awaits it; the status of a session
\* that had ended is overwritten.
background_kill(s) ==
  /\ status[s] # "none"
  /\ \/ task[s] = "done" /\ status' = [status EXCEPT ![s] = "killed"] /\ UNCHANGED task
     \/ task[s] # "done" /\ task' = [task EXCEPT ![s] = "stopping"] /\ UNCHANGED status
  /\ UNCHANGED <<pending, injected, taken, ran, gateway>>

\* The cancelled task ends, and the kill that awaits it returns.
Stops(s) ==
  /\ task[s] = "stopping"
  /\ task' = [task EXCEPT ![s] = "done"] /\ status' = [status EXCEPT ![s] = "killed"]
  /\ IF InCall(s) THEN Cancelled(s) ELSE UNCHANGED gateway
  /\ UNCHANGED <<pending, injected, taken, ran>>

-----------------------------------------------------------------------------
\* Another run calls or streams; its wait times out or it stops reading.
Calls(c) == (\E m \in Named : chat(c, m) \/ chat_stream(c, m)) /\ UNCHANGED session
StopsWaiting(c) == Cancelled(c) /\ UNCHANGED session

Models == /\ \/ \E m \in ModelSet \cup {NoModel} : attach_mlx_client(m)
             \/ detach_mlx_client
             \/ \E m \in ModelSet : ResetTime(m)
          /\ UNCHANGED session
ModelReturns(c) == (Answers(c) \/ Fails(c)) /\ UNCHANGED session
Granted(c) == Acquire(c) /\ UNCHANGED session

Next ==
  \/ Models
  \/ \E c \in Callers : Granted(c) \/ ModelReturns(c)
  \/ \E c \in Clients : Calls(c) \/ StopsWaiting(c)
  \/ \E s \in Sessions : \/ fork(s) \/ inject_input(s) \/ background_kill(s)
                         \/ Turn(s) \/ TurnEnds(s) \/ TurnRaises(s)
                         \/ CallTimeout(s) \/ Stops(s)

Spec == Init /\ [][Next]_vars
\* The HTTP client has a timeout, so every call returns; what is ready runs.
FairSpec ==
  /\ Spec
  /\ \A c \in Callers : WF_vars(Granted(c)) /\ WF_vars(ModelReturns(c))
  /\ \A s \in Sessions : WF_vars(Turn(s)) /\ WF_vars(Stops(s))
                         /\ WF_vars(TurnEnds(s) \/ TurnRaises(s))

-----------------------------------------------------------------------------
\* The calls that have a permit; with the queue, a Semaphore.
Calling == {c \in Callers : call[c].pc = "calling"}
Shared == INSTANCE Semaphore WITH Proc <- Callers, waits <- queue, holds <- Calling

-----------------------------------------------------------------------------
(* Properties.                                                             *)

\* Every permit of the semaphore is free or held by a call under way, through
\* failures, fallbacks, timeouts, kills and abandoned streams; and who waits
\* for one is in the queue once, and nobody else is.
PermitsKept ==
  /\ permits + Cardinality(Calling) = Limit
  /\ IsInjective(queue)
  /\ ToSet(queue) = {c \in Callers : call[c].pc = "queued"}

\* However calls fail, fall back, time out or are killed: the permits go to
\* the waiting in the order of their arrival, and a call that is retried waits
\* again behind the others.
ImplementsSemaphore == Shared!Spec

\* A breaker has a trip time exactly when its count is at the threshold:
\* successes, resets and late failures of other callers keep them together.
TripsMatch == \A m \in ModelSet : trip[m] # "closed" <=> failures[m] = Threshold

\* A session that is complete has run every input it accepted.
InputsAreRun == \A s \in Sessions : status[s] = "completed" => ran[s] = taken[s]

\* A session that is shown as ended has no call under way and no turn to come.
EndedIsIdle == \A s \in Sessions : status[s] \in Ended => task[s] = "done" /\ ~InCall(s)

\* Every session ends.
SessionsEnd == \A s \in Sessions : status[s] = "running" ~> status[s] \in Ended
=============================================================================
