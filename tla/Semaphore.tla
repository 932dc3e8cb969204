----------------------------- MODULE Semaphore -----------------------------
(***************************************************************************)
(* What the semaphore of the model calls promises (_call_model_async and   *)
(* _get_semaphore in agent_runtime/llm_gateway.py): at most Limit holders, *)
(* served in the order of their arrival; a holder lets go itself, a waiter *)
(* may give up from any place, and neither disturbs the order of the rest. *)
(***************************************************************************)
EXTENDS Naturals, FiniteSets, SequencesExt

CONSTANTS Proc, Limit

VARIABLES waits, holds

Init == waits = <<>> /\ holds = {}

\* p, which has no part in it, queues up.
Enter(p) ==
  /\ p \notin holds \cup ToSet(waits)
  /\ waits' = Append(waits, p)
  /\ UNCHANGED holds

\* The first of the queue is let in, and may be out again at once.
Admit ==
  /\ waits # <<>> /\ Cardinality(holds) < Limit
  /\ waits' = Tail(waits)
  /\ holds' \in {holds, holds \cup {Head(waits)}}

\* A holder lets go, and may queue up again behind the others.
Leave(p) ==
  /\ p \in holds
  /\ holds' = holds \ {p}
  /\ waits' \in {waits, Append(waits, p)}

\* A waiter gives up.
Withdraw(p) ==
  /\ p \in ToSet(waits)
  /\ waits' = RemoveFirst(waits, p)
  /\ UNCHANGED holds

Next == Admit \/ \E p \in Proc : Enter(p) \/ Leave(p) \/ Withdraw(p)

Spec == Init /\ [][Next]_<<waits, holds>>
=============================================================================
