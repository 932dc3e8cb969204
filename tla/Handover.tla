------------------------------ MODULE Handover ------------------------------
(***************************************************************************)
(* What the lease service promises (lease_apply, lease_release, expire_due *)
(* and _promote_queued in agent_runtime/resource_lease.py): a newcomer     *)
(* gets in while there is room; otherwise it stands in its team's line.    *)
(* Who holds a slot and leaves hands it over to the first of its own       *)
(* team's line, and nobody of a line gets in but by such a handover.       *)
(***************************************************************************)
EXTENDS Naturals, FiniteSets

CONSTANTS
  Unit,      \* who holds or waits
  Place,     \* what has room
  Unlimited, \* places with room for everybody
  Group      \* who shares a line at a place

Line == Place \X Group

VARIABLES
  room,    \* room[p]: how many may hold p
  holds,   \* holds[n]: those of line n who got in
  waits,   \* waits[n]: those who stand in line n
  before   \* the pairs of waiting units whose first came first
vars == <<room, holds, waits, before>>

Init ==
  /\ room \in [Place -> Nat]
  /\ holds = [n \in Line |-> {}] /\ waits = [n \in Line |-> {}]
  /\ before = {}

Present == UNION {holds[n] \cup waits[n] : n \in Line}
Holders(p) == UNION {holds[<<p, g>>] : g \in Group}
HasRoom(p) == p \in Unlimited \/ Cardinality(Holders(p)) < room[p]

GetsIn(u, n) ==
  /\ u \notin Present /\ HasRoom(n[1])
  /\ holds' = [holds EXCEPT ![n] = @ \cup {u}]
  /\ UNCHANGED <<room, waits, before>>

StandsBehind(u, n) ==
  /\ u \notin Present /\ ~HasRoom(n[1])
  /\ waits' = [waits EXCEPT ![n] = @ \cup {u}]
  /\ before' = before \cup (waits[n] \X {u})
  /\ UNCHANGED <<room, holds>>

\* Of a line that k holders leave, k get in, or all when they are fewer; and
\* nobody gets in whose predecessor stays behind.
Fair(line, next, k) ==
  /\ Cardinality(next) = IF Cardinality(line) < k THEN Cardinality(line) ELSE k
  /\ \A u \in next : \A v \in line \ next : <<v, u>> \notin before

\* The holders and waiters in gone leave, at all places at once.
HandOver(gone, next) ==
  /\ \A n \in Line : Fair(waits[n] \ gone, next \cap waits[n], Cardinality(holds[n] \cap gone))
  /\ holds' = [n \in Line |-> (holds[n] \ gone) \cup (next \cap waits[n])]
  /\ waits' = [n \in Line |-> waits[n] \ (gone \cup next)]
  /\ before' = {b \in before : {b[1], b[2]} \cap (gone \cup next) = {}}
  /\ UNCHANGED room

\* Those who are not there any more left; those who hold and waited got in.
Leave == HandOver(Present \ Present', UNION {holds'[n] \cap waits[n] : n \in Line})

\* Places are resized, and nobody moves.
Resize == room' \in [Place -> Nat] /\ UNCHANGED <<holds, waits, before>>

Next == \/ \E u \in Unit, n \in Line : GetsIn(u, n) \/ StandsBehind(u, n)
        \/ Leave \/ Resize

Spec == Init /\ [][Next]_vars
=============================================================================
