--------------------------- MODULE ResourceLease ---------------------------
(***************************************************************************)
(* The leases on exclusive resources: agent_runtime/resource_lease.py with *)
(* the rows of persistence.py behind it, and the daemon RPCs that call it. *)
(* Every call runs without an await, so each is one step; the state is all *)
(* in SQLite and outlives the daemon.  Time is one event per lease: the    *)
(* moment its expires_at passes.                                           *)
(***************************************************************************)
EXTENDS Naturals, FiniteSets

CONSTANTS
  Lease,          \* lease ids
  NoLease,        \* the empty resource_lease_id
  Resource,       \* registered resources
  Advisory,       \* those of kind advisory, always granted
  Seed,           \* Seed[r]: the slots seed_default_resources registers at start
  Team,           \* teams
  Task,           \* the tasks requests name
  Request,        \* what clients apply for: [resource, team, task, timed]
  NoRequest,      \* of a lease id not used yet
  Registration    \* re-registrations clients make: [resource, slots]

\* The arguments of lease_apply that matter; timed stands for ttl > 0.
Form == [resource : Resource, team : Team, task : Task, timed : BOOLEAN]

ASSUME LeaseAssumption ==
  /\ IsFiniteSet(Lease) /\ NoLease \notin Lease
  /\ Advisory \subseteq Resource
  /\ Seed \in [Resource -> Nat]
  /\ Request \subseteq Form /\ NoRequest \notin Form
  /\ Registration \subseteq [resource : Resource, slots : Nat]

VARIABLES
  slots,     \* slots[r]: the slots of r
  status,    \* status[l]: "none" before lease_apply
  request,   \* request[l]: resource_id, team, task_id and whether ttl > 0
  position,  \* position[l]: place in the queue, 0 when not queued
  overdue,   \* granted leases whose expires_at has passed
  link,      \* link[t]: resource_lease_id of task t
  sweepDue   \* the daemon has started and not yet swept

vars == <<slots, status, request, position, overdue, link, sweepDue>>

LeaseStatus == {"none", "granted", "queued", "released", "expired"}

Init ==
  /\ slots = Seed
  /\ status = [l \in Lease |-> "none"]
  /\ request = [l \in Lease |-> NoRequest]
  /\ position = [l \in Lease |-> 0]
  /\ overdue = {}
  /\ link = [t \in Task |-> NoLease]
  /\ sweepDue = TRUE

Granted(r) == {l \in Lease : status[l] = "granted" /\ request[l].resource = r}
Queue(r)   == {l \in Lease : status[l] = "queued" /\ request[l].resource = r}

\* What list_leases(resource, queued, team) returns; nobody of another team.
QueueOf(r, team) == {l \in Queue(r) : request[l].team = team}

\* count_active_leases
Active(r) == Cardinality(Granted(r))

\* Mistake: the length of the queue, which leavers shorten.
QueueLength(r) == Cardinality(Queue(r))

\* max_queued_position
LastPosition(r) ==
  IF Queue(r) = {} THEN 0
  ELSE CHOOSE n \in {position[l] : l \in Queue(r)} : \A l \in Queue(r) : position[l] <= n

\* The leases of S that stand before l.
Ahead(l, S) == {m \in S : position[m] < position[l]}

(***************************************************************************)
(* resource.lease_apply                                                    *)
(***************************************************************************)

\* Mistake: one slot too many.
FitsOneMore(q) == q.resource \in Advisory \/ Active(q.resource) <= slots[q.resource]

Fits(q) == q.resource \in Advisory \/ Active(q.resource) < slots[q.resource]

\* The daemon writes the lease into the task that asked, when granted at once.
Grant(l, q) ==
  /\ status[l] = "none" /\ Fits(q)
  /\ status' = [status EXCEPT ![l] = "granted"]
  /\ request' = [request EXCEPT ![l] = IF q.resource \in Advisory THEN [q EXCEPT !.timed = FALSE] ELSE q]
  /\ link' = [link EXCEPT ![q.task] = l]
  /\ UNCHANGED <<slots, position, overdue, sweepDue>>

Enqueue(l, q) ==
  /\ status[l] = "none" /\ ~Fits(q)
  /\ status' = [status EXCEPT ![l] = "queued"]
  /\ request' = [request EXCEPT ![l] = q]
  /\ position' = [position EXCEPT ![l] = LastPosition(q.resource) + 1]
  /\ UNCHANGED <<slots, overdue, link, sweepDue>>

(***************************************************************************)
(* resource.lease_release and the sweep of start()                         *)
(***************************************************************************)

\* Mistake: the newest of the queue is promoted.
LastOf(r, team) == {l \in QueueOf(r, team) : \A m \in QueueOf(r, team) : position[m] <= position[l]}

\* The lease _promote_queued picks: the first of the same team, if any.  It does
\* not look at the slots again.
FirstOf(r, team) == {l \in QueueOf(r, team) : Ahead(l, QueueOf(r, team)) = {}}

\* The leases in gone leave, those in next become granted.
Move(gone, outcome, next) ==
  /\ status' = [l \in Lease |-> IF l \in gone THEN outcome
                                ELSE IF l \in next THEN "granted" ELSE status[l]]
  /\ position' = [l \in Lease |-> IF l \in next THEN 0 ELSE position[l]]
  /\ overdue' = overdue \ gone
  /\ UNCHANGED <<slots, request, link>>

\* Mistake: a successor is promoted whenever a lease is released, queued or not.
ReleaseAlwaysPromoting(l) ==
  /\ status[l] \in {"granted", "queued"}
  /\ Move({l}, "released", FirstOf(request[l].resource, request[l].team) \ {l})
  /\ UNCHANGED sweepDue

\* Mistake: was_granted is read after the status is overwritten.
ReleaseUnseen(l) ==
  /\ status[l] \in {"granted", "queued"}
  /\ Move({l}, "released", {})
  /\ UNCHANGED sweepDue

Release(l) ==
  /\ status[l] \in {"granted", "queued"}
  /\ Move({l}, "released",
          IF status[l] = "granted" THEN FirstOf(request[l].resource, request[l].team) ELSE {})
  /\ UNCHANGED sweepDue

\* expires_at of a granted lease with a ttl passes; nothing happens then.
PassDeadline(l) ==
  /\ status[l] = "granted" /\ request[l].timed
  /\ overdue' = overdue \cup {l}
  /\ UNCHANGED <<slots, status, request, position, link, sweepDue>>

\* For each overdue lease in turn, its team's first in the queue is promoted: of
\* the queue of one team on one resource, as many as expired there.
Successors ==
  {l \in Lease : /\ status[l] = "queued"
                 /\ LET r == request[l].resource
                        team == request[l].team
                    IN  Cardinality(Ahead(l, QueueOf(r, team)))
                          < Cardinality({m \in overdue : request[m].resource = r /\ request[m].team = team})}

Sweep ==
  /\ sweepDue
  /\ Move(overdue, "expired", Successors)
  /\ sweepDue' = FALSE

(***************************************************************************)
(* resource.register, and the restart that seeds the registry again        *)
(***************************************************************************)

\* The upsert moves no lease: a shrunk resource keeps its holders, a grown one
\* its queue.
Register(g) ==
  /\ slots' = [slots EXCEPT ![g.resource] = g.slots]
  /\ UNCHANGED <<status, request, position, overdue, link, sweepDue>>

Restart ==
  /\ slots' = Seed
  /\ sweepDue' = TRUE
  /\ UNCHANGED <<status, request, position, overdue, link>>

Next ==
  \/ \E l \in Lease : \/ \E q \in Request : Grant(l, q) \/ Enqueue(l, q)
                      \/ Release(l) \/ PassDeadline(l)
  \/ \E g \in Registration : Register(g)
  \/ Sweep \/ Restart

Spec == Init /\ [][Next]_vars

\* start() goes on to its sweep; nothing makes a client release or a daemon
\* restart.
FairSpec == Spec /\ WF_vars(Sweep)

(***************************************************************************)
(* Properties                                                              *)
(***************************************************************************)

TypeOK ==
  /\ slots \in [Resource -> Nat]
  /\ status \in [Lease -> LeaseStatus]
  /\ request \in [Lease -> Form \cup {NoRequest}]
  /\ \A l \in Lease : status[l] = "none" <=> request[l] = NoRequest
  /\ position \in [Lease -> Nat]
  /\ overdue \subseteq {l \in Lease : status[l] = "granted"}
  /\ link \in [Task -> Lease \cup {NoLease}]
  /\ sweepDue \in BOOLEAN

\* Resources whose slots never change.
Steady == {r \in Resource \ Advisory : \A g \in Registration : g.resource # r}

\* A resource nobody re-registers never has more holders than slots, whatever
\* applications, releases, promotions and sweeps come together.
NoOvergrant == \A r \in Steady : Active(r) <= slots[r]

\* Re-registration can leave more holders than slots, but never does a step add
\* a holder beyond them.
GrantsWithinSlots ==
  [][\A r \in Resource \ Advisory : Active(r)' > Active(r) => Active(r)' <= slots'[r]]_vars

\* The queue of a resource is a queue: no two leases share a place.
PositionsDistinct ==
  \A l, m \in Lease : /\ l # m /\ status[l] = "queued" /\ status[m] = "queued"
                      /\ request[l].resource = request[m].resource
                      => position[l] # position[m]

\* Within a team the first to queue is the first to be promoted.
FirstComeFirstServed ==
  [][\A l \in Lease : status[l] = "queued" /\ status'[l] = "granted" =>
       \A m \in QueueOf(request[l].resource, request[l].team) :
         position[m] < position[l] => status'[m] # "queued"]_vars

\* Only one team ever asked for r.
OneTeam(r) ==
  \A l, m \in Lease : /\ status[l] # "none" /\ status[m] # "none"
                      /\ request[l].resource = r /\ request[m].resource = r
                      => request[l].team = request[m].team

\* Nobody waits for a resource of one team that has a slot to spare.
NobodyWaitsForFree ==
  \A r \in Steady : OneTeam(r) /\ Queue(r) # {} => Active(r) = slots[r]

\* A task is never linked to a lease it still waits for, or to another's lease.
LinkIsGranted ==
  \A t \in Task : link[t] # NoLease =>
    status[link[t]] \in {"granted", "released", "expired"} /\ request[link[t]].task = t

\* The state as lines at places: who holds, who waits, and who came before whom.
Holding == [n \in Resource \X Team |-> {l \in Lease : /\ status[l] = "granted"
                                 /\ request[l].resource = n[1] /\ request[l].team = n[2]}]
Waiting == [n \in Resource \X Team |-> {l \in Lease : /\ status[l] = "queued"
                                 /\ request[l].resource = n[1] /\ request[l].team = n[2]}]
Before == {b \in Lease \X Lease : /\ status[b[1]] = "queued" /\ status[b[2]] = "queued"
                                 /\ request[b[1]].resource = request[b[2]].resource
                                 /\ request[b[1]].team = request[b[2]].team
                                 /\ position[b[1]] < position[b[2]]}
Service == INSTANCE Handover WITH Unit <- Lease, Place <- Resource, Unlimited <- Advisory,
             Group <- Team, room <- slots, holds <- Holding, waits <- Waiting, before <- Before

\* Whatever releases, deadlines, sweeps and restarts come together: a slot that
\* becomes free goes to the first of its team's line, and nobody of a line
\* gets in otherwise.
ImplementsHandover == Service!Spec

\* What these rest on: the seeded slots survive every restart.
SteadySlots == \A r \in Steady : slots[r] = Seed[r]

IInv == /\ TypeOK /\ SteadySlots
        /\ PositionsDistinct /\ NoOvergrant /\ NobodyWaitsForFree /\ LinkIsGranted
=============================================================================
