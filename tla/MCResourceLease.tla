-------------------------- MODULE MCResourceLease --------------------------
(* One browser (one slot), one GPU (two slots, re-registered with one and   *)
(* back) and the advisory disk; two teams that compete for the browser.     *)
EXTENDS ResourceLease, TLC

CONSTANTS browser, gpu, disk, teamA, teamB, t1, t2

Slots == (browser :> 1) @@ (gpu :> 2) @@ (disk :> 0)

Ask(r, m, t, timed) == [resource |-> r, team |-> m, task |-> t, timed |-> timed]

Requests ==
  {Ask(browser, teamA, t1, TRUE), Ask(browser, teamB, t2, FALSE),
   Ask(gpu, teamA, t1, TRUE), Ask(disk, teamA, t1, TRUE)}

Registrations == {[resource |-> gpu, slots |-> 1], [resource |-> gpu, slots |-> 2]}

Symmetry == Permutations(Lease)
=============================================================================
