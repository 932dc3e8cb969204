SPECIFICATION Spec
CONSTANTS
  browser = browser
  gpu = gpu
  disk = disk
  teamA = teamA
  teamB = teamB
  t1 = t1
  t2 = t2
  Lease = {l1, l2, l3, l4, l5}
  NoLease = NoLease
  Resource = {browser, gpu, disk}
  Advisory = {disk}
  Seed <- Slots
  Team = {teamA, teamB}
  Task = {t1, t2}
  Request <- Requests
  NoRequest = NoRequest
  Registration <- Registrations
SYMMETRY Symmetry
INVARIANTS
  NoOvergrant
  PositionsDistinct
  NobodyWaitsForFree
PROPERTIES
  GrantsWithinSlots
  FirstComeFirstServed
CHECK_DEADLOCK FALSE
