\* Two overlapping runs on one lax router, with failures, changes by hand and
\* a new version of the zone files.
CONSTANTS
  r1 = r1
  r2 = r2
  a = a
  w = w
  m = m
  l = l
  x = x
  p1 = p1
  p2 = p2
  Runs = {p1, p2}
  Servers <- MCServers
  Order <- MCOrder
  Records <- MCRecords
  Foreign = {x}
  Dns <- MCDns
  TypeA = {a, x}
  Wild = {}
  Own <- MCOwn
  Covered <- MCCovered
  OldDns = {r2}
  Unknown <- MCUnknown
  Lax = {r1, r2}
  Versions <- MCVersions
  Initial <- MCInitial
  DryRuns = {TRUE, FALSE}
  Ids = {1, 2, 3, 4, 5, 6}
  MaxEdits = 1
  MaxFails = 0
SPECIFICATION Spec
SYMMETRY Symmetry
INVARIANT TypeOK
INVARIANT Reconciled
PROPERTY RemovesOnlyUnwanted
PROPERTY NoDoubleAdd
CHECK_DEADLOCK FALSE
