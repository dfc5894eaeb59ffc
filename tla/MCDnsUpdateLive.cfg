\* Overlapping runs that somebody keeps starting, one change and one failure.
CONSTANTS
  r1 = r1
  r2 = r2
  a = a
  w = w
  m = m
  l = l
  x = x
  p1 = p1
  p2 = p2
  Runs = {p1, p2}
  Servers = {r1}
  Order <- OneRouter
  Records <- MCRecords
  Foreign = {x}
  Dns <- MCDns
  TypeA = {a, x}
  Wild = {}
  Own <- LiveOwn
  Covered <- LiveCovered
  OldDns = {}
  Unknown <- Nobody
  Lax = {}
  Versions <- MCVersions
  Initial <- MCInitial
  DryRuns = {FALSE}
  Ids = {1, 2, 3, 4, 5, 6}
  MaxEdits = 1
  MaxFails = 1
SPECIFICATION FairSpec
PROPERTY Converges
CHECK_DEADLOCK FALSE
