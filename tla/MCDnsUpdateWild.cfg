\* A wildcard and another record, on a router that is empty but for one entry.
CONSTANTS
  r1 = r1
  r2 = r2
  a = a
  w = w
  m = m
  l = l
  x = x
  p1 = p1
  p2 = p2
  Runs = {p1}
  Servers = {r1}
  Order <- OneRouter
  Records <- WildRecords
  Foreign = {x}
  Dns <- WildDns
  TypeA = {a, x}
  Wild = {w}
  Own <- Nobody
  Covered <- Nobody
  OldDns = {}
  Unknown <- Nobody
  Lax = {}
  Versions <- WildVersions
  Initial <- EmptyRouter
  DryRuns = {FALSE}
  Ids = {1, 2, 3, 4, 5, 6}
  MaxEdits = 0
  MaxFails = 0
SPECIFICATION Spec
INVARIANT AddsAll
CHECK_DEADLOCK FALSE
