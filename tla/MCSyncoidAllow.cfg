\* Two commands with a common source, one with a target that is created.
CONSTANTS
  pool = pool
  src = src
  dst = dst
  new = new
  other = other
  usb = usb
  c1 = c1
  c2 = c2
  c3 = c3
  send = send
  hold = hold
  create = create
  NoDataset = NoDataset
  Commands = {c1, c2, c3}
  Datasets = {pool, src, dst, usb}
  Parent <- MCParent
  Permissions = {send, hold, create}
  Source <- SharedSource
  Target <- SharedTarget
  SourceAllow <- SharedSourceAllow
  TargetAllow <- SharedTargetAllow
  Existing = {pool, src}
  MaxReboots = 1
SPECIFICATION FairSpec
INVARIANT TypeOK
INVARIANT RunsPermitted
INVARIANT NoLeftovers
PROPERTY StartedRuns
CHECK_DEADLOCK FALSE
