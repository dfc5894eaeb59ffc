\* Two commands that receive into new datasets of one pool.
CONSTANTS
  pool = pool
  src = src
  dst = dst
  new = new
  other = other
  usb = usb
  c1 = c1
  c2 = c2
  c3 = c3
  send = send
  hold = hold
  create = create
  NoDataset = NoDataset
  Commands = {c1, c2}
  Datasets = {pool, new, other}
  Parent <- MCParent
  Permissions = {create}
  Source <- NewSource
  Target <- NewTarget
  SourceAllow <- NewSourceAllow
  TargetAllow <- NewTargetAllow
  Existing = {pool}
  MaxReboots = 0
SPECIFICATION Spec
INVARIANT ProvisioningWorks
CHECK_DEADLOCK FALSE
