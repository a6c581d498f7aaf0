SPECIFICATION ProberSpec
CONSTANTS
  l1 = l1
  l2 = l2
  lv1 = lv1
  lv2 = lv2
  lv3 = lv3
  d1 = d1
  d2 = d2
  d3 = d3
  d4 = d4
  d5 = d5
  mp = mp
  t1 = t1
  p1 = p1
  p2 = p2
  p3 = p3
  p4 = p4
  md = md
  t2 = t2
  b0 = b0
  c0 = c0
  pv1 = pv1
  pv2 = pv2
  pv3 = pv3
  pv4 = pv4
  v1 = v1
  v2 = v2
  v3 = v3
  f1 = f1
  f2 = f2
  Luks = {l1, l2}
  Lv = {lv1, lv2, lv3}
  On <- MCStack
  Uuid <- MCUuid
  Key <- MCKey
  Busy = {lv1}
  MaxAttempts = 2
  MaxErrors = 1
  MaxCalls = 2
  Disk = {d1, d2, d3, d4, d5}
  Multipath = {mp}
  Md = {md}
  Bcache = {b0}
  Cset = {c0}
  Pv = {pv1, pv2, pv3, pv4}
  Vg = {v1, v2, v3}
  Table = {t1, t2}
  Partition = {p1, p2, p3, p4}
  Filesystem = {f1}
  Btrfs = {f2}
  Beneath <- MCBeneath
  Mirrors <- MCMirrors
  Listing <- MCListing
  MaxFaults = 1
INVARIANTS
  ActivatesAllFlat
  StatusTrue
  DeactivatesAll
  ProbedAsReal
  ErrorsStayLocal
PROPERTIES
  CallsReturn
