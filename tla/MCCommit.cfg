SPECIFICATION Spec
CONSTANTS
  disk = disk
  t1 = t1
  p1 = p1
  p2 = p2
  p3 = p3
  l1 = l1
  l2 = l2
  f1 = f1
  f2 = f2
  f3 = f3
  m1 = m1
  m2 = m2
  m3 = m3
  Disk = {disk}
  Table = {t1}
  Partition = {p1, p2, p3}
  Luks = {l1, l2}
  Pv = {}
  Vg = {}
  Lv = {}
  Filesystem = {f1, f2, f3}
  MountPoint = {m1, m2, m3}
  Swap = {}
  OnlineShrink = {}
  OnlineGrow = {f1, f3}
  Path <- MCPath
  PartitionSize = {1, 2}
  LvSize = {}
  VgName = {}
  LvName = {}
  ActiveChoice = {TRUE}
  Probes <- MCProbes
  MaxEdits = 3
  MaxIgnored = 1
INVARIANTS
  Committable
  CardinalRules
  SystemCurrent
  EndsAsStaging
PROPERTIES
  FstabCurrent
CHECK_DEADLOCK FALSE
