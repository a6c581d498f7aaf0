SPECIFICATION Spec
CONSTANTS
  disk = disk
  t1 = t1
  p1 = p1
  p2 = p2
  p3 = p3
  f1 = f1
  f2 = f2
  f3 = f3
  m1 = m1
  m2 = m2
  m3 = m3
  Disk = {disk}
  Table = {t1}
  Partition = {p1, p2, p3}
  Luks = {}
  Pv = {}
  Vg = {}
  Lv = {}
  Filesystem = {f1, f2, f3}
  MountPoint = {m1, m2, m3}
  Swap = {f2}
  OnlineShrink = {}
  OnlineGrow = {}
  Path <- MCPath
  PartitionSize = {}
  LvSize = {}
  VgName = {}
  LvName = {}
  ActiveChoice = {TRUE, FALSE}
  Probes <- MCProbes
  MaxEdits = 3
  MaxIgnored = 0
INVARIANTS
  ReachesStaging
  NothingHidden
CHECK_DEADLOCK FALSE
