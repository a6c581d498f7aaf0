SPECIFICATION Spec
CONSTANTS
  disk = disk
  t1 = t1
  p1 = p1
  p2 = p2
  p3 = p3
  pv1 = pv1
  pv2 = pv2
  pv3 = pv3
  pv4 = pv4
  v1 = v1
  v2 = v2
  lv1 = lv1
  lv2 = lv2
  f1 = f1
  f2 = f2
  m1 = m1
  Disk = {disk}
  Table = {t1}
  Partition = {p1, p2, p3}
  Luks = {}
  Pv = {pv1, pv2, pv3, pv4}
  Vg = {v1, v2}
  Lv = {lv1, lv2}
  Filesystem = {f1, f2}
  MountPoint = {m1}
  Swap = {}
  OnlineShrink = {}
  OnlineGrow = {f1}
  Path <- MCPath
  PartitionSize = {1, 2}
  LvSize = {1, 2}
  VgName <- MCVgName
  LvName <- MCLvName
  ActiveChoice = {TRUE}
  Probes <- MCProbes
  MaxEdits = 3
  MaxIgnored = 1
INVARIANTS
  ReachesStaging
CHECK_DEADLOCK FALSE
