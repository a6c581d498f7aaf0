SPECIFICATION Spec
CONSTANTS
  p1 = p1
  p2 = p2
  p3 = p3
  p4 = p4
  p5 = p5
  n1 = n1
  n2 = n2
  Sid <- MCSid
  Disks <- MCDisks
  Swaps = {n1}
  Lengths = {3, 5}
  MaxEdits = 3
  DiskLength = 26
  MaxSectors = 25
  MbrGap = 1
  GptEntries = 1
  PartitionSlots = 5
  DeviceRange = 9
  NumEbrs = 1
  Grain = 2
  Offset = 1
  Word = 65536
  OtherDisk <- MCOtherDisk
INVARIANTS
  NumbersSound
  RightPartition
  EndsAsStaging
  SlotsSound
  ActiveKeepNumber
  PoolKept
CHECK_DEADLOCK FALSE
