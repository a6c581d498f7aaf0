SPECIFICATION Spec
CONSTANTS
  F = F
  G = G
  H = H
  other = other
  admin = admin
  FsSeq <- MCFsSeq
  PathSeq <- MCPathSeq
  Options = {1, 2}
  Files <- MCFiles
  Mounts <- MCMounts
  Added <- MCAdded
  MaxEdits = 3
INVARIANT EndsAsStaging
PROPERTIES
  OrderKept
  OthersKept
CHECK_DEADLOCK FALSE
