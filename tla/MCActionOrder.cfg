SPECIFICATION Spec
CONSTANTS
  a = a
  b = b
  c = c
  s = s
  t = t
  w = w
  Action <- MCAction
  OnlySync = {s, t}
  MountSwap = {w}
  Graph <- MCGraph
INVARIANTS
  PrerequisitesFirst
  ThrowsOnCycle
PROPERTIES
  SwapFirst
CHECK_DEADLOCK FALSE
