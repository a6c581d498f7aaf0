SPECIFICATION FairSpec
CONSTANTS
  Proc = {p1, p2}
  Obj = {o1, o2}
INVARIANTS
  Exclusion
  NothingLeaked
PROPERTIES
  CallsEnd
  ImplementsLockSpec
