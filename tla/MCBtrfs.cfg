SPECIFICATION Spec
CONSTANTS
  a = a
  b = b
  Name = {a}
  QgroupId <- MCQgroupId
  Limit = {0, 1}
  Probes <- MCProbes
  MaxEdits = 4
INVARIANTS
  ReachesStaging
PROPERTIES
  NoQgroupActions
CHECK_DEADLOCK FALSE
