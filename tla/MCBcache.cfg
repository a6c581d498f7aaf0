SPECIFICATION Spec
CONSTANTS
  d1 = d1
  d2 = d2
  d3 = d3
  b1 = b1
  b2 = b2
  b3 = b3
  s1 = s1
  s2 = s2
  Disk = {d1, d2, d3}
  Bcache = {b1, b2, b3}
  Cset = {s1, s2}
  Probes <- MCProbes
  None = None
  MaxEdits = 4
INVARIANTS
  Committable
  NumbersCome
  EndsAsStaging
CHECK_DEADLOCK FALSE
