SPECIFICATION Spec
CONSTANTS
  sda = sda
  sda1 = sda1
  Null = Null
  Thing = {sda, sda1}
  Present = {sda}
  Taboo = {sda}
  Backup = {"backup"}
  Saved <- MCSaved
  KeepsForeign = FALSE
  FirstSid = 1
  MaxSid = 4
  MaxKnown = 2
INVARIANTS
  ActiongraphFits
  SidsUnique
CHECK_DEADLOCK FALSE
