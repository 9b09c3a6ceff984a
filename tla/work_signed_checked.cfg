SPECIFICATION Spec

CONSTANTS
  p1 = p1
  p2 = p2
  Procs = {p1, p2}
  NoHolder = NoHolder
  OwnerKey = "kowner"
  NoKey = "nokey"
  Checked = {"t1"}
  Target <- MCTarget
  Commands <- MCCommands
  Histories <- MCHistories
  Contents = {0, 1}
  Retries = 1
  MaxCommands = 4
  MaxDeaths = 1

SYMMETRY Twins

CHECK_DEADLOCK FALSE

PROPERTY EvidenceSuffices
