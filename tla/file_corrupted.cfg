SPECIFICATION Spec

CONSTANTS
  p1 = p1
  p2 = p2
  Procs = {p1, p2}
  NoHolder = NoHolder
  Starts <- MCStarts
  Size <- MCSize
  MaxCommands = 2
  MaxDeaths = 1

CHECK_DEADLOCK FALSE

PROPERTY CorruptedMeansInvalid
