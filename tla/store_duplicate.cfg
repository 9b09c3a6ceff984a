\* Two processes create the same task.
SPECIFICATION Spec
CONSTANTS
  w1 = w1
  w2 = w2
  T1 = T1
  T2 = T2
  T3 = T3
  T4 = T4
  T5 = T5
  T6 = T6
  I1 = I1
  ann = ann
  bob = bob
  f = f
  g = g
  None = None
  NoHolder = NoHolder
  Procs = {w1, w2}
  Setups <- StrictSetups
  Commands <- StrictCommands
  PathOrder <- OneFile
  ViewOrder <- TwoViews
  Retries = 1
  MaxCommands = 2
  MaxDeaths = 0
  MaxAttempts = 1
CHECK_DEADLOCK FALSE
SYMMETRY Writers
INVARIANT CreatedOnce
