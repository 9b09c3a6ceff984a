\* Claims, completions, reviews and rejections race; one process may be killed.
SPECIFICATION FairSpec
CONSTANTS
  w1 = w1
  w2 = w2
  T1 = T1
  T2 = T2
  T3 = T3
  T4 = T4
  T5 = T5
  T6 = T6
  I1 = I1
  ann = ann
  bob = bob
  f = f
  g = g
  None = None
  NoHolder = NoHolder
  Procs = {w1, w2}
  Setups <- RaceSetups
  Commands <- RaceCommands
  PathOrder <- OneFile
  ViewOrder <- OneView
  Retries = 1
  MaxCommands = 3
  MaxDeaths = 1
  MaxAttempts = 1
CHECK_DEADLOCK FALSE
INVARIANTS TypeOK LogReplays
PROPERTIES ImplementsLifecycle CommandsEnd
