\* Tasks are added while the last one is reviewed; two deliveries go to one file
\* while the limits of a task change, next to project and recover; an issue is
\* reported, fixed and resolved.  One process may be killed.
SPECIFICATION Spec
CONSTANTS
  w1 = w1
  w2 = w2
  T1 = T1
  T2 = T2
  T3 = T3
  T4 = T4
  T5 = T5
  T6 = T6
  I1 = I1
  ann = ann
  bob = bob
  f = f
  g = g
  None = None
  NoHolder = NoHolder
  Procs = {w1, w2}
  Setups <- BatchSetups
  Commands <- BatchCommands
  PathOrder <- TwoFiles
  ViewOrder <- TwoViews
  Retries = 1
  MaxCommands = 3
  MaxDeaths = 1
  MaxAttempts = 1
CHECK_DEADLOCK FALSE
SYMMETRY Writers
INVARIANTS SettledMatchesLog StagingSwept RepairsRestore
PROPERTIES LimitsHonoured FirstTryTrue HotfixForDoneTask ApprovalResolvesIssue
