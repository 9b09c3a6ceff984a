\* A run over planned and stored tasks, next to another agent.
SPECIFICATION FairSpec
CONSTANTS
  r1 = r1
  A = A
  B = B
  C = C
  ann = ann
  bob = bob
  f = f
  g = g
  d = d
  iss = iss
  None = None
  MaxAttempts = 1
  Unlimited = Unlimited
  Runners = {r1}
  AgentOf <- AnnRuns
  TaskOrder <- Tasks
  DependsOn <- BAfterA
  Declared <- Files
  Planned = {B}
  Dirs = {d}
  Inside <- FileInDirectory
  Deliveries = {{f}}
  Submissions <- Others
  Openings <- Beginnings
  Limits = {1, 2}
  Steps = {1, Unlimited}
  Issues = {}
  Cooldown = 1
  Ttl = 0
  Retries = 1
  MaxClock = 2
  MaxRuns = 1
  MaxSubmits = 1
  MaxDetours = 2
CHECK_DEADLOCK FALSE
INVARIANTS TypeOK DependenciesFirst DeliveriesDisjoint AdmittedOnce
PROPERTIES AttemptsBounded ExhaustionReported RunsEnd
