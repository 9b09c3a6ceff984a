\* A run one task at a time.
SPECIFICATION Spec
CONSTANTS
  r1 = r1
  A = A
  B = B
  C = C
  ann = ann
  bob = bob
  f = f
  g = g
  d = d
  iss = iss
  None = None
  MaxAttempts = 1
  Unlimited = Unlimited
  Runners = {r1}
  AgentOf <- AnnRuns
  TaskOrder <- Tasks
  DependsOn <- BAfterA
  Declared <- Files
  Planned = {B}
  Dirs = {d}
  Inside <- FileInDirectory
  Deliveries = {{f}}
  Submissions <- Others
  Openings <- OnlyPlanned
  Limits = {1}
  Steps = {Unlimited}
  Issues = {iss}
  Cooldown = 1
  Ttl = 0
  Retries = 1
  MaxClock = 1
  MaxRuns = 1
  MaxSubmits = 0
  MaxDetours = 1
CHECK_DEADLOCK FALSE
INVARIANT DependenciesAlwaysFirst
