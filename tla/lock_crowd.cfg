\* Three processes on two hosts; one may die, and two lock files may get old.
SPECIFICATION FairSpec
CONSTANTS
  p1 = p1
  p2 = p2
  p3 = p3
  h1 = h1
  h2 = h2
  Procs = {p1, p2, p3}
  Hosts = {h1, h2}
  HostOf <- TwoHosts
  MaxAgings = 2
  MaxDeaths = 1
  None = None
INVARIANTS TypeOK VerdictNamesDead
PROPERTIES ImplementsMutexUntilMisfire DeadLockReclaimed AcquireTerminates
