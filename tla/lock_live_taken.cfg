\* Three processes of one host, one may die; no lock file gets old.
SPECIFICATION Spec
CONSTANTS
  p1 = p1
  p2 = p2
  p3 = p3
  h1 = h1
  Procs = {p1, p2, p3}
  Hosts = {h1}
  HostOf <- OneHost
  MaxAgings = 0
  MaxDeaths = 1
  None = None
INVARIANT LiveLockNeverTaken
