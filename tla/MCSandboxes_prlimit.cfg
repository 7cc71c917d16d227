SPECIFICATION FairSpec
CONSTANTS
  s1 = s1
  s2 = s2
  Boxes = {s1, s2}
  Users = {s1}
  Low = 5
  High = 7
  Driver = "prlimit"
  Rootless = TRUE
  Faults = {}
  None = None
INVARIANT PanicOnlyInDrop
PROPERTY OwnerReturns
PROPERTY KillsEnd
PROPERTY ImplementsZygoteLock
