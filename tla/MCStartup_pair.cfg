SPECIFICATION FairSpec
CONSTANTS
  s1 = s1
  s2 = s2
  Boxes = {s1, s2}
  Faults = {"host", "unshare", "mapping", "setup", "crash"}
INVARIANT MappedBeforeSetup
INVARIANT Outcomes
PROPERTY StartReturns
PROPERTY ZygoteProceeds
PROPERTY DeathSeen
