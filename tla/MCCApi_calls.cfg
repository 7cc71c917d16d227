SPECIFICATION FairSpec
CONSTANTS
  s1 = s1
  s2 = s2
  c1 = c1
  c2 = c2
  None = None
  Boxes = {s1, s2}
  Children = {c1, c2}
  Contexts = {"none", "entered", "driving"}
  Faults = {"setup", "create", "spawn", "build", "reactor"}
INVARIANT FreedIsKilled
 
PROPERTY KilledWithReason
PROPERTY WaitReturns
