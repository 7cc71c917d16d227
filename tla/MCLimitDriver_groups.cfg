SPECIFICATION Spec
CONSTANTS
  s1 = s1
  s2 = s2
  probe = probe
  Boxes = {s1, s2}
  ManyPids = {s2}
  Probe = probe
  KindLists <- MCKindLists
  Rootless = TRUE
  None = None
INVARIANT Enforced
INVARIANT NothingLeft
INVARIANT HandlesClosed
