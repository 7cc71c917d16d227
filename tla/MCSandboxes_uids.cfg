SPECIFICATION Spec
CONSTANTS
  s1 = s1
  s2 = s2
  s3 = s3
  Boxes = {s1, s2, s3}
  Users = {}
  Low = 5
  High = 7
  Driver = "cgroup"
  Rootless = FALSE
  Faults = {"items", "group", "zygote"}
  None = None
SYMMETRY BoxSymmetry
INVARIANT UidLedger
INVARIANT ProcessesApart
PROPERTY ExhaustedOnlyIfFull
