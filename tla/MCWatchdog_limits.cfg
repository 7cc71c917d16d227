SPECIFICATION FairSpec
CONSTANTS
  Drivers = {"cgroup", "prlimit"}
  CpuLimits = {0, 1, 2}
  RealLimits = {1, 5}
  Second = 2
  Faults = {"zygote", "measure"}
  MaxTime = 4
INVARIANT ReasonBeforeKill
INVARIANT NoFalseTle
INVARIANT RlimitFits
PROPERTY LimitsEnforced
