SPECIFICATION Spec
CONSTANTS
  Inherited <- MCInherited
  Handles <- MCHandles
  Requests <- MCRequests
  MaxSpawns = 3
INVARIANT JobGetsItsFds
INVARIANT NothingExposed
INVARIANT ZygoteKeepsItsFds
INVARIANT FirstSpawnServed
