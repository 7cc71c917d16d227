SPECIFICATION Spec
CONSTANTS
  Inherited <- V2Inherited
  Handles <- V2Handles
  Requests <- MCRequests
  MaxSpawns = 2
INVARIANT JoinEnforces
