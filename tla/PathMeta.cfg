\* Three calls for one path, two connections.
CONSTANTS
  A = A
  B = B
  C = C
  NoRow = NoRow
  Callers <- MCCallers
  Paths <- MCPaths
  PathOf <- MCPathOf
  MaxOpenConnections = 2
SPECIFICATION FairSpec
INVARIANTS
  OkHasRow
PROPERTIES
  Atomic
  Settles
\* Calls that returned stop.
CHECK_DEADLOCK FALSE
