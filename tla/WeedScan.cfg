\* Every list of up to 4 servers, every type, rounds 0..3 (default retry 3).
CONSTANTS
  WeedTypes <- MCWeedTypes
  WeedLists <- MCWeedLists
  MaxRound = 3
SPECIFICATION Spec
INVARIANTS
  ScanIsGetWeed
  RightTypeInRange
\* A finished call stops.
CHECK_DEADLOCK FALSE
