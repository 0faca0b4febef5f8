\* Two connections, channels of one value, five ticks.
CONSTANTS
  A = A
  B = B
  Conns <- MCConns
  Transfers <- MCTransfers
  Rings <- MCRings
  Slots <- MCSlots
  Unit <- MCUnit
  Cap = 1
  MaxMoves = 1
  MaxTime = 4
SPECIFICATION StatsFairSpec
INVARIANTS
  NothingLost
  AcceptsBounded
  RingIsWindow
PROPERTY EveryoneProceeds
\* Closed connections stop; without a counter, whoever sends stops.
CHECK_DEADLOCK FALSE
