\* 12 proxies of 0..2 weeds and shadows, 0..2 retries, bodies of 0..2 blocks.
CONSTANTS
  Configs <- MCConfigs
  Requests <- MCRequests
  WeedTypes <- MCWeedTypes
  Nets <- MCNets
  MaxLen = 2
SPECIFICATION FairSpec
INVARIANTS
  ServedWhole
  FailureHonest
  NotFoundHasEvidence
  FailoverComplete
  Amplification
  PanicsHaveCause
PROPERTY Settles
\* A finished request stops.
CHECK_DEADLOCK FALSE
