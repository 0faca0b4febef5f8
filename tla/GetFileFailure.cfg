\* Two proxies without retries: with one shadow and without any.
CONSTANTS
  Configs <- MCFailureConfigs
  Requests <- MCRequests
  WeedTypes <- MCWeedTypes
  Nets <- MCNets
  MaxLen = 2
SPECIFICATION Spec
INVARIANT FailureIsTold404
CHECK_DEADLOCK FALSE
