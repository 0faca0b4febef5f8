\* The default proxy: one weed of each type, no shadow, one retry.
CONSTANTS
  Configs <- MCDefaultConfigs
  Requests <- MCRequests
  WeedTypes <- MCWeedTypes
  Nets <- MCNets
  MaxLen = 2
SPECIFICATION Spec
INVARIANT SuccessReturnsThePicture
CHECK_DEADLOCK FALSE
