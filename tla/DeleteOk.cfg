\* The same requests and proxies as Delete.cfg.
CONSTANTS
  A = A
  B = B
  Clients <- MCClients
  Cases <- MCCases
  MaxVersions = 3
SPECIFICATION Spec
INVARIANT OkMeansDeleted
CHECK_DEADLOCK FALSE
