\* The same requests and proxies as Upload.cfg.
CONSTANTS
  A = A
  B = B
  NoCopy = NoCopy
  Clients <- MCClients
  Cases <- MCCases
  Paths <- MCPaths
  Ttls <- MCTtls
SPECIFICATION Spec
INVARIANT TtlForAllFiles
CHECK_DEADLOCK FALSE
