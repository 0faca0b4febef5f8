\* Two requests for one file, 0 or 1 retries, up to 3 versions.
CONSTANTS
  A = A
  B = B
  Clients <- MCClients
  Cases <- MCCases
  MaxVersions = 3
SPECIFICATION FairSpec
INVARIANTS
  OkNeedsRemoval
  RemovesOnceUnlessLost
  FailoverComplete
PROPERTY Settles
\* Finished requests stop.
CHECK_DEADLOCK FALSE
