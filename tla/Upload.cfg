\* Two requests, 0 or 1 retries, up to two fields of up to two files.
CONSTANTS
  A = A
  B = B
  NoCopy = NoCopy
  Clients <- MCClients
  Cases <- MCCases
  Paths <- MCPaths
  Ttls <- MCTtls
SPECIFICATION FairSpec
INVARIANTS
  ReplyIsBacked
  OrphansNeedFailure
  CopiesBounded
  LostTtlNeedsFailure
  CacheNamesACopy
  CacheAgrees
  SettingsFollowReply
  PanicsHaveCause
PROPERTY Settles
\* Finished requests stop.
CHECK_DEADLOCK FALSE
